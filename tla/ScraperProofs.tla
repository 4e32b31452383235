---------------------------- MODULE ScraperProofs ----------------------------
(***************************************************************************)
(* What the whole scraper keeps, for any seeds, links, pages and domains,  *)
(* any number of crawl and parse runs, retries, restarts and failures: a   *)
(* URL is lost on its way round the two queues only for a reason that      *)
(* GivenUp names, a crawl that has come to rest is complete but for those  *)
(* URLs, and while its parse job does not fail the indexer gets a page     *)
(* once.                                                                   *)
(*                                                                         *)
(* The two halves bring their own invariants: a step of the scraper is a   *)
(* step of FetchAndStore, a step of Discovery, both, or leaves them alone, *)
(* so what FetchProofs and DiscoveryProofs prove of one step holds here.   *)
(***************************************************************************)
EXTENDS Scraper, FiniteSetTheorems, TLAPS

FP == INSTANCE FetchProofs
        WITH Jobs <- Urls, GithubJobs <- {}, Pages <- Urls, Served <- [u \in Urls |-> {u}],
             Runs <- CrawlRuns, run <- crawlRun, cut <- crawlCut

DP == INSTANCE DiscoveryProofs
        WITH ParsedAs <- [u \in Urls |-> u], MaxCrashes <- MaxRestarts, Runs <- ParseRuns,
             run <- parseRun, cut <- parseCut, crashes <- restarts

(* The assumptions of the two halves.                                      *)
LEMMA CrawlAssumed ==
  /\ None \notin CrawlRuns \union Urls \union Urls
  /\ FP!IsFiniteSet(CrawlRuns)
  /\ MaxRuns \in [Urls -> Nat] /\ MaxRestarts \in Nat /\ MaxFaults \in Nat
  /\ MAX_RETRIES \in Nat \ {0}
  /\ Near \subseteq Urls \X Urls
  /\ \A p \in Urls : <<p, p>> \in Near
  /\ \A p, q \in Urls : <<p, q>> \in Near => <<q, p>> \in Near
  /\ DomainOf \in [Urls -> Domains]
  /\ {} \subseteq Urls
  /\ [u \in Urls |-> {u}] \in [Urls -> SUBSET Urls]
BY UrlAssumption, NearAssumption, BoundAssumption, NoneAssumption, RetryAssumption
   DEF IsFiniteSet, FP!IsFiniteSet

LEMMA ParseAssumed ==
  /\ None \notin Urls /\ None \notin DP!Meta
  /\ Seeds \subseteq Urls
  /\ LinksOf \in [Urls -> Seq(Urls)]
  /\ CanonicalOf \in [Urls -> Urls \union {None}]
  /\ [u \in Urls |-> u] \in [Urls -> Urls]
  /\ MaxParses \in Nat /\ MaxRestarts \in Nat
BY UrlAssumption, BoundAssumption, NoneAssumption DEF DP!Meta

-----------------------------------------------------------------------------
(* The queues of the crawl job are those of the instance that carries the  *)
(* proofs, and those of the parse job, ...                                 *)
LEMMA SameQueue ==
  /\ F!Attempts = Attempts /\ FP!Attempts = Attempts
  /\ F!NoCopy = NoCopy
  /\ \A queue, job, counts : /\ F!PutBack(queue, job, counts) = PutBack(queue, job, counts)
                             /\ FP!PutBack(queue, job, counts) = PutBack(queue, job, counts)
  /\ \A list, job, counts : /\ F!WithFailed(list, job, counts) = WithFailed(list, job, counts)
                            /\ FP!WithFailed(list, job, counts) = WithFailed(list, job, counts)
  /\ \A queue, job, n : /\ F!Taken(queue, job, n) = Taken(queue, job, n)
                        /\ FP!Taken(queue, job, n) = Taken(queue, job, n)
<1>1. F!Attempts = Attempts /\ FP!Attempts = Attempts
  BY DEF F!Attempts, FP!Attempts, Attempts
<1> QED BY <1>1 DEF F!NoCopy, NoCopy, F!PutBack, FP!PutBack, PutBack, F!WithFailed, FP!WithFailed,
                    WithFailed, F!Taken, FP!Taken, Taken

LEMMA SameCompletion ==
  ASSUME NEW r \in CrawlRuns
  PROVE  /\ F!NoRun = FP!NoRun
         /\ F!Fault <=> FP!Fault
         /\ \A counts : F!Complete(r, counts) <=> FP!Complete(r, counts)
         /\ \A counts : F!End(r, counts) <=> FP!End(r, counts)
         /\ F!AfterFailure(r) = FP!AfterFailure(r) /\ F!AfterLimit(r) = FP!AfterLimit(r)
<1>1. F!NoRun = FP!NoRun
  BY DEF F!NoRun, FP!NoRun
<1>2. \A counts : F!Complete(r, counts) <=> FP!Complete(r, counts)
  BY SameQueue DEF F!Complete, FP!Complete
<1> QED BY <1>1, <1>2
        DEF F!End, FP!End, F!Fault, FP!Fault, F!AfterFailure, FP!AfterFailure, F!AfterLimit,
            FP!AfterLimit

(* ... so are its steps, ...                                               *)
LEMMA SameRunSteps ==
  ASSUME NEW r \in CrawlRuns
  PROVE  /\ \A u \in Urls, n \in Attempts : F!Start(r, u, n) => FP!Start(r, u, n)
         /\ \A counts : F!Timeout(r, counts) => FP!Timeout(r, counts)
         /\ F!MetaHit(r) => FP!MetaHit(r)
         /\ F!MetaMiss(r) => FP!MetaMiss(r)
         /\ F!Robots(r) => FP!Robots(r)
         /\ F!Reserve(r) => FP!Reserve(r)
         /\ \A counts : F!Limited(r, counts) => FP!Limited(r, counts)
         /\ F!Fetch(r) => FP!Fetch(r)
         /\ F!Dedup(r) => FP!Dedup(r)
         /\ F!Store(r) => FP!Store(r)
         /\ F!EnqueueParse(r) => FP!EnqueueParse(r)
         /\ \A counts : F!CallFails(r, counts) => FP!CallFails(r, counts)
<1> USE DEF F!metaVars, FP!metaVars, F!indexVars, FP!indexVars, F!storeVars, FP!storeVars,
            F!boundVars, FP!boundVars, F!queueVars, FP!queueVars
<1>1. /\ F!Domain(r) = FP!Domain(r)
      /\ F!AfterTimeout(r) = FP!AfterTimeout(r)
  BY DEF F!Domain, FP!Domain, F!AfterTimeout, FP!AfterTimeout
<1>2. F!Succeed(r) <=> FP!Succeed(r)
  BY SameCompletion DEF F!Succeed, FP!Succeed
<1>3. \A stage : F!Goto(r, stage) <=> FP!Goto(r, stage)
  BY DEF F!Goto, FP!Goto
<1>4. \A page : F!IsNearDuplicate(page) <=> FP!IsNearDuplicate(page)
  BY DEF F!IsNearDuplicate, FP!IsNearDuplicate
<1>5. ASSUME NEW u \in Urls, NEW n \in Attempts, F!Start(r, u, n) PROVE FP!Start(r, u, n)
  BY <1>5, SameCompletion, SameQueue DEF F!Start, FP!Start
<1>6. ASSUME NEW counts, F!Timeout(r, counts) PROVE FP!Timeout(r, counts)
  BY <1>1, <1>6, SameCompletion DEF F!Timeout, FP!Timeout
<1>7. F!MetaHit(r) => FP!MetaHit(r)
  BY <1>1 DEF F!MetaHit, FP!MetaHit
<1>8. F!MetaMiss(r) => FP!MetaMiss(r)
  BY <1>1, <1>3 DEF F!MetaMiss, FP!MetaMiss
<1>9. F!Robots(r) => FP!Robots(r)
  BY <1>2, <1>3 DEF F!Robots, FP!Robots
<1>10. F!Reserve(r) => FP!Reserve(r)
  BY <1>3 DEF F!Reserve, FP!Reserve
<1>11. ASSUME NEW counts, F!Limited(r, counts) PROVE FP!Limited(r, counts)
  BY <1>11, SameCompletion DEF F!Limited, FP!Limited
<1>12. F!Fetch(r) => FP!Fetch(r)
  BY <1>2 DEF F!Fetch, FP!Fetch
<1>13. F!Dedup(r) => FP!Dedup(r)
  BY <1>2, <1>3, <1>4 DEF F!Dedup, FP!Dedup
<1>14. F!Store(r) => FP!Store(r)
  BY <1>3 DEF F!Store, FP!Store
<1>15. F!EnqueueParse(r) => FP!EnqueueParse(r)
  BY <1>2 DEF F!EnqueueParse, FP!EnqueueParse
<1>16. ASSUME NEW counts, F!CallFails(r, counts) PROVE FP!CallFails(r, counts)
  BY <1>16, SameCompletion DEF F!CallFails, FP!CallFails
<1> QED BY <1>5, <1>6, <1>7, <1>8, <1>9, <1>10, <1>11, <1>12, <1>13, <1>14, <1>15, <1>16

(* ... and the flights, what befalls the queue, and the restart.           *)
LEMMA SameFlights ==
  ASSUME NEW d \in Domains
  PROVE  /\ F!Waiting(d) = FP!Waiting(d)
         /\ \A robots \in {"allows", "blocks"} :
              F!FlightLands(d, robots) => FP!FlightLands(d, robots)
         /\ F!FlightFails(d) => FP!FlightFails(d)
         /\ F!MetaExpires(d) => FP!MetaExpires(d)
<1> USE DEF F!indexVars, FP!indexVars, F!storeVars, FP!storeVars, F!boundVars, FP!boundVars,
            F!queueVars, FP!queueVars
<1>1. F!Waiting(d) = FP!Waiting(d)
  BY DEF F!Waiting, FP!Waiting, F!Domain, FP!Domain
<1>2. \A robots \in {"allows", "blocks"} : F!FlightLands(d, robots) => FP!FlightLands(d, robots)
  BY <1>1 DEF F!FlightLands, FP!FlightLands, F!Landing, FP!Landing
<1>3. F!FlightFails(d) => FP!FlightFails(d)
  BY <1>1 DEF F!FlightFails, FP!FlightFails, F!Landing, FP!Landing, F!Fault, FP!Fault
<1>4. F!MetaExpires(d) => FP!MetaExpires(d)
  BY DEF F!MetaExpires, FP!MetaExpires
<1> QED BY <1>1, <1>2, <1>3, <1>4

LEMMA SameSlips ==
  ASSUME NEW u \in Urls, NEW n \in Attempts
  PROVE  /\ F!PopLost(u, n) => FP!PopLost(u, n)
         /\ F!Doubled(u, n) => FP!Doubled(u, n)
BY SameQueue DEF F!PopLost, FP!PopLost, F!Doubled, FP!Doubled, F!Fault, FP!Fault, F!metaVars,
   FP!metaVars, F!indexVars, FP!indexVars, F!storeVars, FP!storeVars

LEMMA SameRestart ==
  ASSUME NEW back \in SUBSET F!Live, F!Restart(back)
  PROVE  FP!Restart(back) /\ back \in SUBSET FP!Live
<1>1. \A S : F!Cardinality(S) = FP!Cardinality(S)
  BY DEF F!Cardinality, FP!Cardinality
<1>2. /\ F!NoRun = FP!NoRun /\ F!Live = FP!Live
      /\ F!Fault <=> FP!Fault
  BY DEF F!NoRun, FP!NoRun, F!Live, FP!Live, F!Fault, FP!Fault
<1>3. \A queue, runs, jobOf, countOf :
        F!AllPutBack(queue, runs, jobOf, countOf) = FP!AllPutBack(queue, runs, jobOf, countOf)
  BY <1>1, SameQueue DEF F!AllPutBack, FP!AllPutBack
<1>4. \A list, runs, jobOf, countOf :
        F!AllFailed(list, runs, jobOf, countOf) = FP!AllFailed(list, runs, jobOf, countOf)
  BY DEF F!AllFailed, FP!AllFailed
<1> QED BY <1>2, <1>3, <1>4 DEF F!Restart, FP!Restart

(* The steps of the parse job.                                             *)
LEMMA SameParseSteps ==
  ASSUME NEW q \in ParseRuns
  PROVE  /\ \A u \in Urls : D!Start(q, u) => DP!Start(q, u)
         /\ D!Timeout(q) => DP!Timeout(q)
         /\ D!ReadPage(q) => DP!ReadPage(q)
         /\ \A added \in BOOLEAN : D!Publish(q, added) => DP!Publish(q, added)
         /\ D!Discover(q) => DP!Discover(q)
         /\ D!DiscoverFails(q) => DP!DiscoverFails(q)
         /\ D!Enqueue(q) => DP!Enqueue(q)
         /\ D!Reread(q) => DP!Reread(q)
         /\ D!Rewrite(q) => DP!Rewrite(q)
<1> USE DEF D!boundVars, DP!boundVars
<1>1. /\ D!NoRun = DP!NoRun
      /\ D!InHand(q) = DP!InHand(q)
      /\ D!AfterTimeout(q) = DP!AfterTimeout(q)
      /\ D!Crawled = DP!Crawled
      /\ D!Bumped(q) = DP!Bumped(q)
      /\ \A url : D!DepthOf(url) = DP!DepthOf(url)
      /\ \A url : D!IsNew(url) <=> DP!IsNew(url)
      /\ \A depth : D!Fresh(depth) = DP!Fresh(depth)
  BY DEF D!NoRun, DP!NoRun, D!InHand, DP!InHand, D!Target, DP!Target, D!AfterTimeout,
     DP!AfterTimeout, D!Crawled, DP!Crawled, D!Bumped, DP!Bumped, D!DepthOf, DP!DepthOf,
     D!IsNew, DP!IsNew, D!Fresh, DP!Fresh
<1>2. \A stage : D!Goto(q, stage) <=> DP!Goto(q, stage)
  BY DEF D!Goto, DP!Goto
<1>3. \A clean : D!NextLink(q, clean) <=> DP!NextLink(q, clean)
  BY <1>1 DEF D!NextLink, DP!NextLink
<1>4. \A u \in Urls : D!Start(q, u) => DP!Start(q, u)
  BY <1>1 DEF D!Start, DP!Start
<1>5. D!Timeout(q) => DP!Timeout(q)
  BY <1>1 DEF D!Timeout, DP!Timeout
<1>6. D!ReadPage(q) => DP!ReadPage(q)
  BY <1>1 DEF D!ReadPage, DP!ReadPage
<1>7. \A added \in BOOLEAN : D!Publish(q, added) => DP!Publish(q, added)
  BY <1>1 DEF D!Publish, DP!Publish
<1>8. D!Discover(q) => DP!Discover(q)
  BY <1>1, <1>2 DEF D!Discover, DP!Discover
<1>9. D!DiscoverFails(q) => DP!DiscoverFails(q)
  BY <1>1, <1>3 DEF D!DiscoverFails, DP!DiscoverFails
<1>10. D!Enqueue(q) => DP!Enqueue(q)
  BY <1>1, <1>3 DEF D!Enqueue, DP!Enqueue
<1>11. D!Reread(q) => DP!Reread(q)
  BY <1>1, <1>3 DEF D!Reread, DP!Reread
<1>12. D!Rewrite(q) => DP!Rewrite(q)
  BY <1>1, <1>3 DEF D!Rewrite, DP!Rewrite
<1> QED BY <1>4, <1>5, <1>6, <1>7, <1>8, <1>9, <1>10, <1>11, <1>12

LEMMA SameCrash == D!Crash => DP!Crash
<1>1. D!NoRun = DP!NoRun /\ \A q : D!InHand(q) = DP!InHand(q)
  BY DEF D!NoRun, DP!NoRun, D!InHand, DP!InHand, D!Target, DP!Target
<1> QED BY <1>1 DEF D!Crash, DP!Crash

-----------------------------------------------------------------------------
LinkStages == {"link", "enqueue", "reread", "rewrite"}

(* The page of a crawl run is the one its URL is served at.                *)
OwnPage ==
  \A r \in CrawlRuns : crawlRun[r].page # None => crawlRun[r].page = crawlRun[r].job

(* A parse run comes to the links of its page after AddMsg.                *)
PublishedFirst ==
  \A q \in ParseRuns :
    parseRun[q].at \in LinkStages
      => published[parseRun[q].url] > 0 \/ "unpublished" \in events[parseRun[q].url]

(* A parse run that has not yet come to AddMsg.                            *)
Ahead(q, u) == parseRun[q].url = u /\ parseRun[q].at \in {"meta", "publish"}

Undisturbed(u) ==
  restarts = MaxRestarts /\ parseFailures[u] = 0 /\ "doubled" \notin events[u]

(* While its parse job does not fail, the one job of a page waits, is run  *)
(* by one run, or has been published.                                      *)
OneJob ==
  \A u \in Urls :
    Undisturbed(u)
      => /\ \A n \in Attempts \ {0} : toParse[u][n] = 0
         /\ toParse[u][0] + published[u] <= parsing[u]
         /\ \A q \in ParseRuns :
              Ahead(q, u) => toParse[u][0] = 0 /\ published[u] = 0 /\ parsing[u] > 0
         /\ \A p, q \in ParseRuns : Ahead(p, u) /\ Ahead(q, u) => p = q

(* A copy of a crawl job, or of a parse job, that waits or is run.         *)
CrawlHas(u, n) ==
  \/ todo[u][n] > 0
  \/ \E r \in CrawlRuns : crawlRun[r].live /\ crawlRun[r].job = u /\ crawlRun[r].retries = n

ParseHas(u, n) ==
  \/ toParse[u][n] > 0
  \/ \E q \in ParseRuns : parseRun[q].live /\ parseRun[q].url = u /\ parseRetries[q] = n

(* A copy whose RetryCount is no higher than its job has failed: only that *)
(* many failures more bring it to the failed list.                         *)
CrawlLow(u) == \E n \in Attempts : n <= crawlFailures[u] /\ CrawlHas(u, n)

ParseLow(u) == \E n \in Attempts : n <= parseFailures[u] /\ ParseHas(u, n)

(* One copy of a job was dropped because another one is bringing the page. *)
Brought(u) ==
  /\ "self" \in events[u]
  /\ \E r \in CrawlRuns : /\ crawlRun[r].live /\ crawlRun[r].job = u
                          /\ crawlRun[r].at \in {"store", "enqueue"}

Done(u) == published[u] > 0 \/ GivenUp(u)

(* Where every known URL is: what Accounted says, and such a copy of it.   *)
Traced ==
  \A u \in Urls :
    u \in Seeds \ toSeed \/ urlmeta[u] # None
      => CrawlLow(u) \/ Brought(u) \/ ParseLow(u) \/ Enqueuing(u) \/ Done(u)

(* A page that was handed to the parser goes on from there.                *)
ParsedOn == \A u \in Urls : parsing[u] > 0 => ParseLow(u) \/ Done(u)

(* A run that its worker has given up, and a page that was cut off between *)
(* the index and the queue, have left a failure behind.                    *)
FailuresNoted ==
  /\ \A r \in CrawlRuns :
       crawlRun[r].at # "idle" /\ ~crawlRun[r].live => crawlFailures[crawlRun[r].job] > 0
  /\ \A u \in crawlCut : crawlFailures[u] > 0

OwnTypes ==
  /\ toSeed \subseteq Seeds
  /\ toParse \in [Urls -> [Attempts -> Nat]] /\ parseFailed \subseteq Urls
  /\ parseRetries \in [ParseRuns -> Attempts]
  /\ events \in [Urls -> SUBSET Events]
  /\ crawlFailures \in [Urls -> Nat] /\ parseFailures \in [Urls -> Nat]
  /\ restarts <= MaxRestarts

(* The inductive invariant of the scraper.                                 *)
SInv == /\ OwnTypes /\ FP!IInv /\ DP!FInv
        /\ OwnPage /\ PublishedFirst /\ OneJob
        /\ Traced /\ ParsedOn /\ FailuresNoted

-----------------------------------------------------------------------------
(* The queues.                                                             *)
LEMMA SomeAttempts == /\ MAX_RETRIES \in Nat \ {0} /\ 0 \in Attempts /\ Attempts \subseteq Nat
                      /\ \A n \in Attempts : n + 1 \in Attempts \/ n + 1 = MAX_RETRIES
BY RetryAssumption DEF Attempts

LEMMA PutBackFacts ==
  ASSUME NEW queue \in [Urls -> [Attempts -> Nat]], NEW j \in Urls, NEW counts
  PROVE  LET after == PutBack(queue, j, counts) IN
         /\ after \in [Urls -> [Attempts -> Nat]]
         /\ \A u \in Urls, n \in Attempts : after[u][n] >= queue[u][n]
         /\ \A n \in Attempts : n \in counts => after[j][n] > 0
         /\ \A u \in Urls : u # j => after[u] = queue[u]
<1> DEFINE copies == [n \in Attempts |-> IF n \in counts THEN queue[j][n] + 1 ELSE queue[j][n]]
           after == PutBack(queue, j, counts)
<1>1. /\ copies \in [Attempts -> Nat]
      /\ \A n \in Attempts : copies[n] >= queue[j][n]
      /\ \A n \in Attempts : n \in counts => copies[n] > 0
  BY SomeAttempts
<1>2. after = [queue EXCEPT ![j] = copies]
  BY DEF PutBack
<1> HIDE DEF copies
<1>3. after[j] = copies /\ \A u \in Urls : u # j => after[u] = queue[u]
  BY <1>2
<1>4. after \in [Urls -> [Attempts -> Nat]]
  BY <1>1, <1>2
<1> HIDE DEF after
<1>5. \A u \in Urls, n \in Attempts : after[u][n] >= queue[u][n]
  <2>1. \A u \in Urls : queue[u] \in [Attempts -> Nat]
    OBVIOUS
  <2>2. \A u \in Urls, n \in Attempts : queue[u][n] \in Nat
    BY <2>1
  <2> QED BY <1>1, <1>3, <2>2
<1> QED BY <1>1, <1>3, <1>4, <1>5 DEF after

LEMMA TakenFacts ==
  ASSUME NEW queue \in [Urls -> [Attempts -> Nat]], NEW j \in Urls, NEW m \in Attempts,
         queue[j][m] > 0
  PROVE  LET after == Taken(queue, j, m) IN
         /\ after \in [Urls -> [Attempts -> Nat]]
         /\ after[j][m] = queue[j][m] - 1
         /\ \A n \in Attempts : n # m => after[j][n] = queue[j][n]
         /\ \A u \in Urls : u # j => after[u] = queue[u]
<1> DEFINE copies == [queue[j] EXCEPT ![m] = @ - 1]
           after == Taken(queue, j, m)
<1>1. /\ copies \in [Attempts -> Nat] /\ copies[m] = queue[j][m] - 1
      /\ \A n \in Attempts : n # m => copies[n] = queue[j][n]
  OBVIOUS
<1>2. after = [queue EXCEPT ![j] = copies]
  BY DEF Taken
<1> HIDE DEF copies
<1>3. after[j] = copies /\ \A u \in Urls : u # j => after[u] = queue[u]
  BY <1>2
<1>4. after \in [Urls -> [Attempts -> Nat]]
  BY <1>1, <1>2
<1> QED BY <1>1, <1>3, <1>4

LEMMA WithNewFacts ==
  ASSUME NEW copies \in [Attempts -> Nat], NEW k \in Nat
  PROVE  /\ WithNew(copies, k) \in [Attempts -> Nat]
         /\ WithNew(copies, k)[0] = copies[0] + k
         /\ \A n \in Attempts : n # 0 => WithNew(copies, k)[n] = copies[n]
         /\ \A n \in Attempts : WithNew(copies, k)[n] >= copies[n]
BY SomeAttempts DEF WithNew

(* What a Stop puts back, of the runs it completes.                        *)
LEMMA AllPutBackFacts ==
  ASSUME NEW queue \in [Urls -> [Attempts -> Nat]], NEW runs, IsFiniteSet(runs),
         NEW jobOf, NEW countOf
  PROVE  LET after == AllPutBack(queue, runs, jobOf, countOf) IN
         /\ after \in [Urls -> [Attempts -> Nat]]
         /\ \A u \in Urls, n \in Attempts : after[u][n] >= queue[u][n]
         /\ \A r \in runs : jobOf[r] \in Urls /\ countOf[r] + 1 \in Attempts
                              => after[jobOf[r]][countOf[r] + 1] > 0
<1> DEFINE came(u, n) == {r \in runs : jobOf[r] = u /\ countOf[r] + 1 = n}
           after == AllPutBack(queue, runs, jobOf, countOf)
<1>1. \A u, n : IsFiniteSet(came(u, n)) /\ Cardinality(came(u, n)) \in Nat
  BY FS_Subset, FS_CardinalityType
<1>2. after = [u \in Urls |-> [n \in Attempts |-> queue[u][n] + Cardinality(came(u, n))]]
  BY DEF AllPutBack
<1>3. \A r \in runs : Cardinality(came(jobOf[r], countOf[r] + 1)) > 0
  <2>1. SUFFICES ASSUME NEW r \in runs
                 PROVE  Cardinality(came(jobOf[r], countOf[r] + 1)) > 0
    OBVIOUS
  <2>2. came(jobOf[r], countOf[r] + 1) # {}
    BY <2>1
  <2> HIDE DEF came
  <2> QED BY <1>1, <2>2, FS_EmptySet
<1> HIDE DEF came
<1>4. \A u \in Urls, n \in Attempts : queue[u][n] \in Nat
  <2>1. \A u \in Urls : queue[u] \in [Attempts -> Nat]
    OBVIOUS
  <2> QED BY <2>1
<1>5. \A u \in Urls, n \in Attempts : after[u][n] = queue[u][n] + Cardinality(came(u, n))
  BY <1>2
<1>6. after \in [Urls -> [Attempts -> Nat]]
  BY <1>1, <1>2, <1>4
<1> HIDE DEF after
<1>7. \A u \in Urls, n \in Attempts : after[u][n] >= queue[u][n]
  BY <1>1, <1>4, <1>5
<1>8. \A r \in runs : jobOf[r] \in Urls /\ countOf[r] + 1 \in Attempts
                        => after[jobOf[r]][countOf[r] + 1] > 0
  BY <1>1, <1>3, <1>4, <1>5
<1> QED BY <1>6, <1>7, <1>8 DEF after

-----------------------------------------------------------------------------
(* What happened to a URL is never forgotten.                              *)
HistoryGrows ==
  /\ events' \in [Urls -> SUBSET Events]
  /\ crawlFailures' \in [Urls -> Nat] /\ parseFailures' \in [Urls -> Nat]
  /\ \A u \in Urls : /\ events[u] \subseteq events'[u]
                     /\ crawlFailures'[u] >= crawlFailures[u]
                     /\ parseFailures'[u] >= parseFailures[u]

LEMMA NothingGrows == OwnTypes /\ Nothing => HistoryGrows
BY DEF OwnTypes, Nothing, HistoryGrows, historyVars

LEMMA BefallsGrows ==
  ASSUME OwnTypes, NEW urls, NEW event \in Events, Befalls(urls, event)
  PROVE  /\ HistoryGrows /\ UNCHANGED <<crawlFailures, parseFailures>>
         /\ \A u \in Urls : u \in urls => event \in events'[u]
<1>1. events' = [u \in Urls |-> IF u \in urls THEN events[u] \union {event} ELSE events[u]]
  BY DEF Befalls, Noting
<1>2. UNCHANGED <<crawlFailures, parseFailures>>
  BY DEF Befalls
<1> QED BY <1>1, <1>2 DEF OwnTypes, HistoryGrows

LEMMA NotingGrows ==
  ASSUME OwnTypes, NEW url \in Urls, NEW counts, NotingFailure(url, counts)
  PROVE  /\ events' \in [Urls -> SUBSET Events]
         /\ \A u \in Urls : events[u] \subseteq events'[u]
         /\ counts = {} => "lost" \in events'[url]
<1>1. CASE counts = {}
  <2>1. events' = [u \in Urls |-> IF u \in {url} THEN events[u] \union {"lost"} ELSE events[u]]
    BY <1>1 DEF NotingFailure, Noting
  <2> QED BY <2>1 DEF OwnTypes, Events
<1>2. CASE counts # {}
  BY <1>2 DEF NotingFailure, OwnTypes
<1> QED BY <1>1, <1>2

LEMMA CrawlFailedGrows ==
  ASSUME OwnTypes, NEW url \in Urls, NEW counts, CrawlFailed(url, counts)
  PROVE  /\ HistoryGrows /\ crawlFailures'[url] = crawlFailures[url] + 1
         /\ counts = {} => "lost" \in events'[url]
BY NotingGrows DEF CrawlFailed, OwnTypes, HistoryGrows

LEMMA ParseFailedGrows ==
  ASSUME OwnTypes, NEW url \in Urls, NEW counts, ParseFailed(url, counts)
  PROVE  /\ HistoryGrows /\ parseFailures'[url] = parseFailures[url] + 1
         /\ counts = {} => "lost" \in events'[url]
BY NotingGrows DEF ParseFailed, OwnTypes, HistoryGrows

LEMMA GivenUpStays ==
  ASSUME OwnTypes, HistoryGrows, failed \subseteq failed', parseFailed \subseteq parseFailed',
         parseCut \subseteq parseCut'
  PROVE  \A u \in Urls : GivenUp(u) => GivenUp(u)'
BY RetryAssumption DEF OwnTypes, HistoryGrows, GivenUp

-----------------------------------------------------------------------------
LEMMA CrawlRunIs ==
  ASSUME FP!IInv, NEW r \in CrawlRuns
  PROVE  /\ crawlRun \in [CrawlRuns -> FP!RunRecord]
         /\ crawlRun[r].live \in BOOLEAN /\ crawlRun[r].retries \in Attempts
         /\ crawlRun[r].page \in Urls \union {None}
         /\ crawlRun[r].live => crawlRun[r].job \in Urls /\ crawlRun[r].at # "idle"
         /\ crawlRun[r].at # "idle" => crawlRun[r].job \in Urls
         /\ crawlRun[r].at \in {"dedup", "store", "enqueue"} => crawlRun[r].page \in Urls
BY SameQueue DEF FP!IInv, FP!TypeOK, FP!RunsSound, FP!RunRecord

LEMMA CrawlTypes ==
  ASSUME FP!IInv
  PROVE  /\ todo \in [Urls -> [Attempts -> Nat]] /\ parsing \in [Urls -> Nat]
         /\ failed \subseteq Urls /\ restarts \in Nat /\ faults \in Nat
BY SameQueue DEF FP!IInv, FP!TypeOK

LEMMA NoCrawlRun ==
  /\ F!NoRun = FP!NoRun /\ F!NoRun \in FP!RunRecord
  /\ F!NoRun.live = FALSE /\ F!NoRun.page = None /\ F!NoRun.job = None /\ F!NoRun.at = "idle"
BY SomeAttempts, SameQueue DEF F!NoRun, FP!NoRun, FP!RunRecord, FP!Stages

(* Where a URL in the hands of the crawler may go from there.              *)
Handed(u) == Brought(u)' \/ parsing'[u] > 0 \/ GivenUp(u)'

CrawlKeeps ==
  \A u \in Urls : CrawlLow(u) \/ Brought(u) => CrawlLow(u)' \/ Handed(u)

(* What a step of a crawl job does to the parse queue.                     *)
QueuesOne ==
  \/ parsing' = parsing
  \/ \E p \in Urls : parsing[p] = 0 /\ parsing' = [parsing EXCEPT ![p] = 1]

CrawlEffect ==
  OwnPage' /\ FailuresNoted' /\ HistoryGrows /\ CrawlKeeps /\ QueuesOne
  /\ failed \subseteq failed'

(* What the copy of a run becomes: the run goes on with it, or it comes    *)
(* back, or with one more failure, or its URL is in other hands.           *)
CopyKept(r, next) ==
  \A u \in Urls, n \in Attempts :
    crawlRun[r].live /\ crawlRun[r].job = u /\ crawlRun[r].retries = n
    => \/ next.live /\ next.job = u /\ next.retries = n
       \/ todo'[u][n] > 0
       \/ n + 1 \in Attempts /\ todo'[u][n + 1] > 0 /\ crawlFailures'[u] > crawlFailures[u]
       \/ n <= crawlFailures[u] => Handed(u)

LEMMA OneCrawlStep ==
  ASSUME FP!IInv, OwnTypes, OwnPage, FailuresNoted,
         NEW r \in CrawlRuns, NEW next,
         crawlRun' = [crawlRun EXCEPT ![r] = next],
         HistoryGrows, failed \subseteq failed', QueuesOne,
         \A u \in Urls, n \in Attempts :
           todo[u][n] > 0
             => todo'[u][n] > 0 \/ (next.live /\ next.job = u /\ next.retries = n),
         CopyKept(r, next),
         crawlRun[r].live /\ crawlRun[r].at \in {"store", "enqueue"}
           => \/ /\ next.live /\ next.job = crawlRun[r].job
                 /\ next.at \in {"store", "enqueue"}
              \/ parsing'[crawlRun[r].job] > 0
              \/ crawlFailures'[crawlRun[r].job] > 0,
         next.page # None => next.page = next.job,
         next.at # "idle" /\ ~next.live => crawlFailures'[next.job] > 0,
         \A u \in crawlCut' : u \in crawlCut \/ crawlFailures'[u] > 0
  PROVE  CrawlEffect
<1>1. crawlRun'[r] = next /\ \A s \in CrawlRuns \ {r} : crawlRun'[s] = crawlRun[s]
  BY CrawlRunIs
<1>2. \A u \in Urls : crawlFailures[u] \in Nat /\ crawlFailures'[u] \in Nat
                      /\ crawlFailures'[u] >= crawlFailures[u]
  BY DEF OwnTypes, HistoryGrows
<1>3. OwnPage'
  BY <1>1 DEF OwnPage
<1>4. FailuresNoted'
  <2>1. ASSUME NEW s \in CrawlRuns, crawlRun'[s].at # "idle", ~crawlRun'[s].live
        PROVE  crawlFailures'[crawlRun'[s].job] > 0
    <3>1. CASE s = r
      BY <1>1, <2>1, <3>1
    <3>2. CASE s # r
      <4>1. crawlRun'[s] = crawlRun[s] /\ crawlRun[s].job \in Urls
        BY <1>1, <2>1, <3>2, CrawlRunIs
      <4>2. crawlFailures[crawlRun[s].job] > 0
        BY <2>1, <4>1 DEF FailuresNoted
      <4> QED BY <1>2, <4>1, <4>2
    <3> QED BY <3>1, <3>2
  <2>2. \A u \in crawlCut : u \in Urls /\ crawlFailures[u] > 0
    BY DEF FailuresNoted, FP!IInv, FP!TypeOK
  <2>3. \A u \in crawlCut' : crawlFailures'[u] > 0
    BY <1>2, <2>2
  <2> QED BY <2>1, <2>3 DEF FailuresNoted
<1>5. ASSUME NEW u \in Urls, CrawlLow(u) PROVE CrawlLow(u)' \/ Handed(u)
  <2>1. PICK n \in Attempts : n <= crawlFailures[u] /\ CrawlHas(u, n)
    BY <1>5 DEF CrawlLow
  <2>2. n \in Nat /\ n <= crawlFailures'[u]
    BY <1>2, <2>1, SomeAttempts
  <2>3. CrawlHas(u, n)' => CrawlLow(u)'
    BY <2>2 DEF CrawlLow
  <2>4. CASE todo[u][n] > 0
    <3>1. todo'[u][n] > 0 \/ (next.live /\ next.job = u /\ next.retries = n)
      BY <2>4
    <3> QED BY <1>1, <2>3, <3>1 DEF CrawlHas
  <2>5. ASSUME NEW s \in CrawlRuns,
               crawlRun[s].live /\ crawlRun[s].job = u /\ crawlRun[s].retries = n
        PROVE  CrawlLow(u)' \/ Handed(u)
    <3>1. CASE s # r
      BY <1>1, <2>3, <2>5, <3>1 DEF CrawlHas
    <3>2. CASE s = r /\ next.live /\ next.job = u /\ next.retries = n
      BY <1>1, <2>3, <3>2 DEF CrawlHas
    <3>3. CASE todo'[u][n] > 0
      BY <2>3, <3>3 DEF CrawlHas
    <3>4. CASE n + 1 \in Attempts /\ todo'[u][n + 1] > 0 /\ crawlFailures'[u] > crawlFailures[u]
      <4>1. n + 1 <= crawlFailures'[u]
        BY <1>2, <2>1, <2>2, <3>4
      <4> QED BY <3>4, <4>1 DEF CrawlLow, CrawlHas
    <3>5. CASE s = r
      <4>1. \/ next.live /\ next.job = u /\ next.retries = n
            \/ todo'[u][n] > 0
            \/ n + 1 \in Attempts /\ todo'[u][n + 1] > 0 /\ crawlFailures'[u] > crawlFailures[u]
            \/ n <= crawlFailures[u] => Handed(u)
        BY <2>5, <3>5 DEF CopyKept
      <4> QED BY <2>1, <3>2, <3>3, <3>4, <3>5, <4>1
    <3> QED BY <3>1, <3>5
  <2> QED BY <2>1, <2>4, <2>5 DEF CrawlHas
<1>6. ASSUME NEW u \in Urls, Brought(u) PROVE Handed(u)
  <2>1. PICK s \in CrawlRuns : /\ crawlRun[s].live /\ crawlRun[s].job = u
                               /\ crawlRun[s].at \in {"store", "enqueue"}
    BY <1>6 DEF Brought
  <2>2. "self" \in events'[u]
    BY <1>6 DEF Brought, HistoryGrows
  <2>3. CASE s # r
    BY <1>1, <2>1, <2>2, <2>3 DEF Handed, Brought
  <2>4. CASE s = r
    <3>1. CASE next.live /\ next.job = u /\ next.at \in {"store", "enqueue"}
      BY <1>1, <2>2, <3>1 DEF Handed, Brought
    <3>2. CASE parsing'[u] > 0
      BY <3>2 DEF Handed
    <3>3. CASE crawlFailures'[u] > 0
      BY <2>2, <3>3 DEF Handed, GivenUp
    <3> QED BY <2>1, <2>4, <3>1, <3>2, <3>3
  <2> QED BY <2>3, <2>4
<1> QED BY <1>3, <1>4, <1>5, <1>6 DEF CrawlEffect, CrawlKeeps

(* A run that goes on with its copy, and with its page or the one it got.  *)
LEMMA RunGoesOn ==
  ASSUME FP!IInv, OwnTypes, OwnPage, FailuresNoted, Nothing,
         NEW r \in CrawlRuns, NEW next,
         crawlRun' = [crawlRun EXCEPT ![r] = next],
         next.job = crawlRun[r].job, next.live = crawlRun[r].live,
         next.retries = crawlRun[r].retries,
         next.page \in {crawlRun[r].page, next.job},
         crawlRun[r].at # "idle",
         crawlRun[r].at \in {"store", "enqueue"} => next.at \in {"store", "enqueue"},
         UNCHANGED <<todo, failed, parsing, crawlCut>>
  PROVE  CrawlEffect
<1>1. HistoryGrows /\ UNCHANGED crawlFailures
  BY NothingGrows DEF Nothing, historyVars
<1>2. next.page # None => next.page = next.job
  BY DEF OwnPage
<1>3. ~next.live => crawlFailures'[next.job] > 0
  BY <1>1 DEF FailuresNoted
<1>4. CopyKept(r, next) /\ QueuesOne
  BY DEF CopyKept, QueuesOne
<1> QED BY <1>1, <1>2, <1>3, <1>4, OneCrawlStep

(* The end of a run, or of its context, takes nothing from the queue.      *)
LEMMA CompletionKeeps ==
  ASSUME FP!IInv, NEW r \in CrawlRuns, NEW counts, F!Complete(r, counts)
  PROVE  /\ failed \subseteq failed'
         /\ \A u \in Urls, n \in Attempts : todo[u][n] > 0 => todo'[u][n] > 0
<1>1. CASE crawlRun[r].live
  <2>1. crawlRun[r].job \in Urls
    BY <1>1, CrawlRunIs
  <2>2. /\ todo' = PutBack(todo, crawlRun[r].job, counts)
        /\ failed' = WithFailed(failed, crawlRun[r].job, counts)
    BY <1>1, SameQueue DEF F!Complete
  <2>3. \A u \in Urls, n \in Attempts : todo'[u][n] >= todo[u][n]
    BY <2>1, <2>2, CrawlTypes, PutBackFacts
  <2>4. todo \in [Urls -> [Attempts -> Nat]] /\ todo' \in [Urls -> [Attempts -> Nat]]
    BY <2>1, <2>2, CrawlTypes, PutBackFacts
  <2>5. \A u \in Urls, n \in Attempts : todo[u][n] \in Nat /\ todo'[u][n] \in Nat
    BY <2>4
  <2>6. failed \subseteq failed'
    BY <2>2 DEF WithFailed
  <2> QED BY <2>3, <2>5, <2>6
<1>2. CASE ~crawlRun[r].live
  BY <1>2 DEF F!Complete
<1> QED BY <1>1, <1>2

(* A run that is over.                                                     *)
LEMMA RunIsOver ==
  ASSUME FP!IInv, OwnTypes, OwnPage, FailuresNoted,
         NEW r \in CrawlRuns, NEW counts, F!End(r, counts),
         HistoryGrows, QueuesOne,
         CopyKept(r, F!NoRun),
         crawlRun[r].live /\ crawlRun[r].at \in {"store", "enqueue"}
           => parsing'[crawlRun[r].job] > 0 \/ crawlFailures'[crawlRun[r].job] > 0,
         \A u \in crawlCut' : u \in crawlCut \/ crawlFailures'[u] > 0
  PROVE  CrawlEffect
<1>1. crawlRun' = [crawlRun EXCEPT ![r] = F!NoRun] /\ F!Complete(r, counts)
  BY DEF F!End
<1>2. failed \subseteq failed' /\ \A u \in Urls, n \in Attempts : todo[u][n] > 0 => todo'[u][n] > 0
  BY <1>1, CompletionKeeps
<1> QED BY <1>1, <1>2, NoCrawlRun, OneCrawlStep

(* The end of a run, or of its context, as a failure: the copy comes back  *)
(* with a RetryCount one higher, or is in the failed list, or was lost.    *)
LEMMA FailureKeepsCopy ==
  ASSUME FP!IInv, OwnTypes, NEW r \in CrawlRuns, crawlRun[r].live,
         NEW counts \in SUBSET {crawlRun[r].retries, crawlRun[r].retries + 1}, F!Complete(r, counts),
         IF crawlRun[r].retries \in counts THEN HistoryGrows
         ELSE CrawlFailed(crawlRun[r].job, counts),
         NEW next
  PROVE  CopyKept(r, next)
<1> SUFFICES ASSUME NEW u \in Urls, NEW n \in Attempts,
                    crawlRun[r].job = u, crawlRun[r].retries = n
             PROVE  \/ todo'[u][n] > 0
                    \/ n + 1 \in Attempts /\ todo'[u][n + 1] > 0
                       /\ crawlFailures'[u] > crawlFailures[u]
                    \/ n <= crawlFailures[u] => Handed(u)
  BY DEF CopyKept
<1>1. n \in Nat
  BY SomeAttempts
<1>2. /\ todo' = PutBack(todo, u, counts)
      /\ failed' = WithFailed(failed, u, counts)
  BY SameQueue DEF F!Complete
<1>3. \A m \in Attempts : m \in counts => todo'[u][m] > 0
  BY <1>1, <1>2, CrawlTypes, PutBackFacts
<1>4. CASE n \in counts
  BY <1>3, <1>4
<1>5. CASE n \notin counts
  <2>1. CrawlFailed(u, counts)
    BY <1>5
  <2>2. /\ HistoryGrows /\ crawlFailures'[u] = crawlFailures[u] + 1
        /\ counts = {} => "lost" \in events'[u]
    BY <1>1, <2>1, CrawlFailedGrows
  <2>3. crawlFailures[u] \in Nat
    BY <1>1 DEF OwnTypes
  <2>4. CASE counts = {}
    <3>1. GivenUp(u)'
      BY <2>2, <2>4 DEF GivenUp
    <3> QED BY <3>1 DEF Handed
  <2>5. CASE n + 1 \in counts /\ n + 1 \in Attempts
    <3>1. todo'[u][n + 1] > 0 /\ crawlFailures'[u] > crawlFailures[u]
      BY <1>3, <2>2, <2>3, <2>5
    <3> QED BY <2>5, <3>1
  <2>6. CASE n + 1 \in counts /\ n + 1 = MAX_RETRIES
    <3>1. u \in failed'
      BY <1>2, <2>6 DEF WithFailed
    <3>2. n <= crawlFailures[u] => crawlFailures'[u] >= MAX_RETRIES
      BY <1>1, <2>2, <2>3, <2>6
    <3>3. n <= crawlFailures[u] => GivenUp(u)'
      BY <3>1, <3>2 DEF GivenUp
    <3> QED BY <3>3 DEF Handed
  <2>7. counts = {} \/ n + 1 \in counts
    BY <1>5
  <2> QED BY <1>1, <2>4, <2>5, <2>6, <2>7, SomeAttempts
<1> QED BY <1>4, <1>5


LEMMA OneMore ==
  ASSUME NEW n \in Attempts, NEW counts \in SUBSET {n + 1}
  PROVE  n \notin counts
<1>1. n \in Nat /\ n # n + 1
  BY SomeAttempts
<1> QED BY <1>1

-----------------------------------------------------------------------------
LEMMA StartEffect ==
  ASSUME FP!IInv, OwnTypes, OwnPage, FailuresNoted, Nothing,
         NEW r \in CrawlRuns, NEW j \in Urls, NEW m \in Attempts, F!Start(r, j, m)
  PROVE  CrawlEffect
<1> DEFINE next == [F!NoRun EXCEPT !.job = j, !.retries = m, !.at = "meta", !.live = TRUE]
<1>1. /\ next.job = j /\ next.live = TRUE /\ next.page = None /\ next.retries = m
      /\ next.at = "meta"
  BY DEF F!NoRun
<1>2. /\ crawlRun' = [crawlRun EXCEPT ![r] = next]
      /\ crawlRun[r].live = FALSE
      /\ todo' = Taken(todo, j, m) /\ todo[j][m] > 0
      /\ UNCHANGED <<failed, parsing, crawlCut>>
  BY NoCrawlRun, SameQueue DEF F!Start, F!storeVars
<1> HIDE DEF next
<1>3. HistoryGrows
  BY NothingGrows
<1>4. \A u \in Urls, n \in Attempts :
        todo[u][n] > 0 => todo'[u][n] > 0 \/ (next.live /\ next.job = u /\ next.retries = n)
  BY <1>1, <1>2, CrawlTypes, TakenFacts
<1>5. CopyKept(r, next) /\ QueuesOne
  BY <1>2 DEF CopyKept, QueuesOne
<1> QED BY <1>1, <1>2, <1>3, <1>4, <1>5, OneCrawlStep

(* A run that goes to its next stage, and a page it may have fetched.      *)
LEMMA StageEffect ==
  ASSUME FP!IInv, OwnTypes, OwnPage, FailuresNoted, Nothing, NEW r \in CrawlRuns,
         \/ F!MetaHit(r) \/ F!MetaMiss(r) \/ F!Reserve(r) \/ F!Fetch(r) \/ F!Store(r)
         \/ F!Robots(r) /\ F!Goto(r, "reserve")
         \/ F!Dedup(r) /\ F!Goto(r, "store")
  PROVE  CrawlEffect
<1> DEFINE Goes(stage) ==
             crawlRun[r].at \in {"store", "enqueue"} => stage \in {"store", "enqueue"}
<1>1. /\ UNCHANGED <<todo, failed, parsing, crawlCut>> /\ crawlRun[r].at # "idle"
      /\ \/ \E stage : Goes(stage) /\ crawlRun' = [crawlRun EXCEPT ![r].at = stage]
         \/ \E stage, robots :
              /\ Goes(stage)
              /\ crawlRun' = [crawlRun EXCEPT ![r].at = stage, ![r].robots = robots]
         \/ /\ Goes("dedup")
            /\ crawlRun' = [crawlRun EXCEPT ![r].at = "dedup", ![r].page = crawlRun[r].job]
  <2> USE DEF F!storeVars, F!queueVars, F!Goto
  <2>1. CASE F!MetaHit(r)
    BY <2>1 DEF F!MetaHit
  <2>2. CASE F!MetaMiss(r)
    BY <2>2 DEF F!MetaMiss
  <2>3. CASE F!Reserve(r)
    BY <2>3 DEF F!Reserve
  <2>4. CASE F!Fetch(r)
    BY <2>4, CrawlRunIs DEF F!Fetch
  <2>5. CASE F!Store(r)
    BY <2>5 DEF F!Store
  <2>6. CASE F!Robots(r) /\ F!Goto(r, "reserve")
    BY <2>6 DEF F!Robots
  <2>7. CASE F!Dedup(r) /\ F!Goto(r, "store")
    BY <2>7 DEF F!Dedup
  <2> QED BY <2>1, <2>2, <2>3, <2>4, <2>5, <2>6, <2>7
<1>2. PICK next : /\ crawlRun' = [crawlRun EXCEPT ![r] = next]
                  /\ next.job = crawlRun[r].job /\ next.live = crawlRun[r].live
                  /\ next.retries = crawlRun[r].retries
                  /\ next.page \in {crawlRun[r].page, crawlRun[r].job}
                  /\ Goes(next.at)
  <2>1. crawlRun[r] \in FP!RunRecord /\ crawlRun \in [CrawlRuns -> FP!RunRecord]
    BY CrawlRunIs
  <2>2. CASE \E stage : Goes(stage) /\ crawlRun' = [crawlRun EXCEPT ![r].at = stage]
    <3>1. PICK stage : Goes(stage) /\ crawlRun' = [crawlRun EXCEPT ![r].at = stage]
      BY <2>2
    <3> DEFINE next == [crawlRun[r] EXCEPT !.at = stage]
    <3>2. /\ next.job = crawlRun[r].job /\ next.live = crawlRun[r].live
          /\ next.page = crawlRun[r].page /\ next.retries = crawlRun[r].retries
          /\ next.at = stage
      BY <2>1 DEF FP!RunRecord
    <3>3. crawlRun' = [crawlRun EXCEPT ![r] = next]
      BY <2>1, <3>1
    <3> HIDE DEF next
    <3> QED BY <3>1, <3>2, <3>3
  <2>3. CASE \E stage, robots :
               /\ Goes(stage)
               /\ crawlRun' = [crawlRun EXCEPT ![r].at = stage, ![r].robots = robots]
    <3>1. PICK stage, robots :
            /\ Goes(stage)
            /\ crawlRun' = [crawlRun EXCEPT ![r].at = stage, ![r].robots = robots]
      BY <2>3
    <3> DEFINE next == [crawlRun[r] EXCEPT !.at = stage, !.robots = robots]
    <3>2. /\ next.job = crawlRun[r].job /\ next.live = crawlRun[r].live
          /\ next.page = crawlRun[r].page /\ next.retries = crawlRun[r].retries
          /\ next.at = stage
      BY <2>1 DEF FP!RunRecord
    <3>3. crawlRun' = [crawlRun EXCEPT ![r] = next]
      BY <2>1, <3>1
    <3> HIDE DEF next
    <3> QED BY <3>1, <3>2, <3>3
  <2>4. CASE /\ Goes("dedup")
             /\ crawlRun' = [crawlRun EXCEPT ![r].at = "dedup", ![r].page = crawlRun[r].job]
    <3> DEFINE next == [crawlRun[r] EXCEPT !.at = "dedup", !.page = crawlRun[r].job]
    <3>1. /\ next.job = crawlRun[r].job /\ next.live = crawlRun[r].live
          /\ next.page = crawlRun[r].job /\ next.retries = crawlRun[r].retries
          /\ next.at = "dedup"
      BY <2>1 DEF FP!RunRecord
    <3>2. crawlRun' = [crawlRun EXCEPT ![r] = next]
      BY <2>1, <2>4
    <3> HIDE DEF next
    <3> QED BY <2>4, <3>1, <3>2
  <2> QED BY <1>1, <2>2, <2>3, <2>4
<1> QED BY <1>1, <1>2, RunGoesOn

LEMMA EnqueueParseEffect ==
  ASSUME FP!IInv, OwnTypes, OwnPage, FailuresNoted, Nothing,
         NEW r \in CrawlRuns, F!EnqueueParse(r)
  PROVE  CrawlEffect
<1> DEFINE page == crawlRun[r].page
<1>1. /\ page \in Urls /\ page = crawlRun[r].job /\ parsing[page] = 0
      /\ parsing' = [parsing EXCEPT ![page] = @ + 1]
      /\ F!End(r, {}) /\ crawlCut' = crawlCut
  BY CrawlRunIs, CrawlAssumed
     DEF F!EnqueueParse, F!Succeed, OwnPage, FP!IInv, FP!IndexSound, FP!Bringing
<1>2. parsing' = [parsing EXCEPT ![page] = 1] /\ parsing'[page] > 0
  BY <1>1, CrawlTypes
<1>3. QueuesOne
  BY <1>1, <1>2 DEF QueuesOne
<1>4. CopyKept(r, F!NoRun)
  BY <1>1, <1>2 DEF CopyKept, Handed
<1> QED BY <1>1, <1>2, <1>3, <1>4, NothingGrows, RunIsOver

(* A run that ends well, with its URL in other hands.                      *)
LEMMA SucceedEffect ==
  ASSUME FP!IInv, OwnTypes, OwnPage, FailuresNoted, HistoryGrows,
         NEW r \in CrawlRuns, F!Succeed(r), crawlRun[r].at \notin {"store", "enqueue"},
         UNCHANGED <<parsing, crawlCut>>,
         \A u \in Urls : crawlRun[r].live /\ crawlRun[r].job = u => Handed(u)
  PROVE  CrawlEffect
<1>1. CopyKept(r, F!NoRun) /\ QueuesOne
  BY DEF CopyKept, QueuesOne
<1> QED BY <1>1, RunIsOver DEF F!Succeed

LEMMA BlockedEffect ==
  ASSUME FP!IInv, OwnTypes, OwnPage, FailuresNoted,
         NEW r \in CrawlRuns, F!Robots(r), F!Succeed(r),
         IF crawlRun[r].live THEN Befalls({crawlRun[r].job}, "blocked") ELSE Nothing
  PROVE  CrawlEffect
<1>1. /\ UNCHANGED <<parsing, crawlCut>> /\ crawlRun[r].at \notin {"store", "enqueue"}
  BY DEF F!Robots, F!storeVars
<1>2. HistoryGrows
  BY NothingGrows, BefallsGrows DEF Events
<1>3. ASSUME NEW u \in Urls, crawlRun[r].live, crawlRun[r].job = u PROVE Handed(u)
  <2>1. "blocked" \in events'[u]
    BY <1>3, BefallsGrows DEF Events
  <2> QED BY <2>1 DEF Handed, GivenUp
<1> QED BY <1>1, <1>2, <1>3, SucceedEffect

(* A page that is dropped for being near itself is on its way with another *)
(* run, has come to the parser, or was cut off on its way.                 *)
LEMMA DuplicateEffect ==
  ASSUME FP!IInv, OwnTypes, OwnPage, FailuresNoted,
         NEW r \in CrawlRuns, F!Dedup(r), F!Succeed(r),
         IF crawlRun[r].live
         THEN Befalls({crawlRun[r].job}, IF crawlRun[r].page \in seen THEN "self" ELSE "duplicate")
         ELSE Nothing
  PROVE  CrawlEffect
<1>1. /\ UNCHANGED <<parsing, crawlCut>> /\ crawlRun[r].at = "dedup"
      /\ crawlRun' = [crawlRun EXCEPT ![r] = F!NoRun]
      /\ crawlRun[r].page \in Urls
  BY CrawlRunIs DEF F!Dedup, F!storeVars, F!Succeed, F!End
<1>2. HistoryGrows
  BY NothingGrows, BefallsGrows DEF Events
<1>3. ASSUME NEW u \in Urls, crawlRun[r].live, crawlRun[r].job = u PROVE Handed(u)
  <2>1. crawlRun[r].page = u
    BY <1>1, <1>3, CrawlAssumed DEF OwnPage
  <2>2. CASE u \notin seen
    <3>1. Befalls({u}, "duplicate")
      BY <1>3, <2>1, <2>2
    <3>2. "duplicate" \in events'[u]
      BY <3>1, BefallsGrows DEF Events
    <3> QED BY <3>2 DEF Handed, GivenUp
  <2>3. CASE u \in seen
    <3>1. Befalls({u}, "self")
      BY <1>3, <2>1, <2>3
    <3>2. "self" \in events'[u] /\ crawlFailures' = crawlFailures
      BY <3>1, BefallsGrows DEF Events
    <3>3. CASE parsing[u] > 0
      BY <1>1, <3>3 DEF Handed
    <3>4. CASE \E s \in CrawlRuns :
                 crawlRun[s].page = u /\ crawlRun[s].at \in {"store", "enqueue"}
      <4>1. PICK s \in CrawlRuns :
              crawlRun[s].page = u /\ crawlRun[s].at \in {"store", "enqueue"}
        BY <3>4
      <4>2. crawlRun'[s] = crawlRun[s] /\ crawlRun[s].job = u
        BY <1>1, <4>1, CrawlRunIs, CrawlAssumed DEF OwnPage
      <4>3. CASE crawlRun[s].live
        BY <3>2, <4>1, <4>2, <4>3 DEF Handed, Brought
      <4>4. CASE ~crawlRun[s].live
        <5>1. crawlFailures'[u] > 0
          BY <3>2, <4>1, <4>2, <4>4 DEF FailuresNoted
        <5> QED BY <3>2, <5>1 DEF Handed, GivenUp
      <4> QED BY <4>3, <4>4
    <3>5. CASE u \in crawlCut
      <4>1. crawlFailures'[u] > 0
        BY <3>2, <3>5 DEF FailuresNoted
      <4> QED BY <3>2, <4>1 DEF Handed, GivenUp
    <3> QED BY <2>3, <3>3, <3>4, <3>5 DEF FP!IInv, FP!AdmittedIsKept, FP!Bringing
  <2> QED BY <2>2, <2>3
<1> QED BY <1>1, <1>2, <1>3, SucceedEffect

LEMMA LimitedEffect ==
  ASSUME FP!IInv, OwnTypes, OwnPage, FailuresNoted,
         NEW r \in CrawlRuns, NEW counts \in F!AfterLimit(r), F!Limited(r, counts),
         IF crawlRun[r].retries \in counts THEN Befalls({crawlRun[r].job}, "limited")
         ELSE CrawlFailed(crawlRun[r].job, counts)
  PROVE  CrawlEffect
<1>1. /\ crawlRun[r].live /\ crawlRun[r].at = "reserve" /\ F!End(r, counts)
      /\ UNCHANGED <<parsing, crawlCut>>
      /\ counts \in SUBSET {crawlRun[r].retries, crawlRun[r].retries + 1}
  BY DEF F!Limited, F!storeVars, F!AfterLimit
<1>2. HistoryGrows
  BY <1>1, CrawlRunIs, BefallsGrows, CrawlFailedGrows DEF Events
<1>3. CopyKept(r, F!NoRun) /\ QueuesOne
  BY <1>1, <1>2, FailureKeepsCopy DEF F!End, QueuesOne
<1> QED BY <1>1, <1>2, <1>3, RunIsOver

LEMMA TimeoutEffect ==
  ASSUME FP!IInv, OwnTypes, OwnPage, FailuresNoted,
         NEW r \in CrawlRuns, NEW counts \in F!AfterFailure(r), F!Timeout(r, counts),
         CrawlFailed(crawlRun[r].job, counts)
  PROVE  CrawlEffect
<1> DEFINE next == [crawlRun[r] EXCEPT !.live = FALSE]
<1>1. /\ next.job = crawlRun[r].job /\ next.page = crawlRun[r].page
  BY CrawlRunIs DEF FP!RunRecord
<1>2. /\ crawlRun' = [crawlRun EXCEPT ![r] = next] /\ crawlRun[r].live
      /\ F!Complete(r, counts) /\ UNCHANGED <<parsing, crawlCut>>
      /\ counts \in SUBSET {crawlRun[r].retries + 1}
  BY DEF F!Timeout, F!AfterTimeout, F!AfterFailure, F!storeVars
<1> HIDE DEF next
<1>3. /\ HistoryGrows
      /\ crawlFailures'[crawlRun[r].job] = crawlFailures[crawlRun[r].job] + 1
      /\ crawlFailures'[crawlRun[r].job] > 0
  BY <1>2, CrawlRunIs, CrawlFailedGrows DEF OwnTypes
<1>4. CopyKept(r, next) /\ QueuesOne
  <2>1. crawlRun[r].retries \notin counts
    BY <1>2, OneMore, CrawlRunIs
  <2> QED BY <1>2, <2>1, FailureKeepsCopy DEF QueuesOne
<1> QED BY <1>1, <1>2, <1>3, <1>4, CompletionKeeps, OneCrawlStep DEF OwnPage

LEMMA CallFailsEffect ==
  ASSUME FP!IInv, OwnTypes, OwnPage, FailuresNoted,
         NEW r \in CrawlRuns, NEW counts \in F!AfterFailure(r), F!CallFails(r, counts),
         IF crawlRun[r].live THEN CrawlFailed(crawlRun[r].job, counts) ELSE Nothing
  PROVE  CrawlEffect
<1> DEFINE page == crawlRun[r].page
           job == crawlRun[r].job
<1>1. /\ F!End(r, counts) /\ counts \in SUBSET {crawlRun[r].retries + 1}
      /\ crawlRun[r].at # "idle" /\ job \in Urls
  BY CrawlRunIs DEF F!CallFails, F!AfterFailure
<1>2. HistoryGrows
  BY <1>1, NothingGrows, CrawlFailedGrows
<1>3. crawlFailures'[job] > 0
  <2>1. CASE crawlRun[r].live
    BY <1>1, <2>1, CrawlFailedGrows DEF OwnTypes
  <2>2. CASE ~crawlRun[r].live
    BY <1>1, <2>2 DEF FailuresNoted, Nothing, historyVars
  <2> QED BY <2>1, <2>2
<1>4. QueuesOne
  <2>1. CASE parsing' = parsing
    BY <2>1 DEF QueuesOne
  <2>2. CASE /\ crawlRun[r].at = "enqueue"
             /\ parsing' = [parsing EXCEPT ![page] = @ + 1]
    <3>1. page \in Urls /\ parsing[page] = 0
      BY <2>2, CrawlRunIs DEF FP!IInv, FP!IndexSound, FP!Bringing
    <3>2. parsing' = [parsing EXCEPT ![page] = 1]
      BY <2>2, <3>1
    <3> QED BY <3>1, <3>2 DEF QueuesOne
  <2> QED BY <2>1, <2>2 DEF F!CallFails
<1>5. \A u \in crawlCut' : u \in crawlCut \/ crawlFailures'[u] > 0
  <2>1. crawlRun[r].at \in {"store", "enqueue"} => page = job
    BY CrawlRunIs, CrawlAssumed DEF OwnPage
  <2> QED BY <1>3, <2>1 DEF F!CallFails
<1>6. CopyKept(r, F!NoRun)
  <2>1. CASE crawlRun[r].live
    <3>1. crawlRun[r].retries \notin counts
      BY <1>1, OneMore, CrawlRunIs
    <3> QED BY <1>1, <2>1, <3>1, FailureKeepsCopy DEF F!End
  <2>2. CASE ~crawlRun[r].live
    BY <2>2 DEF CopyKept
  <2> QED BY <2>1, <2>2
<1> QED BY <1>1, <1>2, <1>3, <1>4, <1>5, <1>6, RunIsOver

LEMMA CrawlStepEffect ==
  ASSUME FP!IInv, OwnTypes, OwnPage, FailuresNoted, NEW r \in CrawlRuns, CrawlStep(r)
  PROVE  CrawlEffect
<1> DEFINE Noted(event) == IF crawlRun[r].live /\ crawlRun'[r] = F!NoRun
                           THEN Befalls({crawlRun[r].job}, event) ELSE Nothing
<1>1. F!Succeed(r) => crawlRun'[r] = F!NoRun
  BY CrawlRunIs DEF F!Succeed, F!End
<1>2. \A stage : F!Goto(r, stage) /\ stage # "idle" => crawlRun'[r] # F!NoRun
  BY CrawlRunIs, NoCrawlRun DEF F!Goto, FP!RunRecord
<1>3. CASE /\ \/ \E u \in Urls, n \in Attempts : F!Start(r, u, n)
              \/ F!MetaHit(r) \/ F!MetaMiss(r) \/ F!Reserve(r) \/ F!Fetch(r) \/ F!Store(r)
              \/ F!EnqueueParse(r)
           /\ Nothing
  BY <1>3, StartEffect, StageEffect, EnqueueParseEffect
<1>4. CASE F!Robots(r) /\ Noted("blocked")
  <2>1. CASE F!Goto(r, "reserve")
    BY <1>2, <1>4, <2>1, StageEffect
  <2>2. CASE F!Succeed(r)
    BY <1>1, <1>4, <2>2, BlockedEffect
  <2> QED BY <1>4, <2>1, <2>2 DEF F!Robots
<1>5. CASE F!Dedup(r) /\ Noted(IF crawlRun[r].page \in seen THEN "self" ELSE "duplicate")
  <2>1. CASE F!Goto(r, "store")
    BY <1>2, <1>5, <2>1, StageEffect
  <2>2. CASE F!Succeed(r)
    BY <1>1, <1>5, <2>2, DuplicateEffect
  <2> QED BY <1>5, <2>1, <2>2 DEF F!Dedup
<1>6. CASE \E counts \in F!AfterLimit(r) :
             /\ F!Limited(r, counts)
             /\ IF crawlRun[r].retries \in counts THEN Befalls({crawlRun[r].job}, "limited")
                ELSE CrawlFailed(crawlRun[r].job, counts)
  BY <1>6, LimitedEffect
<1>7. CASE \E counts \in F!AfterFailure(r) :
             /\ F!Timeout(r, counts) \/ F!CallFails(r, counts)
             /\ IF crawlRun[r].live THEN CrawlFailed(crawlRun[r].job, counts) ELSE Nothing
  BY <1>7, TimeoutEffect, CallFailsEffect DEF F!Timeout
<1> QED BY <1>3, <1>4, <1>5, <1>6, <1>7 DEF CrawlStep

(* A flight moves the runs that wait for it to their next stage.           *)
LEMMA RobotsEffect ==
  ASSUME FP!IInv, OwnTypes, OwnPage, FailuresNoted, NEW d \in Domains, Robots(d)
  PROVE  CrawlEffect
<1>1. crawlRun \in [CrawlRuns -> FP!RunRecord]
  BY DEF FP!IInv, FP!TypeOK
<1>2. /\ UNCHANGED <<todo, failed, parsing, crawlCut>>
      /\ \A r \in CrawlRuns : /\ crawlRun'[r].job = crawlRun[r].job
                              /\ crawlRun'[r].live = crawlRun[r].live
                              /\ crawlRun'[r].page = crawlRun[r].page
                              /\ crawlRun'[r].retries = crawlRun[r].retries
                              /\ \/ crawlRun'[r].at = crawlRun[r].at
                                 \/ crawlRun[r].at = "flight"
  <2> USE DEF F!storeVars, F!queueVars, F!Landing, F!Waiting
  <2>1. CASE \E robots \in {"allows", "blocks"} : F!FlightLands(d, robots)
    <3>1. PICK robots \in {"allows", "blocks"} : F!FlightLands(d, robots)
      BY <2>1
    <3>2. crawlRun' = [r \in CrawlRuns |->
                         IF r \in F!Landing(d)
                         THEN [crawlRun[r] EXCEPT !.at = "robots", !.robots = robots]
                         ELSE crawlRun[r]]
      BY <3>1 DEF F!FlightLands
    <3>3. ASSUME NEW r \in CrawlRuns
          PROVE  LET landed == [crawlRun[r] EXCEPT !.at = "robots", !.robots = robots] IN
                 /\ landed.job = crawlRun[r].job /\ landed.live = crawlRun[r].live
                 /\ landed.page = crawlRun[r].page /\ landed.retries = crawlRun[r].retries
      BY <1>1 DEF FP!RunRecord
    <3> QED BY <3>1, <3>2, <3>3 DEF F!FlightLands
  <2>2. CASE F!FlightFails(d)
    BY <1>1, <2>2 DEF F!FlightFails, FP!RunRecord
  <2>3. CASE F!MetaExpires(d)
    BY <2>3 DEF F!MetaExpires
  <2> QED BY <2>1, <2>2, <2>3 DEF Robots, F!FlightEnds
<1>3. HistoryGrows /\ UNCHANGED <<events, crawlFailures>>
  BY NothingGrows DEF Robots, Nothing, historyVars
<1>4. OwnPage' /\ QueuesOne
  BY <1>2 DEF OwnPage, QueuesOne
<1>5. FailuresNoted'
  BY <1>2, <1>3 DEF FailuresNoted
<1>6. CrawlKeeps
  <2>1. \A u \in Urls : Brought(u) => Brought(u)'
    BY <1>2, <1>3 DEF Brought
  <2>2. \A u \in Urls : CrawlLow(u) => CrawlLow(u)'
    BY <1>2, <1>3 DEF CrawlLow, CrawlHas
  <2> QED BY <2>1, <2>2 DEF CrawlKeeps, Handed
<1> QED BY <1>2, <1>3, <1>4, <1>5, <1>6 DEF CrawlEffect

LEMMA CrawlSlipsEffect ==
  ASSUME FP!IInv, OwnTypes, OwnPage, FailuresNoted,
         NEW j \in Urls, NEW m \in Attempts, CrawlQueueSlips(j, m)
  PROVE  CrawlEffect
<1>1. /\ UNCHANGED <<failed, crawlRun, parsing, crawlCut>>
      /\ HistoryGrows /\ UNCHANGED crawlFailures
      /\ \A u \in Urls, n \in Attempts :
           todo[u][n] > 0 => todo'[u][n] > 0 \/ (u = j /\ GivenUp(u)')
  <2>1. CASE F!PopLost(j, m) /\ Befalls({j}, "lost")
    <3>1. /\ UNCHANGED <<failed, crawlRun, parsing, crawlCut>>
          /\ todo' = Taken(todo, j, m) /\ todo[j][m] > 0
      BY <2>1, SameQueue DEF F!PopLost, F!storeVars
    <3>2. HistoryGrows /\ UNCHANGED crawlFailures /\ "lost" \in events'[j]
      BY <2>1, BefallsGrows DEF Events
    <3>3. \A u \in Urls : u = j => GivenUp(u)'
      BY <3>2 DEF GivenUp
    <3>4. \A u \in Urls : u # j => todo'[u] = todo[u]
      BY <3>1, CrawlTypes, TakenFacts
    <3> QED BY <3>1, <3>2, <3>3, <3>4
  <2>2. CASE F!Doubled(j, m) /\ Nothing
    <3>1. /\ UNCHANGED <<failed, crawlRun, parsing, crawlCut>>
          /\ todo' = PutBack(todo, j, {m})
      BY <2>2, SameQueue DEF F!Doubled, F!storeVars
    <3>2. HistoryGrows /\ UNCHANGED crawlFailures
      BY <2>2, NothingGrows DEF Nothing, historyVars
    <3>3. /\ \A u \in Urls, n \in Attempts : todo'[u][n] >= todo[u][n]
          /\ todo \in [Urls -> [Attempts -> Nat]] /\ todo' \in [Urls -> [Attempts -> Nat]]
      BY <3>1, CrawlTypes, PutBackFacts
    <3>4. \A u \in Urls, n \in Attempts : todo[u][n] \in Nat /\ todo'[u][n] \in Nat
      BY <3>3
    <3>5. \A u \in Urls, n \in Attempts : todo[u][n] > 0 => todo'[u][n] > 0
      BY <3>3, <3>4
    <3> QED BY <3>1, <3>2, <3>5
  <2> QED BY <2>1, <2>2 DEF CrawlQueueSlips
<1>2. OwnPage' /\ FailuresNoted' /\ QueuesOne
  BY <1>1 DEF OwnPage, FailuresNoted, QueuesOne
<1>3. CrawlKeeps
  <2>1. \A u \in Urls : Brought(u) => Brought(u)'
    BY <1>1 DEF Brought, HistoryGrows
  <2>2. ASSUME NEW u \in Urls, CrawlLow(u) PROVE CrawlLow(u)' \/ GivenUp(u)'
    <3>1. PICK n \in Attempts : n <= crawlFailures[u] /\ CrawlHas(u, n)
      BY <2>2 DEF CrawlLow
    <3>2. CrawlHas(u, n)' \/ GivenUp(u)'
      BY <1>1, <3>1 DEF CrawlHas
    <3> QED BY <1>1, <3>1, <3>2 DEF CrawlLow
  <2> QED BY <2>1, <2>2 DEF CrawlKeeps, Handed
<1> QED BY <1>1, <1>2, <1>3 DEF CrawlEffect

-----------------------------------------------------------------------------
LEMMA DiscoveryTypes ==
  ASSUME DP!FInv
  PROVE  /\ published \in [Urls -> Nat] /\ frontier \in [Urls -> Nat]
         /\ parseRun \in [ParseRuns -> DP!RunRecord] /\ parseCut \subseteq Urls
BY DEF DP!FInv, DP!IInv, DP!TypeOK

(* A step of the crawler is one of FetchAndStore.                          *)
LEMMA CrawlSteps ==
  ASSUME CrawlStepping
  PROVE  FP!Next /\ restarts' = restarts
<1>1. ASSUME NEW r \in CrawlRuns, CrawlStep(r)
      PROVE  FP!Next /\ restarts' = restarts
  <2>1. \/ \E u \in Urls, n \in Attempts : FP!Start(r, u, n)
        \/ \E counts \in FP!AfterFailure(r) : FP!Timeout(r, counts)
        \/ FP!Step(r)
    BY <1>1, SameRunSteps, SameCompletion DEF CrawlStep, FP!Step
  <2>2. restarts' = restarts
    BY <2>1 DEF FP!Step, FP!Start, FP!Timeout, FP!MetaHit, FP!MetaMiss, FP!Robots,
       FP!Reserve, FP!Limited, FP!Fetch, FP!Dedup, FP!Store, FP!EnqueueParse, FP!CallFails,
       FP!boundVars
  <2> QED BY <2>1, <2>2, SameQueue DEF FP!Next
<1>2. ASSUME NEW d \in Domains, Robots(d)
      PROVE  FP!Next /\ restarts' = restarts
  <2>1. FP!FlightEnds(d) \/ FP!MetaExpires(d)
    BY <1>2, SameFlights DEF Robots, F!FlightEnds, FP!FlightEnds
  <2>2. restarts' = restarts
    BY <2>1 DEF FP!FlightEnds, FP!FlightLands, FP!FlightFails, FP!MetaExpires, FP!boundVars
  <2> QED BY <2>1, <2>2 DEF FP!Next
<1>3. ASSUME NEW u \in Urls, NEW n \in Attempts, CrawlQueueSlips(u, n)
      PROVE  FP!Next /\ restarts' = restarts
  <2>1. FP!PopLost(u, n) \/ FP!Doubled(u, n)
    BY <1>3, SameSlips DEF CrawlQueueSlips
  <2> QED BY <2>1, SameQueue DEF FP!Next, FP!PopLost, FP!Doubled
<1> QED BY <1>1, <1>2, <1>3 DEF CrawlStepping

(* What the other half of the scraper keeps while one half takes a step.   *)
LEMMA SameParser ==
  ASSUME DP!FInv, UNCHANGED <<urlmeta, frontier, published, parseRun, parses, parseCut, parsed,
                              restarts>>
  PROVE  /\ DP!FInv'
         /\ \A u \in Urls : Enqueuing(u) => Enqueuing(u)'
<1>1. DP!FInv'
  <2>1. UNCHANGED DP!vars
    BY DEF DP!vars
  <2> QED BY <2>1, ParseAssumed, DP!EveryStepFollows DEF DP!EveryStepFollows
<1>2. \A u \in Urls : Enqueuing(u) => Enqueuing(u)'
  BY DEF Enqueuing, D!InHand, D!Target
<1> QED BY <1>1, <1>2

LEMMA WasUndisturbed ==
  ASSUME OwnTypes, HistoryGrows, restarts' = restarts, NEW u \in Urls, Undisturbed(u)'
  PROVE  Undisturbed(u)
<1>1. parseFailures[u] \in Nat /\ parseFailures'[u] >= parseFailures[u] /\ parseFailures'[u] = 0
  BY DEF OwnTypes, HistoryGrows, Undisturbed
<1>2. parseFailures[u] = 0
  BY <1>1
<1>3. "doubled" \notin events[u]
  BY DEF HistoryGrows, Undisturbed
<1> QED BY <1>2, <1>3 DEF Undisturbed

(* A copy of a parse job stays low while nothing takes it.                 *)
LEMMA ParseLowStays ==
  ASSUME HistoryGrows, OwnTypes, UNCHANGED <<parseRun, parseRetries>>, NEW u \in Urls,
         \A n \in Attempts : toParse[u][n] > 0 => toParse'[u][n] > 0,
         ParseLow(u)
  PROVE  ParseLow(u)'
<1>1. PICK n \in Attempts : n <= parseFailures[u] /\ ParseHas(u, n)
  BY DEF ParseLow
<1>2. ParseHas(u, n)'
  BY <1>1 DEF ParseHas
<1>3. n <= parseFailures'[u]
  BY <1>1, SomeAttempts DEF HistoryGrows, OwnTypes
<1> QED BY <1>2, <1>3 DEF ParseLow

(* A step of the crawler.                                                  *)
LEMMA CrawlKeepsSInv ==
  ASSUME SInv, Crawl
  PROVE  SInv'
<1>1. /\ OwnTypes /\ FP!IInv /\ DP!FInv /\ OwnPage /\ FailuresNoted
      /\ UNCHANGED <<toSeed, parseFailed, parseRetries>>
      /\ UNCHANGED <<urlmeta, frontier, published, parseRun, parses, parseCut, parsed>>
      /\ toSeed = {} /\ CrawlStepping
      /\ toParse' = [u \in Urls |-> WithNew(toParse[u], parsing'[u] - parsing[u])]
  BY DEF SInv, Crawl, parseVars
<1>2. CrawlEffect
  BY <1>1, CrawlStepEffect, RobotsEffect, CrawlSlipsEffect DEF CrawlStepping
<1>3. HistoryGrows /\ CrawlKeeps /\ QueuesOne /\ OwnPage' /\ FailuresNoted' /\ failed \subseteq failed'
  BY <1>2 DEF CrawlEffect
<1>4. FP!IInv' /\ restarts' = restarts
  <2>1. FP!Next /\ restarts' = restarts
    BY <1>1, CrawlSteps
  <2> QED BY <1>1, <2>1, CrawlAssumed, FP!NextIInv DEF FP!NextIInv
<1>5. DP!FInv' /\ \A u \in Urls : Enqueuing(u) => Enqueuing(u)'
  BY <1>1, <1>4, SameParser
<1>6. /\ parsing \in [Urls -> Nat] /\ parsing' \in [Urls -> Nat]
      /\ \A u \in Urls : /\ parsing'[u] >= parsing[u]
                         /\ parsing'[u] # parsing[u] => parsing[u] = 0
  <2>1. parsing \in [Urls -> Nat]
    BY <1>1, CrawlTypes
  <2> QED BY <1>3, <2>1 DEF QueuesOne
<1>7. /\ toParse \in [Urls -> [Attempts -> Nat]] /\ toParse' \in [Urls -> [Attempts -> Nat]]
      /\ \A u \in Urls : /\ toParse'[u][0] = toParse[u][0] + (parsing'[u] - parsing[u])
                         /\ \A n \in Attempts : n # 0 => toParse'[u][n] = toParse[u][n]
                         /\ \A n \in Attempts : toParse'[u][n] >= toParse[u][n]
  <2>1. toParse \in [Urls -> [Attempts -> Nat]]
    BY <1>1 DEF OwnTypes
  <2>2. \A u \in Urls : parsing'[u] - parsing[u] \in Nat
    BY <1>6
  <2>3. ASSUME NEW u \in Urls
        PROVE  LET after == WithNew(toParse[u], parsing'[u] - parsing[u]) IN
               /\ after \in [Attempts -> Nat]
               /\ after[0] = toParse[u][0] + (parsing'[u] - parsing[u])
               /\ \A n \in Attempts : n # 0 => after[n] = toParse[u][n]
               /\ \A n \in Attempts : after[n] >= toParse[u][n]
    BY <2>1, <2>2, WithNewFacts
  <2>4. \A u \in Urls : toParse'[u] = WithNew(toParse[u], parsing'[u] - parsing[u])
    BY <1>1
  <2>5. toParse' \in [Urls -> [Attempts -> Nat]]
    BY <1>1, <2>3
  <2> QED BY <2>1, <2>3, <2>4, <2>5
<1>8. \A u \in Urls, n \in Attempts : toParse[u][n] \in Nat /\ toParse'[u][n] \in Nat
  BY <1>7
<1>9. OwnTypes'
  BY <1>1, <1>3, <1>4, <1>7 DEF OwnTypes, HistoryGrows
<1>10. \A u \in Urls : Done(u) => Done(u)'
  BY <1>1, <1>3, GivenUpStays DEF Done
<1>11. \A u \in Urls : ParseLow(u) => ParseLow(u)'
  BY <1>1, <1>3, <1>7, <1>8, ParseLowStays
<1>12. ParsedOn'
  <2>1. ASSUME NEW u \in Urls, parsing'[u] > 0 PROVE ParseLow(u)' \/ Done(u)'
    <3>1. CASE parsing'[u] = parsing[u]
      BY <1>10, <1>11, <2>1, <3>1 DEF SInv, ParsedOn
    <3>2. CASE parsing'[u] # parsing[u]
      <4>1. toParse'[u][0] > 0
        BY <1>6, <1>7, <1>8, <2>1, <3>2, SomeAttempts
      <4>2. 0 \in Attempts /\ 0 <= parseFailures'[u]
        BY <1>3, SomeAttempts DEF HistoryGrows
      <4> QED BY <4>1, <4>2 DEF ParseLow, ParseHas
    <3> QED BY <3>1, <3>2
  <2> QED BY <2>1 DEF ParsedOn
<1>13. Traced'
  <2>1. SUFFICES ASSUME NEW u \in Urls, u \in Seeds \ toSeed \/ urlmeta[u] # None
                 PROVE  CrawlLow(u)' \/ Brought(u)' \/ ParseLow(u)' \/ Enqueuing(u)' \/ Done(u)'
    BY <1>1 DEF Traced
  <2>2. CrawlLow(u) \/ Brought(u) \/ ParseLow(u) \/ Enqueuing(u) \/ Done(u)
    BY <2>1 DEF SInv, Traced
  <2>3. CASE CrawlLow(u) \/ Brought(u)
    <3>1. CrawlLow(u)' \/ Brought(u)' \/ parsing'[u] > 0 \/ GivenUp(u)'
      BY <1>3, <2>3 DEF CrawlKeeps, Handed
    <3> QED BY <1>12, <3>1 DEF ParsedOn, Done
  <2> QED BY <1>5, <1>10, <1>11, <2>2, <2>3
<1>14. PublishedFirst'
  <2>1. ASSUME NEW q \in ParseRuns, parseRun[q].at \in LinkStages
        PROVE  parseRun[q].url \in Urls
    BY <1>1, <2>1 DEF DP!FInv, DP!IInv, DP!RunOK, LinkStages
  <2> QED BY <1>1, <1>3, <2>1 DEF SInv, PublishedFirst, HistoryGrows
<1>15. OneJob'
  <2>1. SUFFICES ASSUME NEW u \in Urls, Undisturbed(u)'
                 PROVE  /\ \A n \in Attempts \ {0} : toParse'[u][n] = 0
                        /\ toParse'[u][0] + published[u] <= parsing'[u]
                        /\ \A q \in ParseRuns :
                             Ahead(q, u) => /\ toParse'[u][0] = 0 /\ published[u] = 0
                                            /\ parsing'[u] > 0
                        /\ \A p, q \in ParseRuns : Ahead(p, u) /\ Ahead(q, u) => p = q
    BY <1>1 DEF OneJob, Ahead
  <2>2. Undisturbed(u)
    BY <1>1, <1>3, <1>4, <2>1, WasUndisturbed
  <2>3. /\ parsing'[u] \in Nat /\ parsing[u] \in Nat /\ published[u] \in Nat
        /\ toParse[u][0] \in Nat /\ toParse'[u][0] \in Nat
    BY <1>1, <1>6, <1>8, DiscoveryTypes, SomeAttempts
  <2>4. /\ \A n \in Attempts \ {0} : toParse[u][n] = 0
        /\ toParse[u][0] + published[u] <= parsing[u]
        /\ \A q \in ParseRuns :
             Ahead(q, u) => toParse[u][0] = 0 /\ published[u] = 0 /\ parsing[u] > 0
        /\ \A p, q \in ParseRuns : Ahead(p, u) /\ Ahead(q, u) => p = q
    BY <2>2 DEF SInv, OneJob
  <2>5. /\ toParse'[u][0] = toParse[u][0] + (parsing'[u] - parsing[u])
        /\ parsing'[u] # parsing[u] => parsing[u] = 0
        /\ \A n \in Attempts \ {0} : toParse'[u][n] = toParse[u][n]
    BY <1>6, <1>7
  <2> QED BY <2>3, <2>4, <2>5
<1> QED BY <1>3, <1>4, <1>5, <1>9, <1>12, <1>13, <1>14, <1>15 DEF SInv

-----------------------------------------------------------------------------
LEMMA ParseRunIs ==
  ASSUME DP!FInv, NEW q \in ParseRuns
  PROVE  /\ parseRun \in [ParseRuns -> DP!RunRecord]
         /\ parseRun[q].live \in BOOLEAN
         /\ parseRun[q].at # "idle" => parseRun[q].url \in Urls
         /\ parseRun[q].live => parseRun[q].url \in Urls
         /\ parseRun[q].at \in LinkStages => D!InHand(q) \in Urls
<1>1. parseRun \in [ParseRuns -> DP!RunRecord] /\ DP!TypeOK /\ DP!RunOK(q)
  BY DEF DP!FInv, DP!IInv, DP!TypeOK
<1>2. parseRun[q].live \in BOOLEAN
  BY <1>1 DEF DP!RunRecord
<1>3. /\ parseRun[q].at # "idle" => parseRun[q].url \in Urls
      /\ parseRun[q].live => parseRun[q].at # "idle"
  BY <1>1 DEF DP!RunOK
<1>4. parseRun[q].at \in LinkStages => D!InHand(q) \in Urls
  <2>1. parseRun[q].at \in DP!LinkStages => DP!InHand(q) \in Urls
    BY <1>1, ParseAssumed, DP!InHandIsUrl DEF DP!InHandIsUrl
  <2>2. D!InHand(q) = DP!InHand(q)
    BY DEF D!InHand, DP!InHand, D!Target, DP!Target
  <2> QED BY <2>1, <2>2 DEF LinkStages, DP!LinkStages
<1> QED BY <1>1, <1>2, <1>3, <1>4

LEMMA NoParseRun ==
  /\ D!NoRun.live = FALSE /\ D!NoRun.url = None /\ D!NoRun.at = "idle" /\ None \notin Urls
BY ParseAssumed DEF D!NoRun

(* What becomes of the URLs the parser has to do with.                     *)
LowKeeps == \A u \in Urls : ParseLow(u) => ParseLow(u)' \/ Done(u)'

EnqueuingKeeps ==
  \A u \in Urls : Enqueuing(u) => Enqueuing(u)' \/ Done(u)' \/ frontier'[u] > frontier[u]

(* A record is new only with a run that is to enqueue its URL.             *)
RecordsAreEnqueued ==
  \A u \in Urls :
    urlmeta'[u] # None => urlmeta[u] # None \/ Enqueuing(u)' \/ u \in parseCut'

QueueKeepsType ==
  /\ toParse' \in [Urls -> [Attempts -> Nat]]
  /\ parseRetries' \in [ParseRuns -> Attempts]
  /\ parseFailed \subseteq parseFailed' /\ parseFailed' \subseteq Urls

ParseEffect ==
  /\ HistoryGrows /\ QueueKeepsType /\ parseCut \subseteq parseCut'
  /\ \A u \in Urls : frontier'[u] >= frontier[u] /\ published'[u] >= published[u]
  /\ PublishedFirst' /\ OneJob'
  /\ LowKeeps /\ EnqueuingKeeps /\ RecordsAreEnqueued

(* What the copy of a parse run becomes.                                   *)
ParseCopyKept(q, next) ==
  \A u \in Urls, n \in Attempts :
    parseRun[q].live /\ parseRun[q].url = u /\ parseRetries[q] = n
    => \/ next.live /\ next.url = u /\ parseRetries'[q] = n
       \/ toParse'[u][n] > 0
       \/ n + 1 \in Attempts /\ toParse'[u][n + 1] > 0 /\ parseFailures'[u] > parseFailures[u]
       \/ n <= parseFailures[u] => Done(u)'

LEMMA ParseHandover ==
  ASSUME DP!FInv, OwnTypes, HistoryGrows, NEW q \in ParseRuns, NEW next,
         parseRun' = [parseRun EXCEPT ![q] = next],
         \A s \in ParseRuns : s # q => parseRetries'[s] = parseRetries[s],
         \A u \in Urls, n \in Attempts :
           toParse[u][n] > 0
             => toParse'[u][n] > 0 \/ (next.live /\ next.url = u /\ parseRetries'[q] = n),
         ParseCopyKept(q, next),
         parseRun[q].at = "enqueue"
           => \/ next.at = "enqueue" /\ next.url = parseRun[q].url
                 /\ next.next = parseRun[q].next
              \/ \A u \in Urls : D!InHand(q) = u => Done(u)' \/ frontier'[u] > frontier[u]
  PROVE  LowKeeps /\ EnqueuingKeeps
<1>1. parseRun'[q] = next /\ \A s \in ParseRuns \ {q} : parseRun'[s] = parseRun[s]
  BY ParseRunIs
<1>2. \A u \in Urls : parseFailures[u] \in Nat /\ parseFailures'[u] \in Nat
                      /\ parseFailures'[u] >= parseFailures[u]
  BY DEF OwnTypes, HistoryGrows
<1>3. ASSUME NEW u \in Urls, ParseLow(u) PROVE ParseLow(u)' \/ Done(u)'
  <2>1. PICK n \in Attempts : n <= parseFailures[u] /\ ParseHas(u, n)
    BY <1>3 DEF ParseLow
  <2>2. n \in Nat /\ n <= parseFailures'[u]
    BY <1>2, <2>1, SomeAttempts
  <2>3. ParseHas(u, n)' => ParseLow(u)'
    BY <2>2 DEF ParseLow
  <2>4. CASE toParse[u][n] > 0
    <3>1. toParse'[u][n] > 0 \/ (next.live /\ next.url = u /\ parseRetries'[q] = n)
      BY <2>4
    <3> QED BY <1>1, <2>3, <3>1 DEF ParseHas
  <2>5. ASSUME NEW s \in ParseRuns,
               parseRun[s].live /\ parseRun[s].url = u /\ parseRetries[s] = n
        PROVE  ParseLow(u)' \/ Done(u)'
    <3>1. CASE s # q
      BY <1>1, <2>3, <2>5, <3>1 DEF ParseHas
    <3>2. CASE s = q /\ next.live /\ next.url = u /\ parseRetries'[q] = n
      BY <1>1, <2>3, <3>2 DEF ParseHas
    <3>3. CASE toParse'[u][n] > 0
      BY <2>3, <3>3 DEF ParseHas
    <3>4. CASE n + 1 \in Attempts /\ toParse'[u][n + 1] > 0 /\ parseFailures'[u] > parseFailures[u]
      <4>1. n + 1 <= parseFailures'[u]
        BY <1>2, <2>1, <2>2, <3>4
      <4> QED BY <3>4, <4>1 DEF ParseLow, ParseHas
    <3>5. CASE s = q
      <4>1. \/ next.live /\ next.url = u /\ parseRetries'[q] = n
            \/ toParse'[u][n] > 0
            \/ n + 1 \in Attempts /\ toParse'[u][n + 1] > 0 /\ parseFailures'[u] > parseFailures[u]
            \/ n <= parseFailures[u] => Done(u)'
        BY <2>5, <3>5 DEF ParseCopyKept
      <4> QED BY <2>1, <3>2, <3>3, <3>4, <3>5, <4>1
    <3> QED BY <3>1, <3>5
  <2> QED BY <2>1, <2>4, <2>5 DEF ParseHas
<1>4. ASSUME NEW u \in Urls, Enqueuing(u)
      PROVE  Enqueuing(u)' \/ Done(u)' \/ frontier'[u] > frontier[u]
  <2>1. PICK s \in ParseRuns : parseRun[s].at = "enqueue" /\ D!InHand(s) = u
    BY <1>4 DEF Enqueuing
  <2>2. \A t \in ParseRuns : /\ parseRun'[t].url = parseRun[t].url
                             /\ parseRun'[t].next = parseRun[t].next
                             => D!InHand(t)' = D!InHand(t)
    BY DEF D!InHand, D!Target
  <2>3. parseRun'[s].at = "enqueue" /\ D!InHand(s)' = u => Enqueuing(u)'
    BY DEF Enqueuing
  <2>4. CASE s = q
    BY <1>1, <2>1, <2>2, <2>3, <2>4
  <2>5. CASE s # q
    BY <1>1, <2>1, <2>2, <2>3, <2>5
  <2> QED BY <2>4, <2>5
<1> QED BY <1>3, <1>4 DEF LowKeeps, EnqueuingKeeps

(* The end of a parse run, or of its context, as a failure.                *)
LEMMA ParseFailureKeepsCopy ==
  ASSUME DP!FInv, OwnTypes, NEW q \in ParseRuns, parseRun[q].live,
         NEW counts \in SUBSET {parseRetries[q] + 1},
         toParse' = PutBack(toParse, parseRun[q].url, counts),
         parseFailed' = WithFailed(parseFailed, parseRun[q].url, counts),
         ParseFailed(parseRun[q].url, counts),
         NEW next
  PROVE  ParseCopyKept(q, next)
<1> SUFFICES ASSUME NEW u \in Urls, NEW n \in Attempts,
                    parseRun[q].url = u, parseRetries[q] = n
             PROVE  \/ toParse'[u][n] > 0
                    \/ n + 1 \in Attempts /\ toParse'[u][n + 1] > 0
                       /\ parseFailures'[u] > parseFailures[u]
                    \/ n <= parseFailures[u] => Done(u)'
  BY DEF ParseCopyKept
<1>1. n \in Nat /\ parseFailures[u] \in Nat
  BY SomeAttempts DEF OwnTypes
<1>2. /\ toParse' = PutBack(toParse, u, counts)
      /\ parseFailed' = WithFailed(parseFailed, u, counts)
      /\ ParseFailed(u, counts)
  OBVIOUS
<1>3. \A m \in Attempts : m \in counts => toParse'[u][m] > 0
  BY <1>2, PutBackFacts DEF OwnTypes
<1>4. /\ parseFailures'[u] = parseFailures[u] + 1
      /\ counts = {} => "lost" \in events'[u]
  BY <1>2, ParseFailedGrows
<1>5. CASE counts = {}
  BY <1>4, <1>5 DEF Done, GivenUp
<1>6. CASE n + 1 \in counts /\ n + 1 \in Attempts
  BY <1>1, <1>3, <1>4, <1>6
<1>7. CASE n + 1 \in counts /\ n + 1 = MAX_RETRIES
  <2>1. u \in parseFailed'
    BY <1>2, <1>7 DEF WithFailed
  <2>2. n <= parseFailures[u] => parseFailures'[u] >= MAX_RETRIES
    BY <1>1, <1>4, <1>7
  <2> QED BY <2>1, <2>2 DEF Done, GivenUp
<1>8. counts = {} \/ n + 1 \in counts
  OBVIOUS
<1> QED BY <1>5, <1>6, <1>7, <1>8, SomeAttempts

(* Steps that leave the published pages alone, and bring no parse job to   *)
(* the queue but of those that something befalls.                          *)
LEMMA OneJobFrame ==
  ASSUME SInv, HistoryGrows, QueueKeepsType,
         UNCHANGED <<published, parsing, restarts>>,
         \A s \in ParseRuns, u \in Urls : Ahead(s, u)' => Ahead(s, u),
         \A u \in Urls : Undisturbed(u)' => \A n \in Attempts : toParse'[u][n] <= toParse[u][n]
  PROVE  OneJob'
<1>1. SUFFICES ASSUME NEW u \in Urls, Undisturbed(u)'
               PROVE  /\ \A n \in Attempts \ {0} : toParse'[u][n] = 0
                      /\ toParse'[u][0] + published[u] <= parsing[u]
                      /\ \A q \in ParseRuns :
                           Ahead(q, u)' => /\ toParse'[u][0] = 0 /\ published[u] = 0
                                           /\ parsing[u] > 0
                      /\ \A p, q \in ParseRuns : Ahead(p, u)' /\ Ahead(q, u)' => p = q
  BY DEF OneJob
<1>2. OwnTypes /\ Undisturbed(u)
  BY <1>1, WasUndisturbed DEF SInv
<1>3. /\ \A n \in Attempts \ {0} : toParse[u][n] = 0
      /\ toParse[u][0] + published[u] <= parsing[u]
      /\ \A q \in ParseRuns :
           Ahead(q, u) => toParse[u][0] = 0 /\ published[u] = 0 /\ parsing[u] > 0
      /\ \A p, q \in ParseRuns : Ahead(p, u) /\ Ahead(q, u) => p = q
  BY <1>2 DEF SInv, OneJob
<1>4. /\ toParse \in [Urls -> [Attempts -> Nat]] /\ toParse' \in [Urls -> [Attempts -> Nat]]
      /\ published[u] \in Nat /\ parsing[u] \in Nat
  BY DiscoveryTypes, CrawlTypes DEF SInv, OwnTypes, QueueKeepsType
<1>5. \A n \in Attempts : toParse[u][n] \in Nat /\ toParse'[u][n] \in Nat
                          /\ toParse'[u][n] <= toParse[u][n]
  BY <1>1, <1>4
<1>6. \A n \in Attempts \ {0} : toParse'[u][n] = 0
  BY <1>3, <1>5
<1>7. toParse'[u][0] + published[u] <= parsing[u] /\ (toParse[u][0] = 0 => toParse'[u][0] = 0)
  BY <1>3, <1>4, <1>5, SomeAttempts
<1> QED BY <1>3, <1>6, <1>7

LEMMA AheadFrame ==
  ASSUME DP!FInv, NEW q \in ParseRuns, NEW next,
         parseRun' = [parseRun EXCEPT ![q] = next],
         next.at \in {"meta", "publish"}
           => parseRun[q].at \in {"meta", "publish"} /\ next.url = parseRun[q].url
  PROVE  \A s \in ParseRuns, u \in Urls : Ahead(s, u)' => Ahead(s, u)
<1>1. parseRun'[q] = next /\ \A s \in ParseRuns \ {q} : parseRun'[s] = parseRun[s]
  BY ParseRunIs
<1> QED BY <1>1 DEF Ahead

LEMMA PublishedFirstFrame ==
  ASSUME SInv, HistoryGrows, NEW q \in ParseRuns, NEW next,
         parseRun' = [parseRun EXCEPT ![q] = next],
         published' = published,
         next.at \in LinkStages
           => parseRun[q].at \in LinkStages /\ next.url = parseRun[q].url
  PROVE  PublishedFirst'
<1>1. parseRun'[q] = next /\ \A s \in ParseRuns \ {q} : parseRun'[s] = parseRun[s]
  BY ParseRunIs DEF SInv
<1>2. \A s \in ParseRuns : parseRun'[s].at \in LinkStages
        => /\ parseRun[s].at \in LinkStages /\ parseRun'[s].url = parseRun[s].url
           /\ parseRun[s].url \in Urls
  BY <1>1, ParseRunIs DEF SInv, LinkStages
<1> QED BY <1>2 DEF SInv, PublishedFirst, HistoryGrows

LEMMA SameParseQueue ==
  ASSUME OwnTypes, UNCHANGED parseQueueVars
  PROVE  /\ QueueKeepsType /\ UNCHANGED <<toParse, parseFailed, parseRetries>>
         /\ \A u \in Urls, n \in Attempts : toParse[u][n] \in Nat /\ toParse'[u][n] <= toParse[u][n]
<1>1. UNCHANGED <<toParse, parseFailed, parseRetries>> /\ QueueKeepsType
  BY DEF OwnTypes, parseQueueVars, QueueKeepsType
<1>2. \A u \in Urls : toParse[u] \in [Attempts -> Nat]
  BY DEF OwnTypes
<1>3. \A u \in Urls, n \in Attempts : toParse[u][n] \in Nat
  BY <1>2
<1> QED BY <1>1, <1>3

(* A parse run takes the one job there is.                                 *)
LEMMA StartParseEffect ==
  ASSUME SInv, NEW q \in ParseRuns, NEW j \in Urls, NEW m \in Attempts,
         StartParse(q, j, m), UNCHANGED <<parsing, restarts>>
  PROVE  ParseEffect
<1> DEFINE next == [D!NoRun EXCEPT !.url = j, !.at = "meta", !.live = TRUE]
<1>1. next.url = j /\ next.live = TRUE /\ next.at = "meta"
  BY DEF D!NoRun
<1>2. /\ parseRun' = [parseRun EXCEPT ![q] = next]
      /\ parseRun[q] = D!NoRun
      /\ UNCHANGED <<urlmeta, frontier, published, parseCut, parseFailed>>
      /\ UNCHANGED historyVars
      /\ toParse[j][m] > 0 /\ toParse' = Taken(toParse, j, m)
      /\ parseRetries' = [parseRetries EXCEPT ![q] = m]
      /\ OwnTypes /\ DP!FInv
  BY DEF StartParse, D!Start, SInv
<1> HIDE DEF next
<1>3. parseRun'[q] = next /\ \A s \in ParseRuns \ {q} : parseRun'[s] = parseRun[s]
  BY <1>2, ParseRunIs
<1>4. /\ toParse \in [Urls -> [Attempts -> Nat]] /\ toParse' \in [Urls -> [Attempts -> Nat]]
      /\ toParse'[j][m] = toParse[j][m] - 1
      /\ \A n \in Attempts : n # m => toParse'[j][n] = toParse[j][n]
      /\ \A u \in Urls : u # j => toParse'[u] = toParse[u]
  BY <1>2, TakenFacts DEF OwnTypes
<1>5. HistoryGrows /\ QueueKeepsType
  BY <1>2, <1>4, NothingGrows DEF OwnTypes, Nothing, QueueKeepsType
<1>6. PublishedFirst'
  BY <1>1, <1>2, <1>5, PublishedFirstFrame DEF LinkStages
<1>7. OneJob'
  <2>1. SUFFICES ASSUME NEW u \in Urls, Undisturbed(u)'
                 PROVE  /\ \A n \in Attempts \ {0} : toParse'[u][n] = 0
                        /\ toParse'[u][0] + published[u] <= parsing[u]
                        /\ \A s \in ParseRuns :
                             Ahead(s, u)' => /\ toParse'[u][0] = 0 /\ published[u] = 0
                                             /\ parsing[u] > 0
                        /\ \A p, s \in ParseRuns : Ahead(p, u)' /\ Ahead(s, u)' => p = s
    BY <1>2 DEF OneJob
  <2>2. Undisturbed(u)
    BY <1>2, <1>5, <2>1, WasUndisturbed
  <2>3. /\ \A n \in Attempts \ {0} : toParse[u][n] = 0
        /\ toParse[u][0] + published[u] <= parsing[u]
        /\ \A s \in ParseRuns :
             Ahead(s, u) => toParse[u][0] = 0 /\ published[u] = 0 /\ parsing[u] > 0
        /\ \A p, s \in ParseRuns : Ahead(p, u) /\ Ahead(s, u) => p = s
    BY <2>2 DEF SInv, OneJob
  <2>4. CASE u = j
    <3>1. m = 0
      BY <1>2, <2>3, <2>4
    <3>2. toParse[u][0] \in Nat /\ published[u] \in Nat /\ parsing[u] \in Nat
          /\ (parsing[u] > 0 => parsing[u] = 1)
      BY <1>2, <1>4, DiscoveryTypes, CrawlTypes, SomeAttempts DEF SInv, FP!IInv, FP!IndexSound
    <3>3. toParse[u][0] = 1 /\ published[u] = 0 /\ parsing[u] = 1 /\ toParse'[u][0] = 0
      <4>1. toParse[u][0] > 0 /\ toParse'[u][0] = toParse[u][0] - 1
        BY <1>2, <1>4, <2>4, <3>1
      <4> QED BY <2>3, <3>2, <4>1
    <3>4. \A s \in ParseRuns : Ahead(s, u)' => s = q
      BY <1>3, <2>3, <3>3 DEF Ahead
    <3>5. \A n \in Attempts \ {0} : toParse'[u][n] = 0
      BY <1>4, <2>3, <2>4, <3>1
    <3> QED BY <3>3, <3>4, <3>5
  <2>5. CASE u # j
    <3>1. \A s \in ParseRuns : Ahead(s, u)' => Ahead(s, u)
      BY <1>1, <1>3, <2>5 DEF Ahead
    <3> QED BY <1>4, <2>3, <2>5, <3>1
  <2> QED BY <2>4, <2>5
<1>8. LowKeeps /\ EnqueuingKeeps
  <2>1. parseRetries'[q] = m /\ \A s \in ParseRuns : s # q => parseRetries'[s] = parseRetries[s]
    BY <1>2 DEF OwnTypes
  <2>2. \A u \in Urls, n \in Attempts :
          toParse[u][n] > 0
            => toParse'[u][n] > 0 \/ (next.live /\ next.url = u /\ parseRetries'[q] = n)
    BY <1>1, <1>4, <2>1
  <2>3. parseRun[q].live = FALSE /\ parseRun[q].at # "enqueue"
    BY <1>2, NoParseRun
  <2>4. ParseCopyKept(q, next)
    BY <2>3 DEF ParseCopyKept
  <2> QED BY <1>2, <1>5, <2>1, <2>2, <2>3, <2>4, ParseHandover
<1>9. \A u \in Urls : frontier'[u] >= frontier[u] /\ published'[u] >= published[u]
  BY <1>2, DiscoveryTypes
<1> QED BY <1>2, <1>5, <1>6, <1>7, <1>8, <1>9 DEF ParseEffect, RecordsAreEnqueued

(* The end of a context, or of a run whose page cannot be read.            *)
LEMMA ParseFailsEffect ==
  ASSUME SInv, NEW q \in ParseRuns, NEW counts \in SUBSET {parseRetries[q] + 1},
         ParseFails(q, counts),
         \/ D!Timeout(q)
         \/ D!ReadPage(q) /\ parseRun'[q] = D!NoRun,
         UNCHANGED <<parsing, restarts>>
  PROVE  ParseEffect
<1> DEFINE url == parseRun[q].url
<1>1. /\ DP!FInv /\ OwnTypes
      /\ toParse \in [Urls -> [Attempts -> Nat]]
      /\ published \in [Urls -> Nat] /\ frontier \in [Urls -> Nat]
      /\ parseRun \in [ParseRuns -> DP!RunRecord]
      /\ parseRetries' = parseRetries
  BY DiscoveryTypes DEF SInv, OwnTypes, ParseFails
<1>2. UNCHANGED <<urlmeta, frontier, published, parseCut>>
  BY DEF D!Timeout, D!ReadPage
<1>3. PICK next : /\ parseRun' = [parseRun EXCEPT ![q] = next]
                  /\ \/ next.at = "idle" /\ parseRun[q].at = "meta"
                     \/ /\ next.at = parseRun[q].at /\ next.url = url
                        /\ next.next = parseRun[q].next
  <2>1. CASE D!Timeout(q)
    <3> DEFINE next == [parseRun[q] EXCEPT !.live = FALSE, !.clean = FALSE]
    <3>1. next.at = parseRun[q].at /\ next.url = url /\ next.next = parseRun[q].next
      BY <1>1 DEF DP!RunRecord
    <3>2. parseRun' = [parseRun EXCEPT ![q] = next]
      BY <2>1 DEF D!Timeout, D!AfterTimeout
    <3> HIDE DEF next
    <3> QED BY <3>1, <3>2
  <2>2. CASE D!ReadPage(q) /\ parseRun'[q] = D!NoRun
    <3>1. parseRun' = [parseRun EXCEPT ![q] = D!NoRun]
      <4>1. CASE parseRun' = [parseRun EXCEPT ![q].at = "publish",
                                              ![q].depth = D!DepthOf(parseRun[q].url)]
        <5>1. parseRun'[q].at = "publish"
          BY <1>1, <4>1 DEF DP!RunRecord
        <5> QED BY <2>2, <5>1, NoParseRun
      <4> QED BY <2>2, <4>1 DEF D!ReadPage
    <3> QED BY <2>2, <3>1, NoParseRun DEF D!ReadPage
  <2> QED BY <2>1, <2>2
<1>4. /\ HistoryGrows /\ QueueKeepsType /\ ParseCopyKept(q, next)
      /\ \A u \in Urls, n \in Attempts : toParse[u][n] > 0 => toParse'[u][n] > 0
      /\ \A u \in Urls : Undisturbed(u)' => \A n \in Attempts : toParse'[u][n] <= toParse[u][n]
  <2>1. CASE parseRun[q].live
    <3>1. /\ url \in Urls
          /\ toParse' = PutBack(toParse, url, counts)
          /\ parseFailed' = WithFailed(parseFailed, url, counts)
          /\ ParseFailed(url, counts)
      BY <1>1, <2>1, ParseRunIs DEF ParseFails
    <3>2. HistoryGrows /\ parseFailures'[url] = parseFailures[url] + 1
      BY <1>1, <3>1, ParseFailedGrows
    <3>3. ParseCopyKept(q, next)
      BY <1>1, <2>1, <3>1, ParseFailureKeepsCopy
    <3>4. /\ toParse' \in [Urls -> [Attempts -> Nat]]
          /\ \A u \in Urls, n \in Attempts : toParse'[u][n] >= toParse[u][n]
          /\ \A u \in Urls : u # url => toParse'[u] = toParse[u]
      BY <1>1, <3>1, PutBackFacts
    <3>5. QueueKeepsType
      <4>1. parseFailed \subseteq parseFailed' /\ parseFailed' \subseteq Urls
        BY <1>1, <3>1 DEF WithFailed, OwnTypes
      <4> QED BY <1>1, <3>4, <4>1 DEF QueueKeepsType, OwnTypes
    <3>6. \A u \in Urls, n \in Attempts : toParse[u][n] \in Nat /\ toParse'[u][n] \in Nat
      BY <1>1, <3>4
    <3>7. \A u \in Urls, n \in Attempts : toParse[u][n] > 0 => toParse'[u][n] > 0
      BY <3>4, <3>6
    <3>8. parseFailures'[url] # 0
      BY <1>1, <3>1, <3>2 DEF OwnTypes
    <3>9. \A u \in Urls : Undisturbed(u)' => u # url
      BY <3>8 DEF Undisturbed
    <3>10. \A u \in Urls : u # url => \A n \in Attempts : toParse'[u][n] <= toParse[u][n]
      BY <3>4, <3>6
    <3> QED BY <3>2, <3>3, <3>5, <3>7, <3>9, <3>10
  <2>2. CASE ~parseRun[q].live
    <3>1. UNCHANGED parseQueueVars /\ Nothing
      BY <1>1, <2>2 DEF ParseFails, parseQueueVars, Nothing
    <3> QED BY <1>1, <2>2, <3>1, NothingGrows, SameParseQueue DEF ParseCopyKept
  <2> QED BY <2>1, <2>2
<1>5. PublishedFirst'
  BY <1>2, <1>3, <1>4, PublishedFirstFrame DEF LinkStages
<1>6. OneJob'
  BY <1>1, <1>2, <1>3, <1>4, AheadFrame, OneJobFrame
<1>7. LowKeeps /\ EnqueuingKeeps
  BY <1>1, <1>3, <1>4, ParseHandover
<1> QED BY <1>1, <1>2, <1>4, <1>5, <1>6, <1>7 DEF ParseEffect, RecordsAreEnqueued

LEMMA ReadPageEffect ==
  ASSUME SInv, NEW q \in ParseRuns, D!ReadPage(q), parseRun'[q] # D!NoRun, Nothing,
         UNCHANGED parseQueueVars, UNCHANGED <<parsing, restarts>>
  PROVE  ParseEffect
<1>1. /\ DP!FInv /\ OwnTypes /\ HistoryGrows /\ QueueKeepsType
      /\ UNCHANGED <<toParse, parseRetries>>
      /\ published \in [Urls -> Nat] /\ frontier \in [Urls -> Nat]
      /\ parseRun \in [ParseRuns -> DP!RunRecord]
      /\ \A u \in Urls, n \in Attempts : toParse'[u][n] <= toParse[u][n]
  BY DiscoveryTypes, NothingGrows, SameParseQueue DEF SInv
<1>2. UNCHANGED <<urlmeta, frontier, published, parseCut>> /\ parseRun[q].at = "meta"
  BY DEF D!ReadPage
<1>3. PICK next : /\ parseRun' = [parseRun EXCEPT ![q] = next]
                  /\ next.at = "publish" /\ next.url = parseRun[q].url
                  /\ next.live = parseRun[q].live
  <2> DEFINE next == [parseRun[q] EXCEPT !.at = "publish",
                                         !.depth = D!DepthOf(parseRun[q].url)]
  <2>1. /\ next.at = "publish" /\ next.url = parseRun[q].url
        /\ next.live = parseRun[q].live
    BY <1>1 DEF DP!RunRecord
  <2>2. parseRun' = [parseRun EXCEPT ![q] = next]
    BY <1>1 DEF D!ReadPage
  <2> HIDE DEF next
  <2> QED BY <2>1, <2>2
<1>4. PublishedFirst'
  BY <1>1, <1>2, <1>3, PublishedFirstFrame DEF LinkStages
<1>5. OneJob'
  BY <1>1, <1>2, <1>3, AheadFrame, OneJobFrame
<1>6. LowKeeps /\ EnqueuingKeeps
  BY <1>1, <1>2, <1>3, ParseHandover DEF ParseCopyKept
<1> QED BY <1>1, <1>2, <1>4, <1>5, <1>6 DEF ParseEffect, RecordsAreEnqueued

(* AddMsg: the run hands its page on, or the page may not be indexed.      *)
LEMMA PublishEffect ==
  ASSUME SInv, NEW q \in ParseRuns, NEW added \in BOOLEAN, D!Publish(q, added),
         IF added THEN Nothing ELSE Befalls({parseRun[q].url}, "unpublished"),
         UNCHANGED parseQueueVars, UNCHANGED <<parsing, restarts>>
  PROVE  ParseEffect
<1> DEFINE url == parseRun[q].url
<1>1. /\ DP!FInv /\ OwnTypes /\ url \in Urls
      /\ QueueKeepsType /\ UNCHANGED <<toParse, parseRetries>>
      /\ toParse \in [Urls -> [Attempts -> Nat]]
      /\ published \in [Urls -> Nat] /\ frontier \in [Urls -> Nat]
      /\ parseRun \in [ParseRuns -> DP!RunRecord]
      /\ parseRun[q].at = "publish"
  BY DiscoveryTypes, ParseRunIs, SameParseQueue DEF SInv, OwnTypes, D!Publish
<1>2. /\ UNCHANGED <<urlmeta, frontier, parseCut>>
      /\ \/ published' = [published EXCEPT ![url] = @ + 1]
         \/ ~added /\ published' = published
  BY DEF D!Publish
<1>3. PICK next : /\ parseRun' = [parseRun EXCEPT ![q] = next]
                  /\ \/ next.at = "idle"
                     \/ next.at = "link" /\ next.url = url
  <2>1. CASE parseRun' = [parseRun EXCEPT ![q] = D!NoRun]
    BY <2>1, NoParseRun
  <2>2. CASE parseRun' = [parseRun EXCEPT ![q].at = "link", ![q].clean = @ /\ added]
    <3> DEFINE next == [parseRun[q] EXCEPT !.at = "link", !.clean = @ /\ added]
    <3>1. next.at = "link" /\ next.url = url
      BY <1>1 DEF DP!RunRecord
    <3>2. parseRun' = [parseRun EXCEPT ![q] = next]
      BY <1>1, <2>2
    <3> HIDE DEF next
    <3> QED BY <3>1, <3>2
  <2> QED BY <2>1, <2>2 DEF D!Publish
<1>4. parseRun'[q] = next /\ \A s \in ParseRuns \ {q} : parseRun'[s] = parseRun[s]
  BY <1>1, <1>3
<1>5. HistoryGrows /\ (~added => "unpublished" \in events'[url])
  BY <1>1, NothingGrows, BefallsGrows DEF Events
<1>6. /\ published' \in [Urls -> Nat]
      /\ \A u \in Urls : published'[u] >= published[u]
      /\ \A u \in Urls \ {url} : published'[u] = published[u]
      /\ published'[url] <= published[url] + 1
      /\ published'[url] > 0 \/ "unpublished" \in events'[url]
  <2>1. CASE published' = [published EXCEPT ![url] = @ + 1]
    BY <1>1, <2>1
  <2>2. CASE ~added /\ published' = published
    BY <1>1, <1>5, <2>2
  <2> QED BY <1>2, <2>1, <2>2
<1>7. PublishedFirst'
  <2>1. SUFFICES ASSUME NEW s \in ParseRuns, parseRun'[s].at \in LinkStages
                 PROVE  \/ published'[parseRun'[s].url] > 0
                        \/ "unpublished" \in events'[parseRun'[s].url]
    BY DEF PublishedFirst
  <2>2. CASE s = q
    BY <1>3, <1>4, <1>6, <2>1, <2>2 DEF LinkStages
  <2>3. CASE s # q
    <3>1. parseRun'[s] = parseRun[s] /\ parseRun[s].url \in Urls
      BY <1>1, <1>4, <2>1, <2>3, ParseRunIs DEF LinkStages
    <3>2. \/ published[parseRun[s].url] > 0
          \/ "unpublished" \in events[parseRun[s].url]
      BY <2>1, <3>1 DEF SInv, PublishedFirst
    <3>3. published[parseRun[s].url] > 0 => published'[parseRun[s].url] > 0
      BY <1>1, <1>6, <3>1
    <3> QED BY <1>5, <3>1, <3>2, <3>3 DEF HistoryGrows
  <2> QED BY <2>2, <2>3
<1>8. OneJob'
  <2>1. SUFFICES ASSUME NEW u \in Urls, Undisturbed(u)'
                 PROVE  /\ \A n \in Attempts \ {0} : toParse[u][n] = 0
                        /\ toParse[u][0] + published'[u] <= parsing[u]
                        /\ \A s \in ParseRuns :
                             Ahead(s, u)' => /\ toParse[u][0] = 0 /\ published'[u] = 0
                                             /\ parsing[u] > 0
                        /\ \A p, s \in ParseRuns : Ahead(p, u)' /\ Ahead(s, u)' => p = s
    BY <1>1 DEF OneJob
  <2>2. Undisturbed(u)
    BY <1>1, <1>5, <2>1, WasUndisturbed
  <2>3. /\ \A n \in Attempts \ {0} : toParse[u][n] = 0
        /\ toParse[u][0] + published[u] <= parsing[u]
        /\ \A s \in ParseRuns :
             Ahead(s, u) => toParse[u][0] = 0 /\ published[u] = 0 /\ parsing[u] > 0
        /\ \A p, s \in ParseRuns : Ahead(p, u) /\ Ahead(s, u) => p = s
    BY <2>2 DEF SInv, OneJob
  <2>4. \A s \in ParseRuns : Ahead(s, u)' => s # q /\ Ahead(s, u)
    BY <1>3, <1>4 DEF Ahead
  <2>5. CASE u = url
    <3>1. Ahead(q, u)
      BY <1>1, <2>5 DEF Ahead
    <3>2. toParse[u][0] = 0 /\ published[u] = 0 /\ parsing[u] > 0 /\ parsing[u] \in Nat
      BY <2>3, <3>1, CrawlTypes DEF SInv
    <3>3. published'[u] \in Nat /\ published'[u] <= 1
      BY <1>6, <2>5, <3>2
    <3>4. toParse[u][0] + published'[u] <= parsing[u]
      BY <3>2, <3>3
    <3> QED BY <2>3, <2>4, <3>1, <3>4
  <2>6. CASE u # url
    BY <1>6, <2>3, <2>4, <2>6
  <2> QED BY <2>5, <2>6
<1>9. LowKeeps /\ EnqueuingKeeps
  <2>1. \A u \in Urls : u = url => Done(u)'
    BY <1>6 DEF Done, GivenUp
  <2>2. ParseCopyKept(q, next)
    BY <2>1 DEF ParseCopyKept
  <2> QED BY <1>1, <1>3, <1>5, <2>2, ParseHandover
<1>10. \A u \in Urls : frontier'[u] >= frontier[u]
  BY <1>1, <1>2
<1> QED BY <1>1, <1>2, <1>5, <1>6, <1>7, <1>8, <1>9, <1>10 DEF ParseEffect, RecordsAreEnqueued

(* A step on a link of the page: no parse job and no message changes, and  *)
(* a URL leaves "enqueue" for the frontier or because a call failed.       *)
LEMMA LinkEffect ==
  ASSUME SInv, HistoryGrows, NEW q \in ParseRuns, NEW next,
         parseRun[q].at \in LinkStages,
         parseRun' = [parseRun EXCEPT ![q] = next],
         \/ next.at = "idle"
         \/ /\ next.at \in LinkStages /\ next.url = parseRun[q].url
            /\ next.live = parseRun[q].live,
         parseRun[q].at = "enqueue"
           => \/ frontier'[D!InHand(q)] > frontier[D!InHand(q)]
              \/ D!InHand(q) \in parseCut',
         UNCHANGED parseQueueVars, UNCHANGED <<published, parsing, restarts>>,
         parseCut \subseteq parseCut',
         \A u \in Urls : frontier'[u] >= frontier[u],
         RecordsAreEnqueued
  PROVE  ParseEffect
<1> DEFINE url == parseRun[q].url
<1>1. /\ DP!FInv /\ OwnTypes /\ url \in Urls
      /\ QueueKeepsType /\ UNCHANGED <<toParse, parseRetries>>
      /\ published \in [Urls -> Nat]
      /\ \A u \in Urls, n \in Attempts : toParse'[u][n] <= toParse[u][n]
  BY DiscoveryTypes, ParseRunIs, SameParseQueue DEF SInv, LinkStages
<1>2. PublishedFirst'
  BY PublishedFirstFrame DEF LinkStages
<1>3. OneJob'
  BY <1>1, AheadFrame, OneJobFrame DEF LinkStages
<1>4. LowKeeps /\ EnqueuingKeeps
  <2>1. \A u \in Urls : u = url => Done(u)'
    <3>1. published[url] > 0 \/ "unpublished" \in events[url]
      BY DEF SInv, PublishedFirst
    <3>2. published'[url] > 0 \/ "unpublished" \in events'[url]
      BY <1>1, <3>1 DEF HistoryGrows
    <3> QED BY <3>2 DEF Done, GivenUp
  <2>2. ParseCopyKept(q, next)
    BY <2>1 DEF ParseCopyKept
  <2>3. parseRun[q].at = "enqueue"
          => \A u \in Urls : D!InHand(q) = u => Done(u)' \/ frontier'[u] > frontier[u]
    BY DEF Done, GivenUp
  <2> QED BY <1>1, <2>2, <2>3, ParseHandover
<1>5. \A u \in Urls : published'[u] >= published[u]
  BY <1>1
<1> QED BY <1>1, <1>2, <1>3, <1>4, <1>5 DEF ParseEffect

LEMMA NextLinkGoes ==
  ASSUME DP!FInv, NEW q \in ParseRuns, NEW clean, D!NextLink(q, clean)
  PROVE  \E next : /\ parseRun' = [parseRun EXCEPT ![q] = next]
                   /\ \/ next.at = "idle"
                      \/ /\ next.at = "link" /\ next.url = parseRun[q].url
                         /\ next.live = parseRun[q].live
<1>1. parseRun \in [ParseRuns -> DP!RunRecord]
  BY ParseRunIs
<1>2. CASE parseRun' = [parseRun EXCEPT ![q] = D!NoRun]
  BY <1>2, NoParseRun
<1>3. CASE parseRun' = [parseRun EXCEPT ![q].at = "link", ![q].next = @ + 1, ![q].old = None,
                                        ![q].clean = @ /\ clean]
  <2> DEFINE next == [parseRun[q] EXCEPT !.at = "link", !.next = @ + 1, !.old = None,
                                         !.clean = @ /\ clean]
  <2>1. /\ next.at = "link" /\ next.url = parseRun[q].url
        /\ next.live = parseRun[q].live
    BY <1>1 DEF DP!RunRecord
  <2>2. parseRun' = [parseRun EXCEPT ![q] = next]
    BY <1>1, <1>3
  <2> HIDE DEF next
  <2> QED BY <2>1, <2>2
<1> QED BY <1>2, <1>3 DEF D!NextLink

LEMMA DiscoverEffect ==
  ASSUME SInv, HistoryGrows, NEW q \in ParseRuns, D!Discover(q),
         UNCHANGED parseQueueVars, UNCHANGED <<parsing, restarts>>
  PROVE  ParseEffect
<1>1. /\ DP!FInv /\ parseRun[q].at = "link" /\ D!InHand(q) \in Urls
      /\ parseRun \in [ParseRuns -> DP!RunRecord]
      /\ urlmeta \in [Urls -> DP!Meta \union {None}] /\ frontier \in [Urls -> Nat]
      /\ UNCHANGED <<frontier, published, parseCut>>
  BY ParseRunIs DEF SInv, D!Discover, LinkStages, DP!FInv, DP!IInv, DP!TypeOK
<1>2. PICK next : /\ parseRun' = [parseRun EXCEPT ![q] = next]
                  /\ next.at \in {"enqueue", "reread"}
                  /\ next.url = parseRun[q].url /\ next.live = parseRun[q].live
                  /\ next.next = parseRun[q].next
                  /\ next.at = "enqueue" \/ urlmeta' = urlmeta
  <2>1. PICK stage \in {"enqueue", "reread"} :
          /\ parseRun' = [parseRun EXCEPT ![q].at = stage]
          /\ stage = "enqueue" \/ urlmeta' = urlmeta
    BY DEF D!Discover, D!Goto
  <2> DEFINE next == [parseRun[q] EXCEPT !.at = stage]
  <2>2. /\ next.at = stage /\ next.url = parseRun[q].url
        /\ next.live = parseRun[q].live /\ next.next = parseRun[q].next
    BY <1>1 DEF DP!RunRecord
  <2>3. parseRun' = [parseRun EXCEPT ![q] = next]
    BY <1>1, <2>1
  <2> HIDE DEF next
  <2> QED BY <2>1, <2>2, <2>3
<1>3. RecordsAreEnqueued
  <2>1. CASE urlmeta' = urlmeta
    BY <2>1 DEF RecordsAreEnqueued
  <2>2. CASE urlmeta' = [urlmeta EXCEPT ![D!InHand(q)] = D!Fresh(parseRun[q].depth)]
             /\ next.at = "enqueue"
    <3>1. D!InHand(q)' = D!InHand(q) /\ parseRun'[q].at = "enqueue"
      BY <1>1, <1>2, <2>2 DEF D!InHand, D!Target
    <3>2. \A u \in Urls : u = D!InHand(q) => Enqueuing(u)'
      BY <3>1 DEF Enqueuing
    <3> QED BY <1>1, <2>2, <3>2 DEF RecordsAreEnqueued
  <2> QED BY <1>2, <2>1, <2>2 DEF D!Discover
<1>4. /\ parseRun[q].at \in LinkStages /\ next.at \in LinkStages
      /\ parseRun[q].at # "enqueue"
      /\ \A u \in Urls : frontier'[u] >= frontier[u]
  BY <1>1, <1>2 DEF LinkStages
<1> QED BY <1>1, <1>2, <1>3, <1>4, LinkEffect

LEMMA DiscoverFailsEffect ==
  ASSUME SInv, HistoryGrows, NEW q \in ParseRuns, D!DiscoverFails(q),
         UNCHANGED parseQueueVars, UNCHANGED <<parsing, restarts>>
  PROVE  ParseEffect
<1>1. /\ DP!FInv /\ parseRun[q].at = "link" /\ D!InHand(q) \in Urls
      /\ urlmeta \in [Urls -> DP!Meta \union {None}] /\ frontier \in [Urls -> Nat]
      /\ UNCHANGED <<frontier, published>>
  BY ParseRunIs DEF SInv, D!DiscoverFails, LinkStages, DP!FInv, DP!IInv, DP!TypeOK
<1>2. RecordsAreEnqueued /\ parseCut \subseteq parseCut'
  BY <1>1 DEF D!DiscoverFails, RecordsAreEnqueued
<1>3. PICK next : /\ parseRun' = [parseRun EXCEPT ![q] = next]
                  /\ \/ next.at = "idle"
                     \/ /\ next.at = "link" /\ next.url = parseRun[q].url
                        /\ next.live = parseRun[q].live
  BY <1>1, NextLinkGoes DEF D!DiscoverFails
<1>4. /\ parseRun[q].at \in LinkStages /\ "link" \in LinkStages
      /\ parseRun[q].at # "enqueue"
      /\ \A u \in Urls : frontier'[u] >= frontier[u]
  BY <1>1 DEF LinkStages
<1> QED BY <1>1, <1>2, <1>3, <1>4, LinkEffect

LEMMA EnqueueEffect ==
  ASSUME SInv, HistoryGrows, NEW q \in ParseRuns, D!Enqueue(q),
         UNCHANGED parseQueueVars, UNCHANGED <<parsing, restarts>>
  PROVE  ParseEffect
<1>1. /\ DP!FInv /\ parseRun[q].at = "enqueue" /\ D!InHand(q) \in Urls
      /\ frontier \in [Urls -> Nat]
      /\ UNCHANGED <<urlmeta, published>>
  BY ParseRunIs, DiscoveryTypes DEF SInv, D!Enqueue, LinkStages
<1>2. /\ parseCut \subseteq parseCut'
      /\ \A u \in Urls : frontier'[u] >= frontier[u]
      /\ frontier'[D!InHand(q)] > frontier[D!InHand(q)] \/ D!InHand(q) \in parseCut'
  <2>1. CASE frontier' = [frontier EXCEPT ![D!InHand(q)] = @ + 1]
    <3> DEFINE url == D!InHand(q)
    <3>1. frontier' = [frontier EXCEPT ![url] = @ + 1] /\ url \in Urls
      BY <1>1, <2>1
    <3> HIDE DEF url
    <3>2. frontier'[url] > frontier[url] /\ \A u \in Urls : frontier'[u] >= frontier[u]
      BY <1>1, <3>1
    <3>3. parseCut \subseteq parseCut'
      BY DEF D!Enqueue
    <3> QED BY <3>2, <3>3 DEF url
  <2>2. CASE frontier' = frontier /\ parseCut' = parseCut \union {D!InHand(q)}
    BY <1>1, <2>2
  <2> QED BY <2>1, <2>2 DEF D!Enqueue
<1>3. PICK next : /\ parseRun' = [parseRun EXCEPT ![q] = next]
                  /\ \/ next.at = "idle"
                     \/ /\ next.at = "link" /\ next.url = parseRun[q].url
                        /\ next.live = parseRun[q].live
  BY <1>1, NextLinkGoes DEF D!Enqueue
<1>4. /\ parseRun[q].at \in LinkStages /\ "link" \in LinkStages
      /\ RecordsAreEnqueued
  BY <1>1 DEF LinkStages, RecordsAreEnqueued
<1> QED BY <1>1, <1>2, <1>3, <1>4, LinkEffect

LEMMA RereadEffect ==
  ASSUME SInv, HistoryGrows, NEW q \in ParseRuns, D!Reread(q),
         UNCHANGED parseQueueVars, UNCHANGED <<parsing, restarts>>
  PROVE  ParseEffect
<1>1. /\ DP!FInv /\ parseRun[q].at = "reread"
      /\ parseRun \in [ParseRuns -> DP!RunRecord]
      /\ frontier \in [Urls -> Nat]
      /\ UNCHANGED <<urlmeta, frontier, published, parseCut>>
  BY ParseRunIs, DiscoveryTypes DEF SInv, D!Reread
<1>2. PICK next : /\ parseRun' = [parseRun EXCEPT ![q] = next]
                  /\ \/ next.at = "idle"
                     \/ /\ next.at \in {"link", "rewrite"} /\ next.url = parseRun[q].url
                        /\ next.live = parseRun[q].live
  <2>1. CASE D!NextLink(q, FALSE)
    BY <1>1, <2>1, NextLinkGoes
  <2>2. CASE parseRun' = [parseRun EXCEPT ![q].at = "rewrite", ![q].old = urlmeta[D!InHand(q)]]
    <3> DEFINE next == [parseRun[q] EXCEPT !.at = "rewrite", !.old = urlmeta[D!InHand(q)]]
    <3>1. /\ next.at = "rewrite" /\ next.url = parseRun[q].url
          /\ next.live = parseRun[q].live
      BY <1>1 DEF DP!RunRecord
    <3>2. parseRun' = [parseRun EXCEPT ![q] = next]
      BY <1>1, <2>2
    <3> HIDE DEF next
    <3> QED BY <3>1, <3>2
  <2> QED BY <2>1, <2>2 DEF D!Reread
<1>3. /\ parseRun[q].at \in LinkStages /\ {"link", "rewrite"} \subseteq LinkStages
      /\ parseRun[q].at # "enqueue"
      /\ \A u \in Urls : frontier'[u] >= frontier[u]
      /\ RecordsAreEnqueued
  BY <1>1 DEF LinkStages, RecordsAreEnqueued
<1> QED BY <1>1, <1>2, <1>3, LinkEffect

LEMMA RewriteEffect ==
  ASSUME SInv, HistoryGrows, NEW q \in ParseRuns, D!Rewrite(q),
         UNCHANGED parseQueueVars, UNCHANGED <<parsing, restarts>>
  PROVE  ParseEffect
<1>1. /\ DP!FInv /\ parseRun[q].at = "rewrite" /\ D!InHand(q) \in Urls
      /\ urlmeta \in [Urls -> DP!Meta \union {None}] /\ frontier \in [Urls -> Nat]
      /\ UNCHANGED <<frontier, published, parseCut>>
      /\ urlmeta[D!InHand(q)] # None
  <2>1. DP!RunOK(q) /\ DP!FInv
    BY DEF SInv, DP!FInv, DP!IInv
  <2>2. DP!InHand(q) = D!InHand(q)
    BY DEF D!InHand, DP!InHand, D!Target, DP!Target
  <2> QED BY <2>1, <2>2, ParseRunIs
          DEF D!Rewrite, LinkStages, DP!FInv, DP!IInv, DP!TypeOK, DP!RunOK
<1>2. RecordsAreEnqueued
  BY <1>1 DEF D!Rewrite, RecordsAreEnqueued
<1>3. PICK next : /\ parseRun' = [parseRun EXCEPT ![q] = next]
                  /\ \/ next.at = "idle"
                     \/ /\ next.at = "link" /\ next.url = parseRun[q].url
                        /\ next.live = parseRun[q].live
  BY <1>1, NextLinkGoes DEF D!Rewrite
<1>4. /\ parseRun[q].at \in LinkStages /\ "link" \in LinkStages
      /\ parseRun[q].at # "enqueue"
      /\ \A u \in Urls : frontier'[u] >= frontier[u]
  BY <1>1 DEF LinkStages
<1> QED BY <1>1, <1>2, <1>3, <1>4, LinkEffect


(* A copy of a parse job is lost or doubled in the queue.                  *)
LEMMA ParseSlipsEffect ==
  ASSUME SInv, NEW j \in Urls, NEW m \in Attempts, ParseQueueSlips(j, m), UNCHANGED parsing
  PROVE  ParseEffect
<1>1. /\ DP!FInv /\ OwnTypes
      /\ toParse \in [Urls -> [Attempts -> Nat]]
      /\ published \in [Urls -> Nat] /\ frontier \in [Urls -> Nat]
      /\ UNCHANGED <<parseFailed, parseRetries, restarts>>
      /\ UNCHANGED <<urlmeta, frontier, published, parseRun, parseCut>>
  BY DiscoveryTypes DEF SInv, OwnTypes, ParseQueueSlips, parseVars
<1>2. /\ HistoryGrows /\ toParse' \in [Urls -> [Attempts -> Nat]]
      /\ \A u \in Urls, n \in Attempts : toParse[u][n] > 0 => toParse'[u][n] > 0 \/ Done(u)'
      /\ \A u \in Urls : Undisturbed(u)' => \A n \in Attempts : toParse'[u][n] <= toParse[u][n]
  <2>1. CASE /\ toParse[j][m] > 0 /\ toParse' = Taken(toParse, j, m)
             /\ Befalls({j}, "lost")
    <3>1. HistoryGrows /\ "lost" \in events'[j]
      BY <1>1, <2>1, BefallsGrows DEF Events
    <3>2. /\ toParse' \in [Urls -> [Attempts -> Nat]]
          /\ toParse'[j][m] = toParse[j][m] - 1
          /\ \A n \in Attempts : n # m => toParse'[j][n] = toParse[j][n]
          /\ \A u \in Urls : u # j => toParse'[u] = toParse[u]
      BY <1>1, <2>1, TakenFacts
    <3>3. Done(j)'
      BY <3>1 DEF Done, GivenUp
    <3>4. \A u \in Urls, n \in Attempts : toParse[u][n] \in Nat
      BY <1>1
    <3>5. \A u \in Urls, n \in Attempts : toParse'[u][n] <= toParse[u][n]
      BY <3>2, <3>4
    <3> QED BY <3>1, <3>2, <3>3, <3>5
  <2>2. CASE toParse' = PutBack(toParse, j, {m}) /\ Befalls({j}, "doubled")
    <3>1. HistoryGrows /\ "doubled" \in events'[j]
      BY <1>1, <2>2, BefallsGrows DEF Events
    <3>2. /\ toParse' \in [Urls -> [Attempts -> Nat]]
          /\ \A u \in Urls, n \in Attempts : toParse'[u][n] >= toParse[u][n]
          /\ \A u \in Urls : u # j => toParse'[u] = toParse[u]
      BY <1>1, <2>2, PutBackFacts
    <3>3. \A u \in Urls, n \in Attempts : toParse[u][n] \in Nat /\ toParse'[u][n] \in Nat
      BY <1>1, <3>2
    <3>4. \A u \in Urls : Undisturbed(u)' => u # j
      BY <3>1 DEF Undisturbed
    <3> QED BY <3>1, <3>2, <3>3, <3>4
  <2> QED BY <2>1, <2>2 DEF ParseQueueSlips
<1>3. QueueKeepsType
  BY <1>1, <1>2 DEF QueueKeepsType, OwnTypes
<1>4. PublishedFirst'
  BY <1>1, <1>2, ParseRunIs DEF SInv, PublishedFirst, HistoryGrows, LinkStages
<1>5. OneJob'
  <2>1. \A s \in ParseRuns, u \in Urls : Ahead(s, u)' => Ahead(s, u)
    BY <1>1 DEF Ahead
  <2> QED BY <1>1, <1>2, <1>3, <2>1, OneJobFrame
<1>6. LowKeeps
  <2>1. SUFFICES ASSUME NEW u \in Urls, ParseLow(u) PROVE ParseLow(u)' \/ Done(u)'
    BY DEF LowKeeps
  <2>2. PICK n \in Attempts : n <= parseFailures[u] /\ ParseHas(u, n)
    BY <2>1 DEF ParseLow
  <2>3. n <= parseFailures'[u]
    BY <1>1, <1>2, <2>2, SomeAttempts DEF OwnTypes, HistoryGrows
  <2>4. ParseHas(u, n)' \/ Done(u)'
    BY <1>1, <1>2, <2>2 DEF ParseHas
  <2> QED BY <2>3, <2>4 DEF ParseLow
<1>7. EnqueuingKeeps
  BY <1>1 DEF EnqueuingKeeps, Enqueuing, D!InHand, D!Target
<1>8. RecordsAreEnqueued /\ \A u \in Urls : frontier'[u] >= frontier[u] /\ published'[u] >= published[u]
  BY <1>1 DEF RecordsAreEnqueued
<1> QED BY <1>1, <1>2, <1>3, <1>4, <1>5, <1>6, <1>7, <1>8 DEF ParseEffect

(* A step of a parse job.                                                  *)
LEMMA ParseStepEffect ==
  ASSUME SInv, NEW q \in ParseRuns, ParseStep(q), UNCHANGED parsing
  PROVE  ParseEffect /\ DP!Next /\ restarts' = restarts /\ (faults' = faults \/ F!Fault)
<1>1. /\ DP!Next
      /\ restarts' = restarts
  <2>1. \/ \E u \in Urls : D!Start(q, u)
        \/ D!Timeout(q) \/ D!ReadPage(q)
        \/ \E added \in BOOLEAN : D!Publish(q, added)
        \/ D!Discover(q) \/ D!DiscoverFails(q) \/ D!Enqueue(q) \/ D!Reread(q) \/ D!Rewrite(q)
    BY DEF ParseStep, StartParse
  <2>2. DP!Next
    BY <2>1, SameParseSteps DEF DP!Next
  <2>3. restarts' = restarts
    BY <2>1 DEF D!Start, D!Timeout, D!ReadPage, D!Publish, D!Discover, D!DiscoverFails,
       D!Enqueue, D!Reread, D!Rewrite, D!boundVars
  <2> QED BY <2>2, <2>3
<1>u. UNCHANGED <<parsing, restarts>>
  BY <1>1
<1>2. faults' = faults \/ F!Fault
  BY DEF ParseStep, StartParse, ParseFails, Unlinked
<1>3. CASE \E u \in Urls, n \in Attempts : StartParse(q, u, n)
  BY <1>1, <1>u, <1>2, <1>3, StartParseEffect
<1>4. CASE \E counts \in SUBSET {parseRetries[q] + 1} :
             /\ \/ D!Timeout(q)
                \/ D!ReadPage(q) /\ parseRun'[q] = D!NoRun
             /\ ParseFails(q, counts)
  BY <1>1, <1>u, <1>2, <1>4, ParseFailsEffect
<1>5. CASE /\ \/ D!ReadPage(q) /\ parseRun'[q] # D!NoRun
              \/ D!Publish(q, TRUE) \/ D!Discover(q) \/ D!Rewrite(q)
              \/ D!Enqueue(q) \/ D!Reread(q)
           /\ Nothing
           /\ UNCHANGED parseQueueVars
  <2>1. HistoryGrows
    BY <1>5, NothingGrows DEF SInv
  <2>2. CASE D!Publish(q, TRUE)
    BY <1>1, <1>u, <1>2, <1>5, <2>2, PublishEffect
  <2> QED BY <1>1, <1>u, <1>2, <1>5, <2>1, <2>2, ReadPageEffect, DiscoverEffect, RewriteEffect,
          EnqueueEffect, RereadEffect
<1>6. CASE D!Publish(q, FALSE) /\ Befalls({parseRun[q].url}, "unpublished")
           /\ UNCHANGED parseQueueVars
  BY <1>1, <1>u, <1>2, <1>6, PublishEffect
<1>7. CASE /\ D!DiscoverFails(q) \/ D!Enqueue(q) \/ D!Reread(q)
           /\ Unlinked(q) /\ UNCHANGED parseQueueVars
  <2>1. HistoryGrows
    <3>1. OwnTypes /\ "unlinked" \in Events
      BY DEF SInv, Events
    <3> QED BY <1>7, <3>1, NothingGrows, BefallsGrows DEF Unlinked
  <2> QED BY <1>1, <1>u, <1>2, <1>7, <2>1, DiscoverFailsEffect, EnqueueEffect, RereadEffect
<1> QED BY <1>1, <1>2, <1>3, <1>4, <1>5, <1>6, <1>7 DEF ParseStep

LEMMA ParsingEffect ==
  ASSUME SInv, Parse
  PROVE  /\ ParseEffect /\ restarts' = restarts /\ (faults' = faults \/ F!Fault)
         /\ DP!Next \/ UNCHANGED DP!vars
<1>1. UNCHANGED parsing
  BY DEF Parse, crawlVars
<1>2. CASE \E q \in ParseRuns : ParseStep(q)
  BY <1>1, <1>2, ParseStepEffect
<1>3. CASE \E u \in Urls, n \in Attempts : ParseQueueSlips(u, n)
  <2>1. ParseEffect
    BY <1>1, <1>3, ParseSlipsEffect
  <2>2. F!Fault /\ restarts' = restarts /\ UNCHANGED parseVars
    BY <1>3 DEF ParseQueueSlips
  <2>3. UNCHANGED DP!vars
    BY <2>2 DEF parseVars, DP!vars
  <2> QED BY <2>1, <2>2, <2>3
<1> QED BY <1>2, <1>3 DEF Parse

(* What leaves the crawl job alone, but for the copies that wait.          *)
LEMMA FetchFrame ==
  ASSUME FP!IInv, todo' \in [Urls -> [Attempts -> Nat]], restarts' = restarts,
         faults' = faults \/ F!Fault, UNCHANGED crawlVars
  PROVE  FP!IInv'
<1>1. /\ UNCHANGED <<failed, crawlRun, meta, flight, seen, objects, parsing, started>>
      /\ UNCHANGED <<crawlCut, dropped>>
  BY DEF crawlVars
<1>2. faults' \in Nat
  BY DEF F!Fault, FP!IInv, FP!TypeOK
<1>3. FP!TypeOK'
  BY <1>1, <1>2, SameQueue DEF FP!IInv, FP!TypeOK
<1>4. FP!RunsSound' /\ FP!FlightSound'
  BY <1>1 DEF FP!IInv, FP!RunsSound, FP!FlightSound, FP!Waiting, FP!Domain
<1>5. FP!IndexSound' /\ FP!AdmittedIsKept'
  BY <1>1 DEF FP!IInv, FP!IndexSound, FP!AdmittedIsKept, FP!Bringing
<1> QED BY <1>3, <1>4, <1>5 DEF FP!IInv

(* The crawl jobs while copies are only added to their queue.              *)
LEMMA CrawlFrame ==
  ASSUME OwnTypes, HistoryGrows, UNCHANGED crawlVars,
         \A u \in Urls, n \in Attempts : todo[u][n] > 0 => todo'[u][n] > 0
  PROVE  /\ \A u \in Urls : CrawlLow(u) => CrawlLow(u)'
         /\ \A u \in Urls : Brought(u) => Brought(u)'
<1>1. ASSUME NEW u \in Urls, CrawlLow(u) PROVE CrawlLow(u)'
  <2>1. PICK n \in Attempts : n <= crawlFailures[u] /\ CrawlHas(u, n)
    BY <1>1 DEF CrawlLow
  <2>2. CrawlHas(u, n)'
    BY <2>1 DEF CrawlHas, crawlVars
  <2>3. n <= crawlFailures'[u]
    BY <2>1, SomeAttempts DEF HistoryGrows, OwnTypes
  <2> QED BY <2>2, <2>3 DEF CrawlLow
<1>2. ASSUME NEW u \in Urls, Brought(u) PROVE Brought(u)'
  BY <1>2 DEF Brought, HistoryGrows, crawlVars
<1> QED BY <1>1, <1>2

LEMMA RunsFrame ==
  ASSUME FP!IInv, OwnTypes, OwnPage, FailuresNoted, HistoryGrows, UNCHANGED crawlVars
  PROVE  OwnPage' /\ FailuresNoted'
<1>1. OwnPage'
  BY DEF OwnPage, crawlVars
<1>2. \A r \in CrawlRuns : crawlRun[r].at # "idle" => crawlRun[r].job \in Urls
  BY CrawlRunIs
<1>3. crawlCut \subseteq Urls
  BY DEF FP!IInv, FP!TypeOK
<1>4. \A u \in Urls : crawlFailures[u] > 0 => crawlFailures'[u] > 0
  BY DEF HistoryGrows, OwnTypes
<1>5. UNCHANGED <<crawlRun, crawlCut>>
  BY DEF crawlVars
<1>6. FailuresNoted'
  BY <1>2, <1>3, <1>4, <1>5 DEF FailuresNoted
<1> QED BY <1>1, <1>6

(* A step of the parser.                                                   *)
LEMMA ParseKeepsSInv ==
  ASSUME SInv, Parse
  PROVE  SInv'
<1>1. /\ OwnTypes /\ FP!IInv /\ DP!FInv /\ OwnPage /\ FailuresNoted
      /\ UNCHANGED crawlVars /\ UNCHANGED <<failed, parsing>>
      /\ todo' = [u \in Urls |-> WithNew(todo[u], frontier'[u] - frontier[u])]
      /\ toSeed = {} /\ toSeed' = toSeed
  BY DEF SInv, Parse, crawlVars
<1>2. /\ ParseEffect /\ restarts' = restarts /\ (faults' = faults \/ F!Fault)
      /\ DP!Next \/ UNCHANGED DP!vars
  BY ParsingEffect
<1>3. HistoryGrows /\ QueueKeepsType /\ parseCut \subseteq parseCut'
  BY <1>2 DEF ParseEffect
<1>4. DP!FInv'
  BY <1>1, <1>2, ParseAssumed, DP!EveryStepFollows DEF DP!EveryStepFollows
<1>5. /\ frontier \in [Urls -> Nat] /\ frontier' \in [Urls -> Nat]
      /\ published \in [Urls -> Nat] /\ published' \in [Urls -> Nat]
      /\ \A u \in Urls : frontier'[u] >= frontier[u] /\ published'[u] >= published[u]
  BY <1>1, <1>2, <1>4, DiscoveryTypes DEF DP!FInv, DP!IInv, DP!TypeOK, ParseEffect
<1>6. /\ todo \in [Urls -> [Attempts -> Nat]] /\ todo' \in [Urls -> [Attempts -> Nat]]
      /\ \A u \in Urls : /\ todo'[u][0] = todo[u][0] + (frontier'[u] - frontier[u])
                         /\ \A n \in Attempts : todo'[u][n] >= todo[u][n]
  <2>1. todo \in [Urls -> [Attempts -> Nat]]
    BY <1>1, CrawlTypes
  <2>2. \A u \in Urls : frontier'[u] - frontier[u] \in Nat
    BY <1>5
  <2>3. ASSUME NEW u \in Urls
        PROVE  LET after == WithNew(todo[u], frontier'[u] - frontier[u]) IN
               /\ after \in [Attempts -> Nat]
               /\ after[0] = todo[u][0] + (frontier'[u] - frontier[u])
               /\ \A n \in Attempts : after[n] >= todo[u][n]
    BY <2>1, <2>2, WithNewFacts
  <2>4. \A u \in Urls : todo'[u] = WithNew(todo[u], frontier'[u] - frontier[u])
    BY <1>1
  <2>5. todo' \in [Urls -> [Attempts -> Nat]]
    BY <1>1, <2>3
  <2> QED BY <2>1, <2>3, <2>4, <2>5
<1>7. \A u \in Urls, n \in Attempts : todo[u][n] \in Nat /\ todo'[u][n] \in Nat
  BY <1>6
<1>8. \A u \in Urls, n \in Attempts : todo[u][n] > 0 => todo'[u][n] > 0
  BY <1>6, <1>7
<1>9. \A u \in Urls : frontier'[u] > frontier[u] => CrawlLow(u)'
  <2>1. SUFFICES ASSUME NEW u \in Urls, frontier'[u] > frontier[u] PROVE CrawlLow(u)'
    OBVIOUS
  <2>2. todo'[u][0] > 0
    BY <1>5, <1>6, <1>7, <2>1, SomeAttempts
  <2>3. 0 \in Attempts /\ 0 <= crawlFailures'[u]
    BY <1>3, SomeAttempts DEF HistoryGrows
  <2> QED BY <2>2, <2>3 DEF CrawlLow, CrawlHas
<1>10. FP!IInv'
  BY <1>1, <1>2, <1>6, FetchFrame
<1>11. OwnTypes'
  BY <1>1, <1>2, <1>3 DEF OwnTypes, HistoryGrows, QueueKeepsType
<1>12. OwnPage' /\ FailuresNoted'
  BY <1>1, <1>3, RunsFrame
<1>13. \A u \in Urls : Done(u) => Done(u)'
  <2>1. \A u \in Urls : GivenUp(u) => GivenUp(u)'
    BY <1>1, <1>3, GivenUpStays DEF QueueKeepsType
  <2>2. \A u \in Urls : published[u] > 0 => published'[u] > 0
    BY <1>5
  <2> QED BY <2>1, <2>2 DEF Done
<1>14. ParsedOn'
  BY <1>1, <1>2, <1>13 DEF SInv, ParsedOn, ParseEffect, LowKeeps
<1>15. Traced'
  <2>1. SUFFICES ASSUME NEW u \in Urls, u \in Seeds \ toSeed \/ urlmeta'[u] # None
                 PROVE  CrawlLow(u)' \/ Brought(u)' \/ ParseLow(u)' \/ Enqueuing(u)' \/ Done(u)'
    BY <1>1 DEF Traced
  <2>2. CASE u \in Seeds \ toSeed \/ urlmeta[u] # None
    <3>1. CrawlLow(u) \/ Brought(u) \/ ParseLow(u) \/ Enqueuing(u) \/ Done(u)
      BY <2>2 DEF SInv, Traced
    <3>2. CrawlLow(u) \/ Brought(u) => CrawlLow(u)' \/ Brought(u)'
      BY <1>1, <1>3, <1>8, CrawlFrame
    <3>3. ParseLow(u) => ParseLow(u)' \/ Done(u)'
      BY <1>2 DEF ParseEffect, LowKeeps
    <3>4. Enqueuing(u) => Enqueuing(u)' \/ Done(u)' \/ CrawlLow(u)'
      BY <1>2, <1>9 DEF ParseEffect, EnqueuingKeeps
    <3> QED BY <1>13, <3>1, <3>2, <3>3, <3>4
  <2>3. CASE urlmeta'[u] # None /\ urlmeta[u] = None
    <3>1. Enqueuing(u)' \/ u \in parseCut'
      BY <1>2, <2>3 DEF ParseEffect, RecordsAreEnqueued
    <3> QED BY <3>1 DEF Done, GivenUp
  <2> QED BY <2>1, <2>2, <2>3
<1> QED BY <1>2, <1>4, <1>10, <1>11, <1>12, <1>14, <1>15 DEF SInv, ParseEffect

-----------------------------------------------------------------------------
(* main enqueues a seed, or is told that it did not.                       *)
LEMMA SeedKeepsSInv ==
  ASSUME SInv, NEW u0 \in Seeds, Seed(u0)
  PROVE  SInv'
<1>1. /\ OwnTypes /\ FP!IInv /\ DP!FInv /\ OwnPage /\ FailuresNoted
      /\ UNCHANGED restarts /\ UNCHANGED <<toParse, parseFailed, parseRetries>>
      /\ UNCHANGED crawlVars /\ UNCHANGED parseVars
      /\ UNCHANGED <<failed, parsing>>
      /\ UNCHANGED <<urlmeta, frontier, published, parseRun, parses, parseCut, parsed>>
      /\ toSeed' = toSeed \ {u0} /\ (faults' = faults \/ F!Fault)
      /\ u0 \in Urls
  BY UrlAssumption DEF SInv, Seed, parseQueueVars, crawlVars, parseVars
<1>2. /\ todo' \in [Urls -> [Attempts -> Nat]]
      /\ \A u \in Urls, n \in Attempts : todo[u][n] > 0 => todo'[u][n] > 0
      /\ todo'[u0][0] > 0 \/ "unseeded" \in events'[u0]
      /\ HistoryGrows
  <2>1. todo \in [Urls -> [Attempts -> Nat]]
    BY <1>1, CrawlTypes
  <2>2. LET after == PutBack(todo, u0, {0}) IN
        /\ after \in [Urls -> [Attempts -> Nat]]
        /\ after[u0][0] > 0
        /\ \A u \in Urls, n \in Attempts : todo[u][n] > 0 => after[u][n] > 0
    <3> DEFINE after == PutBack(todo, u0, {0})
    <3>1. /\ after \in [Urls -> [Attempts -> Nat]] /\ after[u0][0] > 0
          /\ \A u \in Urls, n \in Attempts : after[u][n] >= todo[u][n]
      BY <1>1, <2>1, PutBackFacts, SomeAttempts
    <3> HIDE DEF after
    <3>2. \A u \in Urls, n \in Attempts : todo[u][n] \in Nat /\ after[u][n] \in Nat
      BY <2>1, <3>1
    <3>3. \A u \in Urls, n \in Attempts : todo[u][n] > 0 => after[u][n] > 0
      BY <3>1, <3>2
    <3> QED BY <3>1, <3>3 DEF after
  <2>3. CASE todo' = PutBack(todo, u0, {0}) /\ Nothing
    BY <1>1, <2>2, <2>3, NothingGrows
  <2>4. CASE todo' \in {todo, PutBack(todo, u0, {0})} /\ Befalls({u0}, "unseeded")
    <3>1. HistoryGrows /\ "unseeded" \in events'[u0]
      BY <1>1, <2>4, BefallsGrows DEF Events
    <3> QED BY <2>1, <2>2, <2>4, <3>1
  <2> QED BY <2>3, <2>4 DEF Seed
<1>3. FP!IInv'
  BY <1>1, <1>2, FetchFrame
<1>4. DP!FInv' /\ \A u \in Urls : Enqueuing(u) => Enqueuing(u)'
  BY <1>1, SameParser
<1>5. OwnTypes'
  BY <1>1, <1>2 DEF OwnTypes, HistoryGrows
<1>6. OwnPage' /\ FailuresNoted'
  BY <1>1, <1>2, RunsFrame
<1>7. PublishedFirst'
  <2>1. \A q \in ParseRuns : parseRun[q].at \in LinkStages => parseRun[q].url \in Urls
    BY <1>1, ParseRunIs DEF LinkStages
  <2> QED BY <1>1, <1>2, <2>1 DEF SInv, PublishedFirst, HistoryGrows
<1>8. OneJob'
  <2>1. \A s \in ParseRuns, u \in Urls : Ahead(s, u)' => Ahead(s, u)
    BY <1>1 DEF Ahead
  <2>2. QueueKeepsType /\ \A u \in Urls, n \in Attempts : toParse'[u][n] <= toParse[u][n]
    BY <1>1, SameParseQueue DEF parseQueueVars
  <2>3. UNCHANGED <<published, parsing, restarts>>
    BY <1>1
  <2> QED BY <1>2, <2>1, <2>2, <2>3, OneJobFrame
<1>9. \A u \in Urls : /\ Done(u) => Done(u)'
                      /\ ParseLow(u) => ParseLow(u)'
  <2>1. \A u \in Urls : GivenUp(u) => GivenUp(u)'
    BY <1>1, <1>2, GivenUpStays
  <2>2. \A u \in Urls : ParseLow(u) => ParseLow(u)'
    BY <1>1, <1>2, ParseLowStays
  <2> QED BY <1>1, <2>1, <2>2 DEF Done
<1>10. ParsedOn'
  BY <1>1, <1>9 DEF SInv, ParsedOn
<1>11. Traced'
  <2>1. SUFFICES ASSUME NEW u \in Urls, u \in Seeds \ toSeed' \/ urlmeta[u] # None
                 PROVE  CrawlLow(u)' \/ Brought(u)' \/ ParseLow(u)' \/ Enqueuing(u)' \/ Done(u)'
    BY <1>1 DEF Traced
  <2>2. CASE u = u0
    <3>1. CASE todo'[u][0] > 0
      <4>1. 0 \in Attempts /\ 0 <= crawlFailures'[u]
        BY <1>2, SomeAttempts DEF HistoryGrows
      <4> QED BY <3>1, <4>1 DEF CrawlLow, CrawlHas
    <3>2. CASE "unseeded" \in events'[u]
      BY <3>2 DEF Done, GivenUp
    <3> QED BY <1>2, <2>2, <3>1, <3>2
  <2>3. CASE u # u0
    <3>1. CrawlLow(u) \/ Brought(u) \/ ParseLow(u) \/ Enqueuing(u) \/ Done(u)
      BY <1>1, <2>1, <2>3 DEF SInv, Traced
    <3>2. CrawlLow(u) \/ Brought(u) => CrawlLow(u)' \/ Brought(u)'
      BY <1>1, <1>2, CrawlFrame
    <3> QED BY <1>4, <1>9, <3>1, <3>2
  <2> QED BY <2>2, <2>3
<1> QED BY <1>3, <1>4, <1>5, <1>6, <1>7, <1>8, <1>10, <1>11 DEF SInv

(* A Stop brings the jobs it completes back with one failure more, or into *)
(* the failed list; of those it does not, the crash is noted.              *)
LEMMA RestartKeepsSInv ==
  ASSUME SInv, NEW crawlBack \in SUBSET F!Live, NEW parseBack \in SUBSET LiveParses,
         Restart(crawlBack, parseBack)
  PROVE  SInv'
<1> DEFINE jobOf == [r \in CrawlRuns |-> crawlRun[r].job]
           countOf == [r \in CrawlRuns |-> crawlRun[r].retries]
           urlOf == [q \in ParseRuns |-> parseRun[q].url]
<1>1. /\ OwnTypes /\ FP!IInv /\ DP!FInv
      /\ toParse \in [Urls -> [Attempts -> Nat]] /\ todo \in [Urls -> [Attempts -> Nat]]
      /\ published \in [Urls -> Nat] /\ restarts \in Nat /\ restarts <= MaxRestarts
      /\ \A u \in Urls, n \in Attempts : todo[u][n] \in Nat /\ toParse[u][n] \in Nat
  <2>1. toParse \in [Urls -> [Attempts -> Nat]] /\ todo \in [Urls -> [Attempts -> Nat]]
    BY CrawlTypes DEF SInv, OwnTypes
  <2>2. \A u \in Urls, n \in Attempts : todo[u][n] \in Nat /\ toParse[u][n] \in Nat
    BY <2>1
  <2> QED BY <2>1, <2>2, DiscoveryTypes, CrawlTypes DEF SInv, OwnTypes
<1>2. F!Restart(crawlBack) /\ D!Crash
  BY DEF Restart
<1>3. FP!IInv'
  <2>1. FP!Restart(crawlBack) /\ crawlBack \in SUBSET FP!Live
    BY <1>2, SameRestart
  <2> QED BY <1>1, <2>1, CrawlAssumed, FP!RestartIInv DEF FP!RestartIInv
<1>4. DP!FInv'
  BY <1>1, <1>2, SameCrash, ParseAssumed, DP!EveryStepFollows DEF DP!EveryStepFollows, DP!Next
<1>5. /\ toSeed' = Seeds /\ restarts' = restarts - 1
      /\ UNCHANGED <<urlmeta, published>> /\ parseCut \subseteq parseCut' /\ crawlCut' = {}
      /\ \A u \in Urls : parsing'[u] = 0
      /\ \A r \in CrawlRuns : crawlRun'[r] = F!NoRun
      /\ \A q \in ParseRuns : parseRun'[q] = D!NoRun
      /\ \A q \in ParseRuns : parseRun[q].at = "enqueue" => D!InHand(q) \in parseCut'
      /\ parseRetries' \in [ParseRuns -> Attempts]
  BY SomeAttempts DEF Restart, F!Restart, D!Crash
<1>6. /\ IsFiniteSet(crawlBack) /\ IsFiniteSet(parseBack)
      /\ crawlBack \subseteq CrawlRuns /\ parseBack \subseteq ParseRuns
  <2>1. crawlBack \subseteq CrawlRuns /\ parseBack \subseteq ParseRuns
    BY DEF F!Live, LiveParses
  <2> QED BY <2>1, BoundAssumption, FS_Subset
<1>7. /\ HistoryGrows
      /\ \A r \in F!Live : crawlRun[r].job \in Urls =>
           \/ r \in crawlBack /\ crawlFailures'[crawlRun[r].job] = crawlFailures[crawlRun[r].job] + 1
           \/ "crash" \in events'[crawlRun[r].job]
      /\ \A q \in LiveParses : parseRun[q].url \in Urls =>
           \/ q \in parseBack /\ parseFailures'[parseRun[q].url] = parseFailures[parseRun[q].url] + 1
           \/ "crash" \in events'[parseRun[q].url]
  <2>1. \A u \in Urls :
          /\ crawlFailures'[u] = crawlFailures[u] + IF u \in CrawledBy(crawlBack) THEN 1 ELSE 0
          /\ parseFailures'[u] = parseFailures[u] + IF u \in ParsedBy(parseBack) THEN 1 ELSE 0
    BY DEF Restart, AddedUp
  <2>2. crawlFailures' \in [Urls -> Nat] /\ parseFailures' \in [Urls -> Nat]
    BY <1>1 DEF OwnTypes, Restart, AddedUp
  <2> DEFINE hit == CrawledBy(F!Live \ crawlBack) \union ParsedBy(LiveParses \ parseBack)
  <2>3. events' = [u \in Urls |-> IF u \in hit THEN events[u] \union {"crash"} ELSE events[u]]
    BY DEF Restart, Noting
  <2>4. /\ \A r \in F!Live \ crawlBack : crawlRun[r].job \in hit
        /\ \A q \in LiveParses \ parseBack : parseRun[q].url \in hit
        /\ \A r \in crawlBack : crawlRun[r].job \in CrawledBy(crawlBack)
        /\ \A q \in parseBack : parseRun[q].url \in ParsedBy(parseBack)
    BY DEF CrawledBy, ParsedBy
  <2> HIDE DEF hit
  <2>5. HistoryGrows
    <3>1. events \in [Urls -> SUBSET Events] /\ "crash" \in Events
      BY <1>1 DEF OwnTypes, Events
    <3>2. events' \in [Urls -> SUBSET Events] /\ \A u \in Urls : events[u] \subseteq events'[u]
      BY <2>3, <3>1
    <3>3. \A u \in Urls : /\ crawlFailures'[u] >= crawlFailures[u]
                          /\ parseFailures'[u] >= parseFailures[u]
      <4>1. \A u \in Urls : crawlFailures[u] \in Nat /\ parseFailures[u] \in Nat
        BY <1>1 DEF OwnTypes
      <4> QED BY <2>1, <4>1
    <3> QED BY <2>2, <3>2, <3>3 DEF HistoryGrows
  <2>6. \A u \in Urls : u \in hit => "crash" \in events'[u]
    BY <2>3
  <2> QED BY <2>1, <2>4, <2>5, <2>6
<1>8. /\ todo' = AllPutBack(todo, crawlBack, jobOf, countOf)
      /\ failed' = AllFailed(failed, crawlBack, jobOf, countOf)
  <2>1. \A S : F!Cardinality(S) = Cardinality(S)
    BY DEF F!Cardinality, Cardinality
  <2>2. \A queue, runs, jobs, counts :
          F!AllPutBack(queue, runs, jobs, counts) = AllPutBack(queue, runs, jobs, counts)
    BY <2>1, SameQueue DEF F!AllPutBack, AllPutBack
  <2>3. \A list, runs, jobs, counts :
          F!AllFailed(list, runs, jobs, counts) = AllFailed(list, runs, jobs, counts)
    BY DEF F!AllFailed, AllFailed
  <2> QED BY <1>2, <2>2, <2>3 DEF F!Restart
<1>9. /\ todo' \in [Urls -> [Attempts -> Nat]]
      /\ \A u \in Urls, n \in Attempts : todo'[u][n] >= todo[u][n]
      /\ \A r \in crawlBack : crawlRun[r].job \in Urls /\ crawlRun[r].retries + 1 \in Attempts
                                => todo'[crawlRun[r].job][crawlRun[r].retries + 1] > 0
      /\ failed \subseteq failed'
      /\ \A r \in crawlBack : crawlRun[r].retries + 1 = MAX_RETRIES => crawlRun[r].job \in failed'
  <2>1. \A r \in crawlBack : jobOf[r] = crawlRun[r].job /\ countOf[r] = crawlRun[r].retries
    BY <1>6
  <2> HIDE DEF jobOf, countOf
  <2>2. /\ todo' \in [Urls -> [Attempts -> Nat]]
        /\ \A u \in Urls, n \in Attempts : todo'[u][n] >= todo[u][n]
        /\ \A r \in crawlBack : jobOf[r] \in Urls /\ countOf[r] + 1 \in Attempts
                                  => todo'[jobOf[r]][countOf[r] + 1] > 0
    BY <1>1, <1>6, <1>8, AllPutBackFacts
  <2>3. /\ failed \subseteq failed'
        /\ \A r \in crawlBack : countOf[r] + 1 = MAX_RETRIES => jobOf[r] \in failed'
    BY <1>8 DEF AllFailed
  <2> QED BY <2>1, <2>2, <2>3
<1>10. /\ toParse' \in [Urls -> [Attempts -> Nat]]
       /\ \A u \in Urls, n \in Attempts : toParse'[u][n] >= toParse[u][n]
       /\ \A q \in parseBack : parseRun[q].url \in Urls /\ parseRetries[q] + 1 \in Attempts
                                 => toParse'[parseRun[q].url][parseRetries[q] + 1] > 0
       /\ parseFailed \subseteq parseFailed' /\ parseFailed' \subseteq Urls
       /\ \A q \in parseBack : parseRetries[q] + 1 = MAX_RETRIES => parseRun[q].url \in parseFailed'
  <2>1. /\ toParse' = AllPutBack(toParse, parseBack, urlOf, parseRetries)
        /\ parseFailed' = AllFailed(parseFailed, parseBack, urlOf, parseRetries)
    BY DEF Restart
  <2>2. \A q \in parseBack : urlOf[q] = parseRun[q].url /\ urlOf[q] \in Urls
    BY <1>1, <1>6, ParseRunIs DEF LiveParses
  <2> HIDE DEF urlOf
  <2>3. /\ toParse' \in [Urls -> [Attempts -> Nat]]
        /\ \A u \in Urls, n \in Attempts : toParse'[u][n] >= toParse[u][n]
        /\ \A q \in parseBack : urlOf[q] \in Urls /\ parseRetries[q] + 1 \in Attempts
                                  => toParse'[urlOf[q]][parseRetries[q] + 1] > 0
    BY <1>1, <1>6, <2>1, AllPutBackFacts
  <2>4. /\ parseFailed \subseteq parseFailed'
        /\ \A q \in parseBack : parseRetries[q] + 1 = MAX_RETRIES => urlOf[q] \in parseFailed'
    BY <2>1 DEF AllFailed
  <2>5. parseFailed' \subseteq Urls
    BY <1>1, <2>1, <2>2 DEF AllFailed, OwnTypes
  <2> QED BY <2>2, <2>3, <2>4, <2>5
<1> HIDE DEF jobOf, countOf, urlOf
<1>11. /\ \A u \in Urls, n \in Attempts : todo[u][n] > 0 => todo'[u][n] > 0
       /\ \A u \in Urls, n \in Attempts : toParse[u][n] > 0 => toParse'[u][n] > 0
  <2>1. \A u \in Urls, n \in Attempts : todo'[u][n] \in Nat /\ toParse'[u][n] \in Nat
    BY <1>9, <1>10
  <2> QED BY <1>1, <1>9, <1>10, <2>1
<1>12. OwnTypes' /\ OwnPage' /\ PublishedFirst' /\ FailuresNoted' /\ ParsedOn'
  <2>1. OwnTypes'
    BY <1>1, <1>5, <1>7, <1>10, CrawlAssumed DEF OwnTypes, HistoryGrows
  <2> QED BY <1>5, <2>1, NoCrawlRun, NoParseRun
          DEF OwnPage, PublishedFirst, LinkStages, FailuresNoted, ParsedOn
<1>13. OneJob'
  <2>1. restarts' # MaxRestarts
    BY <1>1, <1>5, CrawlAssumed
  <2> QED BY <2>1 DEF OneJob, Undisturbed
<1>14. \A u \in Urls : Done(u) => Done(u)'
  <2>1. \A u \in Urls : GivenUp(u) => GivenUp(u)'
    BY <1>1, <1>5, <1>7, <1>9, <1>10, GivenUpStays
  <2> QED BY <1>5, <2>1 DEF Done
<1>15. \A u \in Urls : CrawlLow(u) => CrawlLow(u)' \/ Done(u)'
  <2>1. SUFFICES ASSUME NEW u \in Urls, NEW n \in Attempts, n <= crawlFailures[u], CrawlHas(u, n)
                 PROVE  CrawlLow(u)' \/ Done(u)'
    BY DEF CrawlLow
  <2>2. n \in Nat /\ crawlFailures[u] \in Nat /\ crawlFailures'[u] >= crawlFailures[u]
        /\ crawlFailures'[u] \in Nat
    BY <1>1, <1>7, SomeAttempts DEF OwnTypes, HistoryGrows
  <2>3. CASE todo[u][n] > 0
    <3>1. todo'[u][n] > 0 /\ n <= crawlFailures'[u]
      BY <1>11, <2>1, <2>2, <2>3
    <3> QED BY <3>1 DEF CrawlLow, CrawlHas
  <2>4. ASSUME NEW r \in CrawlRuns,
               crawlRun[r].live /\ crawlRun[r].job = u /\ crawlRun[r].retries = n
        PROVE  CrawlLow(u)' \/ Done(u)'
    <3>1. \/ r \in crawlBack /\ crawlFailures'[u] = crawlFailures[u] + 1
          \/ "crash" \in events'[u]
      BY <1>7, <2>4 DEF F!Live
    <3>2. CASE "crash" \in events'[u]
      BY <3>2 DEF Done, GivenUp
    <3>3. CASE /\ r \in crawlBack /\ crawlFailures'[u] = crawlFailures[u] + 1
               /\ n + 1 \in Attempts
      <4>1. todo'[u][n + 1] > 0 /\ n + 1 <= crawlFailures'[u]
        BY <1>9, <2>1, <2>2, <2>4, <3>3
      <4> QED BY <3>3, <4>1 DEF CrawlLow, CrawlHas
    <3>4. CASE /\ r \in crawlBack /\ crawlFailures'[u] = crawlFailures[u] + 1
               /\ n + 1 = MAX_RETRIES
      <4>1. u \in failed' /\ crawlFailures'[u] >= MAX_RETRIES
        BY <1>9, <2>1, <2>2, <2>4, <3>4
      <4> QED BY <4>1 DEF Done, GivenUp
    <3> QED BY <3>1, <3>2, <3>3, <3>4, SomeAttempts
  <2> QED BY <2>1, <2>3, <2>4 DEF CrawlHas
<1>16. \A u \in Urls : Brought(u) => Done(u)'
  <2>1. SUFFICES ASSUME NEW u \in Urls, Brought(u) PROVE Done(u)'
    OBVIOUS
  <2>2. PICK r \in CrawlRuns : crawlRun[r].live /\ crawlRun[r].job = u
    BY <2>1 DEF Brought
  <2>3. "self" \in events'[u] /\ crawlFailures[u] \in Nat
    BY <1>1, <1>7, <2>1 DEF Brought, HistoryGrows, OwnTypes
  <2>4. \/ crawlFailures'[u] = crawlFailures[u] + 1
        \/ "crash" \in events'[u]
    BY <1>7, <2>2 DEF F!Live
  <2>5. crawlFailures'[u] > 0 \/ "crash" \in events'[u]
    BY <2>3, <2>4
  <2> QED BY <2>3, <2>5 DEF Done, GivenUp
<1>17. \A u \in Urls : ParseLow(u) => ParseLow(u)' \/ Done(u)'
  <2>1. SUFFICES ASSUME NEW u \in Urls, NEW n \in Attempts, n <= parseFailures[u], ParseHas(u, n)
                 PROVE  ParseLow(u)' \/ Done(u)'
    BY DEF ParseLow
  <2>2. n \in Nat /\ parseFailures[u] \in Nat /\ parseFailures'[u] >= parseFailures[u]
        /\ parseFailures'[u] \in Nat
    BY <1>1, <1>7, SomeAttempts DEF OwnTypes, HistoryGrows
  <2>3. CASE toParse[u][n] > 0
    <3>1. toParse'[u][n] > 0 /\ n <= parseFailures'[u]
      BY <1>11, <2>1, <2>2, <2>3
    <3> QED BY <3>1 DEF ParseLow, ParseHas
  <2>4. ASSUME NEW q \in ParseRuns,
               parseRun[q].live /\ parseRun[q].url = u /\ parseRetries[q] = n
        PROVE  ParseLow(u)' \/ Done(u)'
    <3>1. \/ q \in parseBack /\ parseFailures'[u] = parseFailures[u] + 1
          \/ "crash" \in events'[u]
      BY <1>7, <2>4 DEF LiveParses
    <3>2. CASE "crash" \in events'[u]
      BY <3>2 DEF Done, GivenUp
    <3>3. CASE /\ q \in parseBack /\ parseFailures'[u] = parseFailures[u] + 1
               /\ n + 1 \in Attempts
      <4>1. toParse'[u][n + 1] > 0 /\ n + 1 <= parseFailures'[u]
        BY <1>10, <2>1, <2>2, <2>4, <3>3
      <4> QED BY <3>3, <4>1 DEF ParseLow, ParseHas
    <3>4. CASE /\ q \in parseBack /\ parseFailures'[u] = parseFailures[u] + 1
               /\ n + 1 = MAX_RETRIES
      <4>1. u \in parseFailed' /\ parseFailures'[u] >= MAX_RETRIES
        BY <1>10, <2>1, <2>2, <2>4, <3>4
      <4> QED BY <4>1 DEF Done, GivenUp
    <3> QED BY <3>1, <3>2, <3>3, <3>4, SomeAttempts
  <2> QED BY <2>1, <2>3, <2>4 DEF ParseHas
<1>18. \A u \in Urls : Enqueuing(u) => Done(u)'
  BY <1>5 DEF Enqueuing, Done, GivenUp
<1>19. Traced'
  <2>1. SUFFICES ASSUME NEW u \in Urls, urlmeta[u] # None
                 PROVE  CrawlLow(u)' \/ Brought(u)' \/ ParseLow(u)' \/ Enqueuing(u)' \/ Done(u)'
    BY <1>5 DEF Traced
  <2>2. CrawlLow(u) \/ Brought(u) \/ ParseLow(u) \/ Enqueuing(u) \/ Done(u)
    BY <2>1 DEF SInv, Traced
  <2> QED BY <1>14, <1>15, <1>16, <1>17, <1>18, <2>2
<1> QED BY <1>3, <1>4, <1>12, <1>13, <1>19 DEF SInv

-----------------------------------------------------------------------------
LEMMA InitIsSInv == Init => SInv
<1>1. SUFFICES ASSUME Init PROVE SInv
  OBVIOUS
<1>2. NoCopy \in [Attempts -> Nat] /\ \A n \in Attempts : NoCopy[n] = 0
  BY DEF NoCopy
<1>3. /\ \A r \in CrawlRuns : crawlRun[r] = F!NoRun
      /\ \A q \in ParseRuns : parseRun[q] = D!NoRun
      /\ \A u \in Urls : /\ parsing[u] = 0
                         /\ \A n \in Attempts : todo[u][n] = 0 /\ toParse[u][n] = 0
      /\ \A u \in Urls : urlmeta[u] = None /\ published[u] = 0
      /\ toSeed = Seeds /\ crawlCut = {}
  BY <1>1, <1>2 DEF Init, Nowhere, Zero, D!Init
<1>4. FP!IInv
  <2>1. FP!TypeOK
    BY <1>1, <1>2, NoCrawlRun, CrawlAssumed, SameQueue DEF Init, Nowhere, Zero, FP!TypeOK
  <2> QED BY <1>1, <1>3, <2>1, NoCrawlRun
          DEF Init, FP!IInv, FP!RunsSound, FP!FlightSound, FP!IndexSound, FP!AdmittedIsKept,
              FP!Bringing
<1>5. DP!FInv
  <2>1. DP!Init
    BY <1>1 DEF Init, D!Init, DP!Init, D!NoRun, DP!NoRun
  <2>2. DP!IInv
    BY <2>1, ParseAssumed, DP!InitIInv DEF DP!InitIInv
  <2> QED BY <1>3, <2>1, <2>2, NoParseRun
          DEF DP!FInv, DP!Init, DP!Followed, DP!LinksBehind, DP!LinkStages
<1>6. OwnTypes
  BY <1>1, <1>2, CrawlAssumed, BoundAssumption, SomeAttempts DEF Init, OwnTypes, Nowhere, Zero
<1>7. OwnPage /\ PublishedFirst /\ FailuresNoted /\ ParsedOn
  BY <1>3, NoCrawlRun, NoParseRun
     DEF OwnPage, PublishedFirst, LinkStages, FailuresNoted, ParsedOn
<1>8. OneJob
  <2>1. \A q \in ParseRuns, u \in Urls : ~Ahead(q, u)
    BY <1>3, NoParseRun DEF Ahead
  <2>2. \A u \in Urls : toParse[u][0] = 0 /\ published[u] = 0 /\ parsing[u] = 0
    BY <1>3, SomeAttempts
  <2>3. \A u \in Urls : toParse[u][0] + published[u] <= parsing[u]
    BY <2>2
  <2> QED BY <1>3, <2>1, <2>3 DEF OneJob
<1>9. Traced
  BY <1>3 DEF Traced
<1> QED BY <1>4, <1>5, <1>6, <1>7, <1>8, <1>9 DEF SInv

LEMMA NextKeepsSInv == SInv /\ [Next]_vars => SInv'
<1>1. SUFFICES ASSUME SInv, [Next]_vars PROVE SInv'
  OBVIOUS
<1>2. CASE \E u \in Seeds : Seed(u)
  BY <1>1, <1>2, SeedKeepsSInv
<1>3. CASE Crawl
  BY <1>1, <1>3, CrawlKeepsSInv
<1>4. CASE Parse
  BY <1>1, <1>4, ParseKeepsSInv
<1>5. CASE \E crawlBack \in SUBSET F!Live, parseBack \in SUBSET LiveParses :
             Restart(crawlBack, parseBack)
  BY <1>1, <1>5, RestartKeepsSInv
<1>6. CASE UNCHANGED vars
  <2>1. /\ UNCHANGED <<toSeed, todo, restarts, faults>> /\ UNCHANGED crawlVars
        /\ UNCHANGED <<toParse, parseFailed, parseRetries>>
        /\ UNCHANGED <<events, crawlFailures, parseFailures>>
        /\ UNCHANGED <<urlmeta, frontier, published, parseRun, parses, parseCut, parsed>>
    BY <1>6 DEF vars, parseVars, parseQueueVars, historyVars
  <2>2. OwnTypes /\ FP!IInv /\ DP!FInv
    BY <1>1 DEF SInv
  <2>3. FP!IInv'
    <3>1. todo' \in [Urls -> [Attempts -> Nat]]
      BY <2>1, <2>2, CrawlTypes
    <3> QED BY <2>1, <2>2, <3>1, FetchFrame
  <2>4. DP!FInv'
    BY <2>1, <2>2, SameParser
  <2>5. OwnTypes' /\ OwnPage' /\ PublishedFirst' /\ FailuresNoted' /\ OneJob'
    BY <1>1, <2>1 DEF SInv, OwnTypes, OwnPage, PublishedFirst, FailuresNoted, OneJob,
       Undisturbed, Ahead, crawlVars
  <2>6. \A u \in Urls : /\ CrawlLow(u)' = CrawlLow(u) /\ Brought(u)' = Brought(u)
                        /\ ParseLow(u)' = ParseLow(u) /\ Enqueuing(u)' = Enqueuing(u)
                        /\ Done(u)' = Done(u)
    BY <2>1 DEF CrawlLow, CrawlHas, Brought, ParseLow, ParseHas, Enqueuing, D!InHand, D!Target,
       Done, GivenUp, crawlVars
  <2>7. Traced' /\ ParsedOn'
    BY <1>1, <2>1, <2>6 DEF SInv, Traced, ParsedOn, crawlVars
  <2> QED BY <2>3, <2>4, <2>5, <2>7 DEF SInv
<1> QED BY <1>1, <1>2, <1>3, <1>4, <1>5, <1>6 DEF Next

LEMMA SInvHolds == Spec => []SInv
BY InitIsSInv, NextKeepsSInv, PTL DEF Spec

(* Types.                                                                  *)
THEOREM TypeCorrect == Spec => []TypeOK
<1>1. SInv => TypeOK
  <2>1. SUFFICES ASSUME SInv PROVE TypeOK
    OBVIOUS
  <2>2. F!TypeOK
    <3>1. FP!TypeOK
      BY <2>1 DEF SInv, FP!IInv
    <3> QED BY <3>1, SameQueue
            DEF FP!TypeOK, F!TypeOK, FP!RunRecord, F!RunRecord, FP!Stages, F!Stages
  <2>3. D!TypeOK
    <3>1. DP!TypeOK
      BY <2>1 DEF SInv, DP!FInv, DP!IInv
    <3> QED BY <3>1 DEF DP!TypeOK, D!TypeOK, DP!RunRecord, D!RunRecord, DP!Stages, D!Stages,
                        DP!Meta, D!Meta
  <2> QED BY <2>1, <2>2, <2>3 DEF SInv, OwnTypes, TypeOK
<1> QED BY <1>1, SInvHolds, PTL

(* A copy that Traced speaks of waits or is run.                           *)
LEMMA TracedIsSomewhere ==
  ASSUME NEW u \in Urls
  PROVE  CrawlLow(u) \/ Brought(u) \/ ParseLow(u) \/ Enqueuing(u) => Waits(u) \/ u \in InHand
<1>1. ASSUME NEW n \in Attempts, CrawlHas(u, n) PROVE Waits(u) \/ u \in InHand
  BY <1>1 DEF CrawlHas, Waits, HasCopy, InHand, CrawledBy, F!Live
<1>2. ASSUME NEW n \in Attempts, ParseHas(u, n) PROVE Waits(u) \/ u \in InHand
  BY <1>2 DEF ParseHas, Waits, HasCopy, InHand, ParsedBy, LiveParses
<1>3. Brought(u) => u \in InHand
  BY DEF Brought, InHand, CrawledBy, F!Live
<1> QED BY <1>1, <1>2, <1>3 DEF CrawlLow, ParseLow, Waits

(* However its jobs fail, are rate-limited, lost, doubled, put back or     *)
(* given to the failed list, a known URL waits, is in the hands of a run,  *)
(* was published, or was given up for a reason that GivenUp names.         *)
THEOREM AccountedHolds == Spec => []Accounted
<1>1. SInv => Accounted
  BY TracedIsSomewhere DEF SInv, Traced, Accounted, Done
<1> QED BY <1>1, SInvHolds, PTL

(* A scraper at rest has published whatever its seeds and the pages it     *)
(* parsed lead to, or has given it up for a reason that GivenUp names:     *)
(* what a parsed page links to is known, what is known is accounted for,   *)
(* and at rest nothing waits.                                              *)
THEOREM CrawlIsCompleteHolds == Spec => []CrawlIsComplete
<1>1. SInv => CrawlIsComplete
  <2>1. SUFFICES ASSUME SInv, Quiet,
                        NEW u \in Seeds \union UNION {D!Targets(v) : v \in parsed}
                 PROVE  published[u] > 0 \/ GivenUp(u)
    BY DEF CrawlIsComplete
  <2>2. u \in Urls /\ (u \in Seeds \/ urlmeta[u] # None)
    <3>1. CASE u \in Seeds
      BY <3>1, UrlAssumption
    <3>2. CASE \E v \in parsed : u \in D!Targets(v)
      <4>1. PICK v \in parsed : u \in D!Targets(v)
        BY <3>2
      <4>2. PICK i \in DOMAIN LinksOf[v] : u = D!Target(v, i)
        BY <4>1 DEF D!Targets
      <4>3. v \in Urls
        BY <2>1, <4>1 DEF SInv, DP!FInv, DP!IInv, DP!TypeOK
      <4>4. LinksOf[v] \in Seq(Urls) /\ LinksOf[v][i] \in Urls
            /\ CanonicalOf[v] \in Urls \union {None}
        BY <4>2, <4>3, UrlAssumption
      <4>5. DP!Followed
        BY <2>1 DEF SInv, DP!FInv
      <4> QED BY <4>2, <4>3, <4>4, <4>5 DEF DP!Followed, D!Target, DP!Target
    <3> QED BY <2>1, <3>1, <3>2
  <2>3. ~Waits(u) /\ u \notin InHand
    <3>1. ~Waits(u)
      BY <2>1, <2>2 DEF Quiet
    <3>2. /\ \A r \in CrawlRuns : ~crawlRun[r].live
          /\ \A q \in ParseRuns : ~parseRun[q].live
      BY <2>1, NoCrawlRun, NoParseRun DEF Quiet
    <3> QED BY <3>1, <3>2 DEF InHand, CrawledBy, ParsedBy, F!Live, LiveParses
  <2>4. CrawlLow(u) \/ Brought(u) \/ ParseLow(u) \/ Enqueuing(u) \/ Done(u)
    BY <2>1, <2>2 DEF SInv, Traced, Quiet
  <2> QED BY <2>2, <2>3, <2>4, TracedIsSomewhere DEF Done
<1> QED BY <1>1, SInvHolds, PTL

(* The content index lets one crawl run per page through, so there is one  *)
(* parse job, whatever becomes of the crawl job; the page is published     *)
(* more than once only after a failure of its parse job, a copy of that    *)
(* job too many, or a restart.                                             *)
THEOREM PublishedOnceHolds == Spec => []PublishedOnce
<1>1. SInv => PublishedOnce
  <2>1. SUFFICES ASSUME SInv, NEW u \in Urls, ~(parseFailures[u] > 0),
                        "doubled" \notin events[u], ~(restarts < MaxRestarts)
                 PROVE  ~(published[u] > 1)
    BY DEF PublishedOnce
  <2>2. restarts = MaxRestarts
    <3>1. restarts \in Nat /\ MaxRestarts \in Nat /\ restarts <= MaxRestarts
      BY <2>1, BoundAssumption, CrawlTypes DEF SInv, OwnTypes
    <3> QED BY <2>1, <3>1
  <2>3. parseFailures[u] = 0
    BY <2>1 DEF SInv, OwnTypes
  <2>4. toParse[u][0] + published[u] <= parsing[u]
    BY <2>1, <2>2, <2>3 DEF SInv, OneJob, Undisturbed
  <2>5. /\ toParse[u][0] \in Nat /\ published[u] \in Nat
        /\ parsing[u] = 0 \/ parsing[u] = 1
    BY <2>1, DiscoveryTypes, SomeAttempts DEF SInv, OwnTypes, FP!IInv, FP!TypeOK, FP!IndexSound
  <2> QED BY <2>4, <2>5
<1> QED BY <1>1, SInvHolds, PTL

(* The parser inside the scraper is the Discovery that is checked alone:   *)
(* whatever holds there of every behaviour holds of the whole scraper.     *)
THEOREM ParserIsDiscovery == Spec => D!Spec
<1>1. Init => D!Init
  BY DEF Init
<1>2. [Next]_vars => [D!Next]_(D!vars)
  <2>1. SUFFICES ASSUME [Next]_vars PROVE D!Next \/ UNCHANGED D!vars
    OBVIOUS
  <2>2. CASE \E u \in Seeds : Seed(u)
    BY <2>2 DEF Seed, D!vars, parseVars
  <2>3. CASE Crawl
    <3>1. UNCHANGED parseVars /\ restarts' = restarts
      BY <2>3, CrawlSteps DEF Crawl
    <3> QED BY <3>1 DEF D!vars, parseVars
  <2>4. CASE \E q \in ParseRuns : ParseStep(q)
    BY <2>4 DEF ParseStep, StartParse, D!Next
  <2>5. CASE \E u \in Urls, n \in Attempts : ParseQueueSlips(u, n)
    BY <2>5 DEF ParseQueueSlips, D!vars, parseVars
  <2>6. CASE \E crawlBack \in SUBSET F!Live, parseBack \in SUBSET LiveParses :
               Restart(crawlBack, parseBack)
    BY <2>6 DEF Restart, D!Next
  <2>7. CASE UNCHANGED vars
    BY <2>7 DEF vars, parseVars, D!vars
  <2> QED BY <2>1, <2>2, <2>3, <2>4, <2>5, <2>6, <2>7 DEF Next, Parse
<1> QED BY <1>1, <1>2, PTL DEF Spec, D!Spec

(* What FetchAndStore promises of the content index and of the flights     *)
(* holds with the parser, the seeds and both queues around it.             *)
THEOREM CrawlerKeepsItsWord ==
  Spec => [](F!OnceParsed /\ F!AdmittedIsKept /\ F!FlightHasLeader)
<1>1. SInv => F!OnceParsed /\ F!AdmittedIsKept /\ F!FlightHasLeader
  <2>1. SUFFICES ASSUME FP!IInv PROVE F!OnceParsed /\ F!AdmittedIsKept /\ F!FlightHasLeader
    BY DEF SInv
  <2>2. F!OnceParsed
    BY <2>1 DEF FP!IInv, FP!IndexSound, F!OnceParsed
  <2>3. F!AdmittedIsKept
    BY <2>1 DEF FP!IInv, FP!AdmittedIsKept, F!AdmittedIsKept
  <2>4. F!FlightHasLeader
    <3>1. \A r \in CrawlRuns : crawlRun[r].at = "flight" => FP!Domain(r) \in Domains
      BY <2>1, CrawlRunIs, UrlAssumption DEF FP!Domain
    <3>2. /\ \A d \in Domains : flight[d] # None => flight[d] \in FP!Waiting(d)
          /\ \A r \in CrawlRuns : crawlRun[r].at = "flight" => flight[FP!Domain(r)] # None
      BY <2>1 DEF FP!IInv, FP!FlightSound
    <3>3. /\ \A r \in CrawlRuns : F!Domain(r) = FP!Domain(r)
          /\ \A d \in Domains : F!Waiting(d) = FP!Waiting(d)
      BY SameFlights DEF F!Domain, FP!Domain
    <3> QED BY <3>1, <3>2, <3>3 DEF F!FlightHasLeader
  <2> QED BY <2>2, <2>3, <2>4
<1> QED BY <1>1, SInvHolds, PTL
=============================================================================
