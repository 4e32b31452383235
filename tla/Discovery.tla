------------------------------ MODULE Discovery ------------------------------
(***************************************************************************)
(* What a parse job does: ExtractTextAndStore in                           *)
(* internal/scraper/parsing/parsing.go, which publishes the page to the    *)
(* indexer and puts the URLs it links to into the frontier.  The record    *)
(* "urlmeta:<URL>" in Redis decides whether a URL is new (SETNX); the      *)
(* record of a known one is read, its InboundLinks is raised and it is     *)
(* written back, in two calls.                                             *)
(*                                                                         *)
(* A run is one call of execFunc and outlives the end of its context, as   *)
(* in FetchAndStore: the calls that take ctx fail then, Enqueue and AddMsg *)
(* do not take it.  A failed call on a link is logged, and the next link   *)
(* is taken.  URLs are normalised ones; how a page is fetched and queued   *)
(* for the parser is FetchAndStore's: here it may happen to any URL of the *)
(* frontier, more than once.                                               *)
(***************************************************************************)
EXTENDS Integers, Sequences

CONSTANTS
  Urls,
  Seeds,        \* main.go: enqueued at every start, without a record
  LinksOf,      \* [Urls -> Seq(Urls)]: the links of a page, resolved and normalised
  CanonicalOf,  \* [Urls -> Urls or None]: its link rel="canonical"
  ParsedAs,     \* [Urls -> Urls]: the URL in the parse job of a crawled URL
  Runs,         \* the parser goroutines, and the runs they have given up
  MaxParses,    \* bound: how many parse runs there are
  MaxCrashes,   \* bound: how often the process crashes
  None

ASSUME UrlAssumption == /\ Seeds \subseteq Urls
                        /\ LinksOf \in [Urls -> Seq(Urls)]
                        /\ CanonicalOf \in [Urls -> Urls \union {None}]
                        /\ ParsedAs \in [Urls -> Urls]
ASSUME BoundAssumption == MaxParses \in Nat /\ MaxCrashes \in Nat

Meta == [depth : Nat, inbound : Nat]

ASSUME NoneAssumption == None \notin Urls /\ None \notin Meta

VARIABLES
  urlmeta,    \* [Urls -> Meta or None]: the key "urlmeta:<URL>", which never expires
  frontier,   \* [Urls -> Nat]: crawl jobs enqueued for a URL by the parser
  published,  \* [Urls -> Nat]: messages to the indexer
  run,        \* [Runs -> a record]
  parses,     \* bound: what is left of MaxParses
  crashes,    \* bound: what is left of MaxCrashes
  cut,        \* history: URLs whose SetNX or Enqueue was cut off
  parsed      \* history: URLs with a run in which no call failed

vars == <<urlmeta, frontier, published, run, parses, crashes, cut, parsed>>

Stages == {"idle", "meta", "publish", "link", "enqueue", "reread", "rewrite"}

(* next is the link in hand, depth that of the page, old the record read   *)
(* of the URL in hand, clean whether no call has failed so far.            *)
RunRecord == [url : Urls \union {None}, at : Stages, live : BOOLEAN, next : Nat,
              depth : Nat, old : Meta \union {None}, clean : BOOLEAN]

NoRun == [url |-> None, at |-> "idle", live |-> FALSE, next |-> 1, depth |-> 0,
          old |-> None, clean |-> TRUE]

TypeOK ==
  /\ urlmeta \in [Urls -> Meta \union {None}]
  /\ frontier \in [Urls -> Nat]
  /\ published \in [Urls -> Nat]
  /\ run \in [Runs -> RunRecord]
  /\ parses \in Nat /\ crashes \in Nat
  /\ cut \subseteq Urls /\ parsed \subseteq Urls

Init ==
  /\ urlmeta = [u \in Urls |-> None]
  /\ frontier = [u \in Urls |-> 0]
  /\ published = [u \in Urls |-> 0]
  /\ run = [r \in Runs |-> NoRun]
  /\ parses = MaxParses /\ crashes = MaxCrashes
  /\ cut = {} /\ parsed = {}

-----------------------------------------------------------------------------
(* normalizePageURL: the canonical URL of the PAGE takes the place of      *)
(* every link on it.                                                       *)
TargetFirst(url, i) ==
  IF CanonicalOf[url] # None THEN CanonicalOf[url] ELSE LinksOf[url][1]

Target(url, i) == IF CanonicalOf[url] # None THEN CanonicalOf[url] ELSE LinksOf[url][i]

Targets(url) == {Target(url, i) : i \in DOMAIN LinksOf[url]}

InHand(r) == Target(run[r].url, run[r].next)

Crawled == {u \in Urls : u \in Seeds \/ frontier[u] > 0}

(* getUrlMeta of the page: one without a record counts as depth 0.         *)
DepthOf(url) == IF urlmeta[url] = None THEN 0 ELSE urlmeta[url].depth

(* SETNX adds the record unless there is one.                              *)
IsNewAlways(url) == TRUE

IsNew(url) == urlmeta[url] = None

FreshAtPageDepth(depth) == [depth |-> depth, inbound |-> 0]

Fresh(depth) == [depth |-> depth + 1, inbound |-> 0]

Bumped(r) == [run[r].old EXCEPT !.inbound = @ + 1]

(* The end of its context does not stop the goroutine.                     *)
AfterTimeoutStopped(r) == NoRun

AfterTimeout(r) == [run[r] EXCEPT !.live = FALSE, !.clean = FALSE]

Goto(r, stage) == run' = [run EXCEPT ![r].at = stage]

(* The next link, or the end of the run.                                   *)
NextLink(r, clean) ==
  IF run[r].next < Len(LinksOf[run[r].url])
  THEN /\ run' = [run EXCEPT ![r].at = "link", ![r].next = @ + 1, ![r].old = None,
                             ![r].clean = @ /\ clean]
       /\ UNCHANGED parsed
  ELSE /\ run' = [run EXCEPT ![r] = NoRun]
       /\ parsed' = IF run[r].clean /\ clean THEN parsed \union {run[r].url} ELSE parsed

boundVars == <<parses, crashes>>

-----------------------------------------------------------------------------
Start(r, url) ==
  /\ run[r] = NoRun
  /\ url \in {ParsedAs[u] : u \in Crawled}
  /\ parses > 0
  /\ parses' = parses - 1
  /\ run' = [run EXCEPT ![r] = [NoRun EXCEPT !.url = url, !.at = "meta", !.live = TRUE]]
  /\ UNCHANGED <<urlmeta, frontier, published, crashes, cut, parsed>>

Timeout(r) ==
  /\ run[r].live
  /\ run' = [run EXCEPT ![r] = AfterTimeout(r)]
  /\ UNCHANGED <<urlmeta, frontier, published, boundVars, cut, parsed>>

(* GetObject, StoreTextData and getUrlMeta of the page itself; any of them *)
(* may fail, and the run with it.                                          *)
ReadPage(r) ==
  /\ run[r].at = "meta"
  /\ \/ /\ run[r].live
        /\ run' = [run EXCEPT ![r].at = "publish", ![r].depth = DepthOf(run[r].url)]
     \/ run' = [run EXCEPT ![r] = NoRun]
  /\ UNCHANGED <<urlmeta, frontier, published, boundVars, cut, parsed>>

(* AddMsg; when it reports an error, the message may have been added all   *)
(* the same, and the job goes on.                                          *)
Publish(r, added) ==
  LET url == run[r].url IN
  /\ run[r].at = "publish"
  /\ \/ published' = [published EXCEPT ![url] = @ + 1]
     \/ ~added /\ UNCHANGED published
  /\ \/ /\ LinksOf[url] # <<>>
        /\ run' = [run EXCEPT ![r].at = "link", ![r].clean = @ /\ added]
        /\ UNCHANGED parsed
     \/ /\ LinksOf[url] = <<>>
        /\ run' = [run EXCEPT ![r] = NoRun]
        /\ parsed' = IF run[r].clean /\ added THEN parsed \union {url} ELSE parsed
  /\ UNCHANGED <<urlmeta, frontier, boundVars, cut>>

(* SETNX of the record of a new URL.                                       *)
Discover(r) ==
  LET url == InHand(r) IN
  /\ run[r].at = "link" /\ run[r].live
  /\ \/ /\ IsNew(url)
        /\ urlmeta' = [urlmeta EXCEPT ![url] = Fresh(run[r].depth)]
        /\ Goto(r, "enqueue")
     \/ /\ ~IsNew(url)
        /\ Goto(r, "reread")
        /\ UNCHANGED urlmeta
  /\ UNCHANGED <<frontier, published, boundVars, cut, parsed>>

(* A SETNX that reports an error may have added the record.                *)
DiscoverFails(r) ==
  LET url == InHand(r) IN
  /\ run[r].at = "link"
  /\ \/ UNCHANGED <<urlmeta, cut>>
     \/ /\ run[r].live /\ IsNew(url)
        /\ urlmeta' = [urlmeta EXCEPT ![url] = Fresh(run[r].depth)]
        /\ cut' = cut \union {url}
  /\ NextLink(r, FALSE)
  /\ UNCHANGED <<frontier, published, boundVars>>

(* frontier.Enqueue of the crawl job; an error is logged.                  *)
Enqueue(r) ==
  LET url == InHand(r) IN
  /\ run[r].at = "enqueue"
  /\ \/ /\ frontier' = [frontier EXCEPT ![url] = @ + 1]
        /\ UNCHANGED cut
        /\ NextLink(r, TRUE)
     \/ /\ frontier' \in {frontier, [frontier EXCEPT ![url] = @ + 1]}
        /\ cut' = cut \union {url}
        /\ NextLink(r, FALSE)
  /\ UNCHANGED <<urlmeta, published, boundVars>>

(* A known URL: GET ...                                                    *)
Reread(r) ==
  /\ run[r].at = "reread"
  /\ \/ /\ run[r].live
        /\ run' = [run EXCEPT ![r].at = "rewrite", ![r].old = urlmeta[InHand(r)]]
        /\ UNCHANGED parsed
     \/ NextLink(r, FALSE)
  /\ UNCHANGED <<urlmeta, frontier, published, boundVars, cut>>

(* ... and SET, whose error nobody looks at.                               *)
Rewrite(r) ==
  LET url == InHand(r) IN
  /\ run[r].at = "rewrite"
  /\ \/ run[r].live /\ urlmeta' = [urlmeta EXCEPT ![url] = Bumped(r)]
     \/ UNCHANGED urlmeta
  /\ NextLink(r, TRUE)
  /\ UNCHANGED <<frontier, published, boundVars, cut>>

(* The process dies; Redis keeps the records.                              *)
Crash ==
  /\ crashes > 0
  /\ crashes' = crashes - 1
  /\ cut' = cut \union {InHand(r) : r \in {q \in Runs : run[q].at = "enqueue"}}
  /\ run' = [r \in Runs |-> NoRun]
  /\ UNCHANGED <<urlmeta, frontier, published, parses, parsed>>

Next ==
  \/ \E r \in Runs :
       \/ \E url \in Urls : Start(r, url)
       \/ Timeout(r) \/ ReadPage(r)
       \/ \E added \in BOOLEAN : Publish(r, added)
       \/ Discover(r) \/ DiscoverFails(r) \/ Enqueue(r) \/ Reread(r) \/ Rewrite(r)
  \/ Crash

Spec == Init /\ [][Next]_vars

-----------------------------------------------------------------------------
(* The parser puts a URL into the frontier at most once, whatever pages    *)
(* link to it, whatever runs overlap, end too late or are repeated after a *)
(* crash.  (A seed may be there once more: main.go leaves no record.)      *)
FoundOnce == \A u \in Urls : frontier[u] <= 1

(* A URL that is known is in the frontier, or a run is about to put it     *)
(* there, or a failure cut that run off between SETNX and Enqueue, and     *)
(* then nothing ever will.  The end of a context cuts nothing off.         *)
KnownIsQueued ==
  \A u \in Urls :
    urlmeta[u] # None
      => \/ frontier[u] = 1
         \/ \E r \in Runs : run[r].at = "enqueue" /\ InHand(r) = u
         \/ u \in cut

(* Depths are real: a record says 1 only for a target of some page, and    *)
(* n + 1 only for a target of a page at depth n.                           *)
DepthIsJustified ==
  \A u \in Urls :
    urlmeta[u] # None
      => \E p \in Urls : /\ u \in Targets(p)
                         /\ \/ urlmeta[u].depth = 1
                            \/ urlmeta[p] # None /\ urlmeta[u].depth = urlmeta[p].depth + 1

(* When a page was parsed without a failed call, every URL it links to is  *)
(* known to the crawler, however many runs worked on its links at once and *)
(* whatever became of their contexts; but when the page names a canonical  *)
(* URL, that one alone (README.md:122 lists the links of a page among what *)
(* is extracted, without an exception).                                    *)
LinksAreFollowed ==
  \A u \in parsed :
    IF CanonicalOf[u] = None
    THEN \A i \in DOMAIN LinksOf[u] : urlmeta[LinksOf[u][i]] # None
    ELSE LinksOf[u] # <<>> => urlmeta[CanonicalOf[u]] # None
=============================================================================
