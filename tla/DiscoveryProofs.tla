--------------------------- MODULE DiscoveryProofs ---------------------------
(***************************************************************************)
(* Discovery's safety properties, for any set of URLs and links, any       *)
(* number of runs, any number of parses and crashes.  SETNX is what they   *)
(* rest on: the run that adds the record of a URL is the only one that may *)
(* enqueue it, so no two runs hold the same new URL (Alone), the one that  *)
(* holds it finds it not yet enqueued (RunOK), and whatever is enqueued    *)
(* has a record (QueuedIsKnown).                                           *)
(***************************************************************************)
EXTENDS Discovery, TLAPS

LinkStages == {"link", "enqueue", "reread", "rewrite"}

(* What a run may rely on at each stage.                                   *)
RunOK(r) ==
  /\ run[r].at # "idle" => run[r].url \in Urls
  /\ run[r].live => run[r].at # "idle"
  /\ run[r].at \in {"meta", "publish"} => run[r].next = 1
  /\ run[r].at \in LinkStages => run[r].next \in DOMAIN LinksOf[run[r].url]
  /\ run[r].at \in LinkStages \union {"publish"}
       => \/ run[r].depth = 0
          \/ /\ urlmeta[run[r].url] # None
             /\ run[r].depth = urlmeta[run[r].url].depth
  /\ run[r].at = "enqueue" => urlmeta[InHand(r)] # None /\ frontier[InHand(r)] = 0
  /\ run[r].at = "reread" => urlmeta[InHand(r)] # None
  /\ run[r].at = "rewrite" => /\ urlmeta[InHand(r)] # None
                              /\ run[r].old # None
                              /\ run[r].old.depth = urlmeta[InHand(r)].depth

Alone ==
  \A r, s \in Runs :
    run[r].at = "enqueue" /\ run[s].at = "enqueue" /\ InHand(r) = InHand(s) => r = s

QueuedIsKnown == \A u \in Urls : frontier[u] > 0 => urlmeta[u] # None

IInv ==
  /\ TypeOK
  /\ \A r \in Runs : RunOK(r)
  /\ Alone
  /\ QueuedIsKnown
  /\ FoundOnce
  /\ KnownIsQueued
  /\ DepthIsJustified

(* No record is lost, and none changes its depth: DepthIsKept of one step. *)
Kept ==
  \A u \in Urls :
    urlmeta[u] # None => urlmeta'[u] # None /\ urlmeta'[u].depth = urlmeta[u].depth

-----------------------------------------------------------------------------
(* The link in hand is a URL.                                              *)
LEMMA InHandIsUrl ==
  ASSUME TypeOK, NEW r \in Runs, RunOK(r), run[r].at \in LinkStages
  PROVE  /\ run[r].url \in Urls
         /\ InHand(r) \in Urls
         /\ InHand(r) \in Targets(run[r].url)
<1>1. run[r].url \in Urls /\ run[r].next \in DOMAIN LinksOf[run[r].url]
  BY DEF RunOK, LinkStages
<1>2. LinksOf[run[r].url] \in Seq(Urls) /\ CanonicalOf[run[r].url] \in Urls \union {None}
  BY <1>1, UrlAssumption
<1>3. LinksOf[run[r].url][run[r].next] \in Urls
  BY <1>1, <1>2
<1> QED
  BY <1>1, <1>2, <1>3 DEF InHand, Target, Targets

(* The run that takes its next link or ends changes no other run.          *)
LEMMA NextLinkMoves ==
  ASSUME TypeOK, NEW r \in Runs, RunOK(r), run[r].at \in LinkStages,
         NEW clean \in BOOLEAN, NextLink(r, clean)
  PROVE  /\ run' \in [Runs -> RunRecord]
         /\ parsed' \subseteq Urls
         /\ \A s \in Runs \ {r} : run'[s] = run[s]
         /\ run'[r].at \in {"link", "idle"} /\ (run'[r].live => run'[r].at # "idle")
         /\ run'[r].at = "link" => /\ run'[r].url = run[r].url
                                   /\ run'[r].depth = run[r].depth
                                   /\ run'[r].next \in DOMAIN LinksOf[run'[r].url]
<1>1. run[r] \in RunRecord /\ run[r].url \in Urls /\ run[r].next \in DOMAIN LinksOf[run[r].url]
  BY InHandIsUrl DEF TypeOK, RunOK, LinkStages
<1>2. LinksOf[run[r].url] \in Seq(Urls)
  BY <1>1, UrlAssumption
<1>3. CASE run[r].next < Len(LinksOf[run[r].url])
  <2> DEFINE ok == run[r].clean /\ clean
             after == run[r].next + 1
             moved == [run[r] EXCEPT !.at = "link", !.next = after, !.old = None, !.clean = ok]
  <2>1. run' = [run EXCEPT ![r] = moved] /\ parsed' = parsed
    BY <1>3 DEF NextLink, TypeOK
  <2>2. ok \in BOOLEAN /\ after \in Nat /\ after \in DOMAIN LinksOf[run[r].url]
    BY <1>1, <1>2, <1>3 DEF RunRecord
  <2> HIDE DEF ok, after
  <2>3. moved \in RunRecord
    BY <1>1, <2>2 DEF RunRecord, Stages
  <2>4. /\ moved.at = "link"
        /\ moved.url = run[r].url
        /\ moved.depth = run[r].depth
        /\ moved.next = after
    BY <1>1 DEF RunRecord
  <2>5. moved.next \in DOMAIN LinksOf[moved.url]
    BY <2>2, <2>4
  <2> HIDE DEF moved
  <2> QED
    BY <2>1, <2>3, <2>4, <2>5 DEF TypeOK
<1>4. CASE ~(run[r].next < Len(LinksOf[run[r].url]))
  <2>1. run' = [run EXCEPT ![r] = NoRun]
    BY <1>4 DEF NextLink
  <2>2. NoRun \in RunRecord /\ NoRun.at = "idle" /\ ~NoRun.live
    BY DEF NoRun, RunRecord, Stages
  <2>3. parsed' \subseteq Urls
    BY <1>1, <1>4 DEF NextLink, TypeOK
  <2> QED
    BY <2>1, <2>2, <2>3 DEF TypeOK
<1> QED
  BY <1>3, <1>4

(* A run that does not move keeps what it relies on when the records are   *)
(* kept and the URL it is about to enqueue is not enqueued by another.     *)
LEMMA OtherRunKept ==
  ASSUME TypeOK, NEW s \in Runs, RunOK(s), run'[s] = run[s], Kept,
         run[s].at = "enqueue" => frontier'[InHand(s)] = frontier[InHand(s)]
  PROVE  RunOK(s)'
<1>1. InHand(s)' = InHand(s)
  BY DEF InHand, Target
<1>2. run[s].at \in LinkStages => InHand(s) \in Urls
  BY InHandIsUrl
<1>3. run[s].at # "idle" => run[s].url \in Urls
  BY DEF RunOK
<1> QED
  BY <1>1, <1>2, <1>3 DEF RunOK, Kept, LinkStages

(* A run at a new link, or at none, relies on little.                      *)
LEMMA MovedRunOK ==
  ASSUME TypeOK, NEW r \in Runs, RunOK(r), Kept, run[r].at \in LinkStages,
         run'[r].at \in {"link", "idle"}, run'[r].live => run'[r].at # "idle",
         run'[r].at = "link" => /\ run'[r].url = run[r].url
                                /\ run'[r].depth = run[r].depth
                                /\ run'[r].next \in DOMAIN LinksOf[run'[r].url]
  PROVE  RunOK(r)'
BY InHandIsUrl DEF RunOK, Kept, LinkStages

(* Records stay justified when the new ones are.                           *)
LEMMA JustifiedKept ==
  ASSUME DepthIsJustified, Kept,
         \A u \in Urls : urlmeta[u] = None /\ urlmeta'[u] # None
           => \E p \in Urls : /\ u \in Targets(p)
                              /\ \/ urlmeta'[u].depth = 1
                                 \/ urlmeta[p] # None
                                    /\ urlmeta'[u].depth = urlmeta[p].depth + 1
  PROVE  DepthIsJustified'
<1> SUFFICES ASSUME NEW u \in Urls, urlmeta'[u] # None
             PROVE  \E p \in Urls : /\ u \in Targets(p)
                                    /\ \/ urlmeta'[u].depth = 1
                                       \/ urlmeta'[p] # None
                                          /\ urlmeta'[u].depth = urlmeta'[p].depth + 1
  BY DEF DepthIsJustified, Targets, Target
<1>1. CASE urlmeta[u] # None
  <2>1. PICK p \in Urls : /\ u \in Targets(p)
                          /\ \/ urlmeta[u].depth = 1
                             \/ urlmeta[p] # None /\ urlmeta[u].depth = urlmeta[p].depth + 1
    BY <1>1 DEF DepthIsJustified
  <2> QED
    BY <1>1, <2>1 DEF Kept
<1>2. CASE urlmeta[u] = None
  <2>1. PICK p \in Urls : /\ u \in Targets(p)
                          /\ \/ urlmeta'[u].depth = 1
                             \/ urlmeta[p] # None /\ urlmeta'[u].depth = urlmeta[p].depth + 1
    BY <1>2
  <2> QED
    BY <2>1 DEF Kept
<1> QED
  BY <1>1, <1>2

-----------------------------------------------------------------------------
(* A step that adds no record and no job, and neither begins nor ends an   *)
(* enqueueing.                                                             *)
LEMMA QuietStep ==
  ASSUME IInv, TypeOK', NEW r \in Runs, Kept,
         \A u \in Urls : urlmeta'[u] # None => urlmeta[u] # None,
         frontier' = frontier, cut \subseteq cut',
         \A s \in Runs \ {r} : run'[s] = run[s],
         RunOK(r)',
         run'[r].at = "enqueue" <=> run[r].at = "enqueue",
         run[r].at = "enqueue" => InHand(r)' = InHand(r)
  PROVE  IInv'
<1>1. \A s \in Runs \ {r} : RunOK(s)'
  BY OtherRunKept DEF IInv
<1>2. \A s \in Runs \ {r} : InHand(s)' = InHand(s)
  BY DEF InHand, Target
<1>3. Alone'
  BY <1>2 DEF IInv, Alone
<1>4. QueuedIsKnown' /\ FoundOnce'
  BY DEF IInv, QueuedIsKnown, FoundOnce, Kept
<1>5. KnownIsQueued'
  <2> SUFFICES ASSUME NEW u \in Urls, urlmeta'[u] # None, frontier'[u] # 1, u \notin cut'
               PROVE  \E s \in Runs : run'[s].at = "enqueue" /\ InHand(s)' = u
    BY DEF KnownIsQueued
  <2>1. PICK s \in Runs : run[s].at = "enqueue" /\ InHand(s) = u
    BY DEF IInv, KnownIsQueued
  <2> QED
    BY <1>2, <2>1
<1>6. DepthIsJustified'
  BY JustifiedKept DEF IInv
<1> QED
  BY <1>1, <1>3, <1>4, <1>5, <1>6 DEF IInv

(* SETNX of a new URL keeps every record there is.                         *)
LEMMA FreshKept ==
  ASSUME TypeOK, NEW r \in Runs, RunOK(r), run[r].at = "link", IsNew(InHand(r)),
         urlmeta' = [urlmeta EXCEPT ![InHand(r)] = Fresh(run[r].depth)]
  PROVE  /\ Kept
         /\ Fresh(run[r].depth) \in Meta
         /\ urlmeta' \in [Urls -> Meta \union {None}]
         /\ urlmeta'[InHand(r)] = Fresh(run[r].depth)
         /\ urlmeta'[InHand(r)] # None
<1>1. InHand(r) \in Urls
  BY InHandIsUrl DEF LinkStages
<1>2. run[r].depth \in Nat
  BY DEF TypeOK, RunRecord
<1>3. Fresh(run[r].depth) \in Meta
  BY <1>2 DEF Fresh, Meta
<1> QED
  BY <1>1, <1>3, NoneAssumption DEF Kept, IsNew, TypeOK

(* The step that adds a record: the run goes on to enqueue the URL, or the *)
(* URL is one of those cut off.                                            *)
LEMMA RecordStep ==
  ASSUME IInv, TypeOK', NEW r \in Runs, run[r].at = "link", IsNew(InHand(r)),
         urlmeta' = [urlmeta EXCEPT ![InHand(r)] = Fresh(run[r].depth)],
         frontier' = frontier, cut \subseteq cut',
         \A s \in Runs \ {r} : run'[s] = run[s],
         RunOK(r)',
         \/ run'[r].at = "enqueue" /\ InHand(r)' = InHand(r)
         \/ run'[r].at # "enqueue" /\ InHand(r) \in cut'
  PROVE  IInv'
<1>1. /\ Kept
      /\ urlmeta'[InHand(r)] = Fresh(run[r].depth)
  BY FreshKept DEF IInv
<1>2. InHand(r) \in Urls /\ run[r].url \in Urls /\ InHand(r) \in Targets(run[r].url)
  BY InHandIsUrl DEF IInv, LinkStages
<1>3. \A s \in Runs \ {r} : RunOK(s)'
  BY <1>1, OtherRunKept DEF IInv
<1>4. \A s \in Runs \ {r} : InHand(s)' = InHand(s)
  BY DEF InHand, Target
<1>5. \A s \in Runs \ {r} : run[s].at = "enqueue" => InHand(s) # InHand(r)
  BY DEF IInv, RunOK, IsNew
<1>6. Alone'
  <2> SUFFICES ASSUME NEW s \in Runs, NEW q \in Runs, run'[s].at = "enqueue",
                      run'[q].at = "enqueue", InHand(s)' = InHand(q)'
               PROVE  s = q
    BY DEF Alone
  <2>1. CASE s # r /\ q # r
    BY <1>4, <2>1 DEF IInv, Alone
  <2>2. CASE s = r \/ q = r
    BY <1>4, <1>5, <2>2
  <2> QED
    BY <2>1, <2>2
<1>7. QueuedIsKnown' /\ FoundOnce'
  BY <1>1 DEF IInv, QueuedIsKnown, FoundOnce, Kept
<1>8. KnownIsQueued'
  <2> SUFFICES ASSUME NEW u \in Urls, urlmeta'[u] # None, frontier'[u] # 1, u \notin cut'
               PROVE  \E s \in Runs : run'[s].at = "enqueue" /\ InHand(s)' = u
    BY DEF KnownIsQueued
  <2>1. CASE u = InHand(r)
    BY <2>1
  <2>2. CASE u # InHand(r)
    <3>1. urlmeta[u] # None
      BY <1>2, <2>2 DEF IInv, TypeOK
    <3>2. PICK s \in Runs : run[s].at = "enqueue" /\ InHand(s) = u
      BY <3>1 DEF IInv, KnownIsQueued
    <3> QED
      BY <1>4, <3>2
  <2> QED
    BY <2>1, <2>2
<1>9. DepthIsJustified'
  <2>1. ASSUME NEW u \in Urls, urlmeta[u] = None, urlmeta'[u] # None
        PROVE  \E p \in Urls : /\ u \in Targets(p)
                               /\ \/ urlmeta'[u].depth = 1
                                  \/ urlmeta[p] # None
                                     /\ urlmeta'[u].depth = urlmeta[p].depth + 1
    <3>1. u = InHand(r)
      BY <1>2, <2>1 DEF IInv, TypeOK
    <3>2. urlmeta'[u].depth = run[r].depth + 1
      BY <1>1, <3>1 DEF Fresh
    <3>3. \/ run[r].depth = 0
          \/ urlmeta[run[r].url] # None /\ run[r].depth = urlmeta[run[r].url].depth
      BY DEF IInv, RunOK, LinkStages
    <3> QED
      BY <1>2, <3>1, <3>2, <3>3
  <2> QED
    BY <1>1, <2>1, JustifiedKept DEF IInv
<1> QED
  BY <1>3, <1>6, <1>7, <1>8, <1>9 DEF IInv

-----------------------------------------------------------------------------
(* Each action preserves IInv and keeps the records.                       *)
LEMMA StartStep ==
  ASSUME IInv, NEW r \in Runs, NEW url \in Urls, Start(r, url)
  PROVE  IInv' /\ Kept
<1> DEFINE next == [NoRun EXCEPT !.url = url, !.at = "meta", !.live = TRUE]
<1>1. next \in RunRecord /\ next.at = "meta" /\ next.url = url /\ next.next = 1
  BY DEF NoRun, RunRecord, Stages
<1>2. run' = [run EXCEPT ![r] = next] /\ run[r].at = "idle"
  BY DEF Start, NoRun
<1> HIDE DEF next
<1>3. run' \in [Runs -> RunRecord] /\ run'[r] = next /\ \A s \in Runs \ {r} : run'[s] = run[s]
  BY <1>1, <1>2 DEF IInv, TypeOK
<1>4. TypeOK' /\ Kept
  BY <1>3 DEF Start, IInv, TypeOK, Kept
<1>5. RunOK(r)'
  BY <1>1, <1>3 DEF RunOK, LinkStages
<1> QED
  BY <1>1, <1>2, <1>3, <1>4, <1>5, QuietStep DEF Start

LEMMA TimeoutStep ==
  ASSUME IInv, NEW r \in Runs, Timeout(r)
  PROVE  IInv' /\ Kept
<1> DEFINE next == AfterTimeout(r)
<1>1. /\ next \in RunRecord
      /\ next.at = run[r].at /\ next.url = run[r].url /\ next.next = run[r].next
      /\ next.depth = run[r].depth /\ next.old = run[r].old
  BY DEF IInv, TypeOK, RunRecord, AfterTimeout
<1>2. run' = [run EXCEPT ![r] = next]
  BY DEF Timeout
<1> HIDE DEF next
<1>3. run' \in [Runs -> RunRecord] /\ run'[r] = next /\ \A s \in Runs \ {r} : run'[s] = run[s]
  BY <1>1, <1>2 DEF IInv, TypeOK
<1>4. TypeOK' /\ Kept
  BY <1>3 DEF Timeout, boundVars, IInv, TypeOK, Kept
<1>5. InHand(r)' = InHand(r)
  BY <1>1, <1>3 DEF InHand, Target
<1>6. RunOK(r)'
  BY <1>1, <1>3, <1>5 DEF RunOK, IInv, Timeout
<1> QED
  BY <1>1, <1>3, <1>4, <1>5, <1>6, QuietStep DEF Timeout

LEMMA ReadPageStep ==
  ASSUME IInv, NEW r \in Runs, ReadPage(r)
  PROVE  IInv' /\ Kept
<1> DEFINE read == [run[r] EXCEPT !.at = "publish", !.depth = DepthOf(run[r].url)]
<1>1. run[r].url \in Urls
  BY DEF ReadPage, IInv, RunOK
<1>2. /\ DepthOf(run[r].url) \in Nat
      /\ \/ DepthOf(run[r].url) = 0
         \/ /\ urlmeta[run[r].url] # None
            /\ DepthOf(run[r].url) = urlmeta[run[r].url].depth
  BY <1>1 DEF DepthOf, IInv, TypeOK, Meta
<1>3. /\ read \in RunRecord /\ read.at = "publish" /\ read.url = run[r].url
      /\ read.depth = DepthOf(run[r].url) /\ read.next = run[r].next
  BY <1>2 DEF IInv, TypeOK, RunRecord, Stages
<1>4. NoRun \in RunRecord /\ NoRun.at = "idle" /\ ~NoRun.live
  BY DEF NoRun, RunRecord, Stages
<1>5. PICK next \in {read, NoRun} : run' = [run EXCEPT ![r] = next]
  BY DEF ReadPage, IInv, TypeOK
<1> HIDE DEF read
<1>6. run' \in [Runs -> RunRecord] /\ run'[r] = next /\ \A s \in Runs \ {r} : run'[s] = run[s]
  BY <1>3, <1>4, <1>5 DEF IInv, TypeOK
<1>7. TypeOK' /\ Kept
  BY <1>6 DEF ReadPage, boundVars, IInv, TypeOK, Kept
<1>8. RunOK(r)'
  BY <1>1, <1>2, <1>3, <1>4, <1>6 DEF RunOK, LinkStages, ReadPage, IInv
<1> QED
  BY <1>3, <1>4, <1>6, <1>7, <1>8, QuietStep DEF ReadPage

LEMMA PublishStep ==
  ASSUME IInv, NEW r \in Runs, NEW added \in BOOLEAN, Publish(r, added)
  PROVE  IInv' /\ Kept
<1> DEFINE ok == run[r].clean /\ added
           next == [run[r] EXCEPT !.at = "link", !.clean = ok]
<1>1. run[r].url \in Urls /\ run[r] \in RunRecord /\ run[r].at = "publish"
  BY DEF Publish, IInv, RunOK, TypeOK
<1>2. ok \in BOOLEAN
  OBVIOUS
<1>3. LinksOf[run[r].url] # <<>>
        => run' = [run EXCEPT ![r] = next] /\ parsed' = parsed
  BY DEF Publish, IInv, TypeOK
<1> HIDE DEF ok
<1>4. /\ next \in RunRecord /\ next.at = "link" /\ next.url = run[r].url
      /\ next.depth = run[r].depth
      /\ next.next = run[r].next
  BY <1>1, <1>2 DEF RunRecord, Stages
<1>5. NoRun \in RunRecord /\ NoRun.at = "idle" /\ ~NoRun.live
  BY DEF NoRun, RunRecord, Stages
<1> HIDE DEF next
<1>6. published' \in [Urls -> Nat]
  BY <1>1 DEF Publish, IInv, TypeOK
<1>7. PICK after \in {next, NoRun} :
        /\ run' = [run EXCEPT ![r] = after]
        /\ after = next => LinksOf[run[r].url] # <<>>
  BY <1>3, <1>4, <1>5 DEF Publish
<1>8. run' \in [Runs -> RunRecord] /\ run'[r] = after /\ \A s \in Runs \ {r} : run'[s] = run[s]
  BY <1>4, <1>5, <1>7 DEF IInv, TypeOK
<1>9. parsed' \subseteq Urls
  BY <1>1, <1>3 DEF Publish, IInv, TypeOK
<1>10. TypeOK' /\ Kept
  BY <1>6, <1>8, <1>9 DEF Publish, boundVars, IInv, TypeOK, Kept
<1>11. LinksOf[run[r].url] # <<>> => 1 \in DOMAIN LinksOf[run[r].url]
  BY <1>1, UrlAssumption
<1>12. RunOK(r)'
  <2>1. CASE after = NoRun
    BY <1>5, <1>8, <2>1 DEF RunOK, LinkStages
  <2>2. CASE after = next
    <3>1. run[r].next = 1 /\ LinksOf[run[r].url] # <<>>
      BY <1>1, <1>7, <2>2 DEF IInv, RunOK
    <3> QED
      BY <1>1, <1>4, <1>8, <1>11, <2>2, <3>1 DEF RunOK, LinkStages, IInv, Publish
  <2> QED
    BY <2>1, <2>2
<1> QED
  BY <1>1, <1>4, <1>5, <1>8, <1>10, <1>12, QuietStep DEF Publish

LEMMA DiscoverStep ==
  ASSUME IInv, NEW r \in Runs, Discover(r)
  PROVE  IInv' /\ Kept
<1>1. /\ InHand(r) \in Urls /\ run[r].url \in Urls /\ run[r] \in RunRecord
      /\ run[r].at = "link" /\ RunOK(r) /\ TypeOK
  BY InHandIsUrl DEF Discover, IInv, LinkStages, TypeOK
<1>2. ASSUME NEW stage \in {"enqueue", "reread"}, Goto(r, stage)
      PROVE  /\ run' \in [Runs -> RunRecord]
             /\ \A s \in Runs \ {r} : run'[s] = run[s]
             /\ run'[r].at = stage /\ run'[r].url = run[r].url
             /\ run'[r].next = run[r].next /\ run'[r].depth = run[r].depth
             /\ InHand(r)' = InHand(r)
  <2> DEFINE next == [run[r] EXCEPT !.at = stage]
  <2>1. /\ next \in RunRecord /\ next.at = stage /\ next.url = run[r].url
        /\ next.next = run[r].next /\ next.depth = run[r].depth
    BY <1>1 DEF RunRecord, Stages
  <2>2. run' = [run EXCEPT ![r] = next]
    BY <1>1, <1>2 DEF Goto, TypeOK
  <2> HIDE DEF next
  <2> QED
    BY <1>1, <2>1, <2>2 DEF TypeOK, InHand, Target
<1>3. CASE IsNew(InHand(r)) /\ Goto(r, "enqueue")
           /\ urlmeta' = [urlmeta EXCEPT ![InHand(r)] = Fresh(run[r].depth)]
  <2>1. /\ Kept
        /\ urlmeta' \in [Urls -> Meta \union {None}]
        /\ urlmeta'[InHand(r)] # None
    BY <1>1, <1>3, FreshKept
  <2>2. TypeOK'
    BY <1>1, <1>2, <1>3, <2>1 DEF Discover, boundVars, TypeOK
  <2>3. frontier[InHand(r)] = 0
    BY <1>1, <1>3 DEF IInv, QueuedIsKnown, IsNew, TypeOK
  <2>4. RunOK(r)'
    BY <1>1, <1>2, <1>3, <2>1, <2>3 DEF RunOK, LinkStages, Kept, Discover
  <2> QED
    BY <1>1, <1>2, <1>3, <2>1, <2>2, <2>4, RecordStep DEF Discover
<1>4. CASE ~IsNew(InHand(r)) /\ Goto(r, "reread") /\ urlmeta' = urlmeta
  <2>1. Kept
    BY <1>4 DEF Kept
  <2>2. TypeOK'
    BY <1>1, <1>2, <1>4 DEF Discover, boundVars, TypeOK
  <2>3. RunOK(r)'
    BY <1>1, <1>2, <1>4 DEF RunOK, LinkStages, IsNew
  <2> QED
    BY <1>1, <1>2, <1>4, <2>1, <2>2, <2>3, QuietStep DEF Discover
<1> QED
  BY <1>3, <1>4 DEF Discover

LEMMA DiscoverFailsStep ==
  ASSUME IInv, NEW r \in Runs, DiscoverFails(r)
  PROVE  IInv' /\ Kept
<1>1. /\ InHand(r) \in Urls
      /\ run[r].at = "link" /\ run[r].at \in LinkStages /\ RunOK(r) /\ TypeOK
  BY InHandIsUrl DEF DiscoverFails, IInv, LinkStages
<1>2. /\ run' \in [Runs -> RunRecord] /\ parsed' \subseteq Urls
      /\ \A s \in Runs \ {r} : run'[s] = run[s]
      /\ run'[r].at \in {"link", "idle"} /\ (run'[r].live => run'[r].at # "idle")
      /\ run'[r].at = "link" => /\ run'[r].url = run[r].url
                                /\ run'[r].depth = run[r].depth
                                /\ run'[r].next \in DOMAIN LinksOf[run'[r].url]
  BY <1>1, NextLinkMoves DEF DiscoverFails
<1>3. CASE urlmeta' = urlmeta /\ cut' = cut
  <2>1. TypeOK' /\ Kept
    BY <1>1, <1>2, <1>3 DEF DiscoverFails, boundVars, TypeOK, Kept
  <2>2. RunOK(r)'
    BY <1>1, <1>2, <2>1, MovedRunOK
  <2> QED
    BY <1>1, <1>2, <1>3, <2>1, <2>2, QuietStep DEF DiscoverFails
<1>4. CASE /\ IsNew(InHand(r)) /\ cut' = cut \union {InHand(r)}
           /\ urlmeta' = [urlmeta EXCEPT ![InHand(r)] = Fresh(run[r].depth)]
  <2>1. Kept /\ urlmeta' \in [Urls -> Meta \union {None}]
    BY <1>1, <1>4, FreshKept
  <2>2. TypeOK'
    BY <1>1, <1>2, <1>4, <2>1 DEF DiscoverFails, boundVars, TypeOK
  <2>3. RunOK(r)'
    BY <1>1, <1>2, <2>1, MovedRunOK
  <2> QED
    BY <1>1, <1>2, <1>4, <2>1, <2>2, <2>3, RecordStep DEF DiscoverFails
<1> QED
  BY <1>3, <1>4 DEF DiscoverFails

LEMMA EnqueueStep ==
  ASSUME IInv, NEW r \in Runs, Enqueue(r)
  PROVE  IInv' /\ Kept
<1> DEFINE url == InHand(r)
<1>1. /\ url \in Urls
      /\ run[r].at = "enqueue" /\ run[r].at \in LinkStages /\ RunOK(r) /\ TypeOK
  BY InHandIsUrl DEF Enqueue, IInv, LinkStages
<1>2. frontier[url] = 0 /\ urlmeta[url] # None
  BY <1>1 DEF RunOK
<1>3. /\ run' \in [Runs -> RunRecord] /\ parsed' \subseteq Urls
      /\ \A s \in Runs \ {r} : run'[s] = run[s]
      /\ run'[r].at \in {"link", "idle"} /\ (run'[r].live => run'[r].at # "idle")
      /\ run'[r].at = "link" => /\ run'[r].url = run[r].url
                                /\ run'[r].depth = run[r].depth
                                /\ run'[r].next \in DOMAIN LinksOf[run'[r].url]
  BY <1>1, NextLinkMoves DEF Enqueue
<1>4. /\ frontier' \in {frontier, [frontier EXCEPT ![url] = @ + 1]}
      /\ cut \subseteq cut' /\ cut' \subseteq cut \union {url}
      /\ frontier'[url] = 1 \/ url \in cut'
  <2>1. CASE frontier' = [frontier EXCEPT ![url] = @ + 1] /\ cut' = cut
    <3>1. frontier'[url] = frontier[url] + 1
      BY <1>1, <2>1 DEF TypeOK
    <3> QED
      BY <1>2, <2>1, <3>1
  <2>2. CASE /\ frontier' \in {frontier, [frontier EXCEPT ![url] = @ + 1]}
             /\ cut' = cut \union {url}
    BY <2>2
  <2> QED
    BY <2>1, <2>2 DEF Enqueue
<1> HIDE DEF url
<1>5. frontier'[url] \in {0, 1} /\ \A u \in Urls \ {url} : frontier'[u] = frontier[u]
  BY <1>1, <1>2, <1>4 DEF TypeOK
<1>6. frontier' \in [Urls -> Nat]
  BY <1>1, <1>4 DEF TypeOK
<1>7. TypeOK' /\ Kept
  BY <1>1, <1>3, <1>4, <1>6 DEF Enqueue, boundVars, TypeOK, Kept
<1>8. RunOK(r)'
  BY <1>1, <1>3, <1>7, MovedRunOK
<1>9. \A s \in Runs \ {r} : run[s].at = "enqueue" => InHand(s) \in Urls \ {url}
  BY <1>1, InHandIsUrl DEF IInv, Alone, LinkStages, url
<1>10. \A s \in Runs \ {r} : RunOK(s)'
  BY <1>3, <1>5, <1>7, <1>9, OtherRunKept DEF IInv
<1>11. \A s \in Runs \ {r} : InHand(s)' = InHand(s)
  BY <1>3 DEF InHand, Target
<1>12. Alone'
  BY <1>3, <1>11 DEF IInv, Alone
<1>13. QueuedIsKnown' /\ FoundOnce'
  BY <1>2, <1>5, <1>7 DEF IInv, QueuedIsKnown, FoundOnce, Kept
<1>14. KnownIsQueued'
  <2> SUFFICES ASSUME NEW u \in Urls, urlmeta'[u] # None, frontier'[u] # 1, u \notin cut'
               PROVE  \E s \in Runs : run'[s].at = "enqueue" /\ InHand(s)' = u
    BY DEF KnownIsQueued
  <2>1. u # url
    BY <1>4
  <2>2. urlmeta[u] # None /\ frontier[u] # 1 /\ u \notin cut
    BY <1>4, <1>5, <2>1 DEF Enqueue
  <2>3. PICK s \in Runs : run[s].at = "enqueue" /\ InHand(s) = u
    BY <2>2 DEF IInv, KnownIsQueued
  <2> QED
    BY <1>3, <1>11, <2>1, <2>3 DEF url
<1>15. DepthIsJustified'
  BY <1>7, JustifiedKept DEF IInv, Enqueue
<1> QED
  BY <1>7, <1>8, <1>10, <1>12, <1>13, <1>14, <1>15 DEF IInv

LEMMA RereadStep ==
  ASSUME IInv, NEW r \in Runs, Reread(r)
  PROVE  IInv' /\ Kept
<1>1. /\ InHand(r) \in Urls /\ run[r].url \in Urls /\ run[r] \in RunRecord
      /\ run[r].at = "reread" /\ run[r].at \in LinkStages /\ RunOK(r) /\ TypeOK
  BY InHandIsUrl DEF Reread, IInv, LinkStages, TypeOK
<1>2. urlmeta[InHand(r)] \in Meta /\ urlmeta[InHand(r)] # None
  BY <1>1 DEF RunOK, TypeOK
<1>3. CASE /\ run' = [run EXCEPT ![r].at = "rewrite", ![r].old = urlmeta[InHand(r)]]
           /\ parsed' = parsed
  <2> DEFINE next == [run[r] EXCEPT !.at = "rewrite", !.old = urlmeta[InHand(r)]]
  <2>1. /\ next \in RunRecord /\ next.at = "rewrite" /\ next.url = run[r].url
        /\ next.next = run[r].next /\ next.depth = run[r].depth
        /\ next.old = urlmeta[InHand(r)]
    BY <1>1, <1>2 DEF RunRecord, Stages
  <2>2. run' = [run EXCEPT ![r] = next]
    BY <1>1, <1>3 DEF TypeOK
  <2> HIDE DEF next
  <2>3. run' \in [Runs -> RunRecord] /\ run'[r] = next /\ \A s \in Runs \ {r} : run'[s] = run[s]
    BY <1>1, <2>1, <2>2 DEF TypeOK
  <2>4. TypeOK' /\ Kept
    BY <1>1, <1>3, <2>3 DEF Reread, boundVars, TypeOK, Kept
  <2>5. InHand(r)' = InHand(r)
    BY <2>1, <2>3 DEF InHand, Target
  <2>6. RunOK(r)'
    BY <1>1, <1>2, <2>1, <2>3, <2>5 DEF RunOK, LinkStages, Reread
  <2> QED
    BY <1>1, <2>1, <2>3, <2>4, <2>6, QuietStep DEF Reread
<1>4. CASE NextLink(r, FALSE)
  <2>1. /\ run' \in [Runs -> RunRecord] /\ parsed' \subseteq Urls
        /\ \A s \in Runs \ {r} : run'[s] = run[s]
        /\ run'[r].at \in {"link", "idle"} /\ (run'[r].live => run'[r].at # "idle")
        /\ run'[r].at = "link" => /\ run'[r].url = run[r].url
                                  /\ run'[r].depth = run[r].depth
                                  /\ run'[r].next \in DOMAIN LinksOf[run'[r].url]
    BY <1>1, <1>4, NextLinkMoves
  <2>2. TypeOK' /\ Kept
    BY <1>1, <2>1 DEF Reread, boundVars, TypeOK, Kept
  <2>3. RunOK(r)'
    BY <1>1, <2>1, <2>2, MovedRunOK
  <2> QED
    BY <1>1, <2>1, <2>2, <2>3, QuietStep DEF Reread
<1> QED
  BY <1>3, <1>4 DEF Reread

LEMMA RewriteStep ==
  ASSUME IInv, NEW r \in Runs, Rewrite(r)
  PROVE  IInv' /\ Kept
<1> DEFINE url == InHand(r)
<1>1. /\ url \in Urls /\ run[r] \in RunRecord
      /\ run[r].at = "rewrite" /\ run[r].at \in LinkStages /\ RunOK(r) /\ TypeOK
  BY InHandIsUrl DEF Rewrite, IInv, LinkStages, TypeOK
<1>2. /\ urlmeta[url] # None
      /\ run[r].old \in Meta
      /\ run[r].old.depth = urlmeta[url].depth
  BY <1>1 DEF RunOK, RunRecord
<1>3. Bumped(r) \in Meta /\ Bumped(r).depth = urlmeta[url].depth /\ Bumped(r) # None
  <2> DEFINE more == run[r].old.inbound + 1
  <2>1. more \in Nat
    BY <1>2 DEF Meta
  <2>2. Bumped(r) = [run[r].old EXCEPT !.inbound = more]
    BY DEF Bumped
  <2> HIDE DEF more
  <2> QED
    BY <1>2, <2>1, <2>2, NoneAssumption DEF Meta
<1>4. urlmeta' \in {urlmeta, [urlmeta EXCEPT ![url] = Bumped(r)]}
  BY DEF Rewrite
<1> HIDE DEF url
<1>5. /\ urlmeta' \in [Urls -> Meta \union {None}]
      /\ Kept
      /\ \A u \in Urls : urlmeta'[u] # None => urlmeta[u] # None
  BY <1>1, <1>2, <1>3, <1>4 DEF TypeOK, Kept
<1>6. /\ run' \in [Runs -> RunRecord] /\ parsed' \subseteq Urls
      /\ \A s \in Runs \ {r} : run'[s] = run[s]
      /\ run'[r].at \in {"link", "idle"} /\ (run'[r].live => run'[r].at # "idle")
      /\ run'[r].at = "link" => /\ run'[r].url = run[r].url
                                /\ run'[r].depth = run[r].depth
                                /\ run'[r].next \in DOMAIN LinksOf[run'[r].url]
  BY <1>1, NextLinkMoves DEF Rewrite
<1>7. TypeOK'
  BY <1>1, <1>5, <1>6 DEF Rewrite, boundVars, TypeOK
<1>8. RunOK(r)'
  BY <1>1, <1>5, <1>6, MovedRunOK
<1> QED
  BY <1>1, <1>5, <1>6, <1>7, <1>8, QuietStep DEF Rewrite

(* A crash ends every run: a URL about to be enqueued is one of those cut. *)
LEMMA CrashStep ==
  ASSUME IInv, Crash
  PROVE  IInv' /\ Kept
<1>1. NoRun \in RunRecord /\ NoRun.at = "idle" /\ ~NoRun.live
  BY DEF NoRun, RunRecord, Stages
<1>2. \A r \in Runs : run'[r] = NoRun
  BY DEF Crash
<1>3. \A r \in Runs : run[r].at = "enqueue" => InHand(r) \in cut' /\ InHand(r) \in Urls
  BY InHandIsUrl DEF Crash, IInv, LinkStages
<1>4. TypeOK' /\ Kept
  <2>1. run' \in [Runs -> RunRecord]
    BY <1>1 DEF Crash
  <2>2. cut' \subseteq Urls
    BY <1>3 DEF Crash, IInv, TypeOK
  <2> QED
    BY <2>1, <2>2 DEF Crash, IInv, TypeOK, Kept
<1>5. \A r \in Runs : RunOK(r)'
  BY <1>1, <1>2 DEF RunOK, LinkStages
<1>6. Alone'
  BY <1>1, <1>2 DEF Alone
<1>7. QueuedIsKnown' /\ FoundOnce'
  BY DEF Crash, IInv, QueuedIsKnown, FoundOnce
<1>8. KnownIsQueued'
  <2> SUFFICES ASSUME NEW u \in Urls, urlmeta'[u] # None, frontier'[u] # 1
               PROVE  u \in cut'
    BY DEF KnownIsQueued
  <2>1. \/ \E r \in Runs : run[r].at = "enqueue" /\ InHand(r) = u
        \/ u \in cut
    BY DEF Crash, IInv, KnownIsQueued
  <2> QED
    BY <1>3, <2>1 DEF Crash
<1>9. DepthIsJustified'
  BY <1>4, JustifiedKept DEF IInv, Crash
<1> QED
  BY <1>4, <1>5, <1>6, <1>7, <1>8, <1>9 DEF IInv

-----------------------------------------------------------------------------
LEMMA StutterStep ==
  ASSUME IInv, UNCHANGED vars
  PROVE  IInv' /\ Kept
<1>1. \A r \in Runs : InHand(r)' = InHand(r)
  BY DEF vars, InHand, Target
<1>2. TypeOK' /\ Kept
  BY DEF IInv, TypeOK, vars, Kept
<1>3. \A r \in Runs : RunOK(r)'
  BY <1>2, OtherRunKept DEF IInv, vars
<1>4. Alone' /\ KnownIsQueued'
  BY <1>1 DEF IInv, Alone, KnownIsQueued, vars
<1>5. QueuedIsKnown' /\ FoundOnce'
  BY DEF IInv, QueuedIsKnown, FoundOnce, vars
<1>6. DepthIsJustified'
  BY <1>2, JustifiedKept DEF IInv, vars
<1> QED
  BY <1>2, <1>3, <1>4, <1>5, <1>6 DEF IInv

LEMMA EveryStep ==
  ASSUME IInv, [Next]_vars
  PROVE  IInv' /\ Kept
<1>1. CASE UNCHANGED vars
  BY <1>1, StutterStep
<1>2. ASSUME NEW r \in Runs, NEW url \in Urls, Start(r, url)
      PROVE  IInv' /\ Kept
  BY <1>2, StartStep
<1>3. ASSUME NEW r \in Runs, Timeout(r) PROVE IInv' /\ Kept
  BY <1>3, TimeoutStep
<1>4. ASSUME NEW r \in Runs, ReadPage(r) PROVE IInv' /\ Kept
  BY <1>4, ReadPageStep
<1>5. ASSUME NEW r \in Runs, NEW added \in BOOLEAN, Publish(r, added)
      PROVE  IInv' /\ Kept
  BY <1>5, PublishStep
<1>6. ASSUME NEW r \in Runs, Discover(r) PROVE IInv' /\ Kept
  BY <1>6, DiscoverStep
<1>7. ASSUME NEW r \in Runs, DiscoverFails(r) PROVE IInv' /\ Kept
  BY <1>7, DiscoverFailsStep
<1>8. ASSUME NEW r \in Runs, Enqueue(r) PROVE IInv' /\ Kept
  BY <1>8, EnqueueStep
<1>9. ASSUME NEW r \in Runs, Reread(r) PROVE IInv' /\ Kept
  BY <1>9, RereadStep
<1>10. ASSUME NEW r \in Runs, Rewrite(r) PROVE IInv' /\ Kept
  BY <1>10, RewriteStep
<1>11. CASE Crash
  BY <1>11, CrashStep
<1> QED
  BY <1>1, <1>2, <1>3, <1>4, <1>5, <1>6, <1>7, <1>8, <1>9, <1>10, <1>11 DEF Next

LEMMA InitIInv ==
  ASSUME Init
  PROVE  IInv
<1>1. NoRun \in RunRecord /\ NoRun.at = "idle" /\ ~NoRun.live
  BY DEF NoRun, RunRecord, Stages
<1>2. TypeOK
  BY <1>1, BoundAssumption DEF Init, TypeOK
<1>3. \A r \in Runs : RunOK(r)
  BY <1>1 DEF Init, RunOK, LinkStages
<1> QED
  BY <1>1, <1>2, <1>3 DEF Init, IInv, Alone, QueuedIsKnown, FoundOnce, KnownIsQueued,
                         DepthIsJustified

(* IInv holds in every reachable state.                                    *)
THEOREM IInvHolds == Spec => []IInv
<1>1. Init => IInv
  BY InitIInv
<1>2. IInv /\ [Next]_vars => IInv'
  BY EveryStep
<1> QED
  BY <1>1, <1>2, PTL DEF Spec

(* The variables keep their types.                                         *)
THEOREM TypeCorrect == Spec => []TypeOK
<1>1. IInv => TypeOK
  BY DEF IInv
<1> QED
  BY <1>1, IInvHolds, PTL

(* The parser puts a URL into the frontier at most once: no two runs can   *)
(* win the SETNX of one URL.                                               *)
THEOREM FoundOnceHolds == Spec => []FoundOnce
<1>1. IInv => FoundOnce
  BY DEF IInv
<1> QED
  BY <1>1, IInvHolds, PTL

(* A known URL is enqueued, about to be, or was cut off by a failure       *)
(* between the two calls; the end of a context is not such a failure.      *)
THEOREM KnownIsQueuedHolds == Spec => []KnownIsQueued
<1>1. IInv => KnownIsQueued
  BY DEF IInv
<1> QED
  BY <1>1, IInvHolds, PTL

(* Every record's depth is one more than that of a page that links to it.  *)
THEOREM DepthIsJustifiedHolds == Spec => []DepthIsJustified
<1>1. IInv => DepthIsJustified
  BY DEF IInv
<1> QED
  BY <1>1, IInvHolds, PTL

(* Two runs may raise InboundLinks of one record at once and lose one      *)
(* count of the two, or set it back.  They never forget the URL or change  *)
(* its depth.                                                              *)
DepthIsKept ==
  [][\A u \in Urls :
       urlmeta[u] # None
         => urlmeta'[u] # None /\ urlmeta'[u].depth = urlmeta[u].depth]_vars

(* The read and the write of a known record, two calls, may interleave     *)
(* with another run's: the depth survives.                                 *)
THEOREM DepthIsKeptHolds == Spec => DepthIsKept
<1>1. IInv /\ [Next]_vars
        => [\A u \in Urls :
              urlmeta[u] # None
                => urlmeta'[u] # None /\ urlmeta'[u].depth = urlmeta[u].depth]_vars
  BY EveryStep DEF Kept
<1> QED
  BY <1>1, IInvHolds, PTL DEF Spec, DepthIsKept

-----------------------------------------------------------------------------
(* A run without a failed call has left no link behind unknown.            *)
LinksBehind(r) ==
  run[r].at # "idle" /\ run[r].clean
    => \A i \in DOMAIN LinksOf[run[r].url] :
         i < run[r].next => urlmeta[Target(run[r].url, i)] # None

Followed ==
  \A u \in parsed : \A i \in DOMAIN LinksOf[u] : urlmeta[Target(u, i)] # None

FInv == IInv /\ Followed /\ \A r \in Runs : LinksBehind(r)

LEMMA TargetIsUrl ==
  ASSUME NEW u \in Urls, NEW i \in DOMAIN LinksOf[u]
  PROVE  Target(u, i) \in Urls
<1>1. LinksOf[u] \in Seq(Urls) /\ CanonicalOf[u] \in Urls \union {None}
  BY UrlAssumption
<1> QED
  BY <1>1 DEF Target

LEMMA FollowedKept ==
  ASSUME IInv, Followed, Kept, parsed' = parsed
  PROVE  Followed'
<1>1. parsed \subseteq Urls
  BY DEF IInv, TypeOK
<1>2. ASSUME NEW u \in parsed, NEW i \in DOMAIN LinksOf[u]
      PROVE  urlmeta'[Target(u, i)] # None
  BY <1>1, <1>2, TargetIsUrl DEF Followed, Kept
<1> QED
  BY <1>2 DEF Followed, Target

LEMMA LinksBehindKept ==
  ASSUME IInv, Kept, NEW s \in Runs, LinksBehind(s),
         run'[s].at # "idle" /\ run'[s].clean
           => /\ run[s].at # "idle" /\ run[s].clean
              /\ run'[s].url = run[s].url /\ run'[s].next = run[s].next
  PROVE  LinksBehind(s)'
<1>1. SUFFICES ASSUME run'[s].at # "idle", run'[s].clean,
                      NEW i \in DOMAIN LinksOf[run[s].url], i < run[s].next
               PROVE  urlmeta'[Target(run[s].url, i)] # None
  BY DEF LinksBehind, Target
<1>2. run[s].url \in Urls
  BY <1>1 DEF IInv, RunOK
<1>3. urlmeta[Target(run[s].url, i)] # None
  BY <1>1 DEF LinksBehind
<1> QED
  BY <1>1, <1>2, <1>3, TargetIsUrl DEF Kept

(* The end of the work on one link, known by now unless a call failed.     *)
LEMMA NextLinkFollows ==
  ASSUME FInv, Kept, NEW r \in Runs, run[r].at \in LinkStages,
         NEW clean \in BOOLEAN, NextLink(r, clean), clean => urlmeta[InHand(r)] # None
  PROVE  Followed' /\ LinksBehind(r)'
<1> DEFINE url == run[r].url
           n == run[r].next
<1>1. /\ run[r] \in RunRecord /\ url \in Urls /\ n \in DOMAIN LinksOf[url] /\ n \in Nat
      /\ run[r].at # "idle"
  BY InHandIsUrl DEF FInv, IInv, TypeOK, RunOK, RunRecord, LinkStages
<1>2. LinksOf[url] \in Seq(Urls)
  BY <1>1, UrlAssumption
<1>3. ASSUME run[r].clean, clean, NEW i \in DOMAIN LinksOf[url], i <= n
      PROVE  urlmeta'[Target(url, i)] # None
  <2>1. i \in Nat
    BY <1>2, <1>3
  <2>2. CASE i = n
    BY <1>1, <1>3, <2>2, TargetIsUrl DEF InHand, Kept
  <2>3. CASE i < n
    BY <1>1, <1>3, <2>3, TargetIsUrl DEF FInv, LinksBehind, Kept
  <2> QED
    BY <1>1, <1>3, <2>1, <2>2, <2>3
<1>4. CASE n < Len(LinksOf[url])
  <2> DEFINE ok == run[r].clean /\ clean
             moved == [run[r] EXCEPT !.at = "link", !.next = n + 1, !.old = None, !.clean = ok]
  <2>1. run' = [run EXCEPT ![r] = moved] /\ parsed' = parsed
    BY <1>4 DEF NextLink, FInv, IInv, TypeOK
  <2>2. moved.url = url /\ moved.next = n + 1 /\ moved.clean = ok
    BY <1>1 DEF RunRecord
  <2> HIDE DEF moved
  <2>3. run'[r] = moved
    BY <2>1 DEF FInv, IInv, TypeOK
  <2>4. ASSUME ok, NEW i \in DOMAIN LinksOf[url], i < n + 1
        PROVE  urlmeta'[Target(url, i)] # None
    <3>1. i \in Nat /\ i <= n
      BY <1>1, <1>2, <2>4
    <3> QED
      BY <1>3, <2>4, <3>1
  <2>5. LinksBehind(r)'
    BY <2>2, <2>3, <2>4 DEF LinksBehind, Target
  <2> QED
    BY <2>1, <2>5, FollowedKept DEF FInv
<1>5. CASE ~(n < Len(LinksOf[url]))
  <2>1. /\ run' = [run EXCEPT ![r] = NoRun]
        /\ parsed' = IF run[r].clean /\ clean THEN parsed \union {url} ELSE parsed
    BY <1>5 DEF NextLink
  <2>2. LinksBehind(r)'
    BY <2>1 DEF LinksBehind, NoRun, FInv, IInv, TypeOK
  <2>3. CASE ~(run[r].clean /\ clean)
    BY <2>1, <2>2, <2>3, FollowedKept DEF FInv
  <2>4. CASE run[r].clean /\ clean
    <3>1. \A i \in DOMAIN LinksOf[url] : i <= n
      BY <1>1, <1>2, <1>5
    <3>2. \A i \in DOMAIN LinksOf[url] : urlmeta'[Target(url, i)] # None
      BY <1>3, <2>4, <3>1
    <3>3. ASSUME NEW u \in parsed, NEW i \in DOMAIN LinksOf[u]
          PROVE  urlmeta'[Target(u, i)] # None
      BY TargetIsUrl, <3>3 DEF FInv, IInv, TypeOK, Followed, Kept
    <3> QED
      BY <2>1, <2>2, <2>4, <3>2, <3>3 DEF Followed, Target
  <2> QED
    BY <2>3, <2>4
<1> QED
  BY <1>4, <1>5

LEMMA NextLinkStep ==
  ASSUME FInv, Kept, NEW r \in Runs, run[r].at \in LinkStages,
         NEW clean \in BOOLEAN, NextLink(r, clean), clean => urlmeta[InHand(r)] # None
  PROVE  Followed' /\ \A s \in Runs : LinksBehind(s)'
<1>1. \A s \in Runs \ {r} : run'[s] = run[s]
  BY NextLinkMoves DEF FInv, IInv
<1>2. \A s \in Runs \ {r} : LinksBehind(s)'
  BY <1>1, LinksBehindKept DEF FInv
<1> QED
  BY <1>2, NextLinkFollows

(* The steps that leave the link in hand where it is.                      *)
LEMMA SameLinkStep ==
  ASSUME FInv, Kept, parsed' = parsed,
         \A s \in Runs :
           run'[s].at # "idle" /\ run'[s].clean
             => /\ run[s].at # "idle" /\ run[s].clean
                /\ run'[s].url = run[s].url /\ run'[s].next = run[s].next
  PROVE  Followed' /\ \A s \in Runs : LinksBehind(s)'
BY FollowedKept, LinksBehindKept DEF FInv

LEMMA BeginFollows ==
  ASSUME FInv, Kept, NEW r \in Runs, NEW url \in Urls, Start(r, url)
  PROVE  Followed' /\ \A s \in Runs : LinksBehind(s)'
<1> DEFINE new == [NoRun EXCEPT !.url = url, !.at = "meta", !.live = TRUE]
<1>1. run' = [run EXCEPT ![r] = new] /\ parsed' = parsed
  BY DEF Start
<1>2. new.url = url /\ new.next = 1
  BY DEF NoRun
<1> HIDE DEF new
<1>3. run'[r] = new /\ \A s \in Runs \ {r} : run'[s] = run[s]
  BY <1>1 DEF FInv, IInv, TypeOK
<1>4. LinksOf[url] \in Seq(Urls)
  BY UrlAssumption
<1>5. LinksBehind(r)'
  BY <1>2, <1>3, <1>4 DEF LinksBehind
<1>6. \A s \in Runs \ {r} : LinksBehind(s)'
  BY <1>3, LinksBehindKept DEF FInv
<1> QED
  BY <1>1, <1>5, <1>6, FollowedKept DEF FInv

(* The message to the indexer comes before the first link; a page without  *)
(* links is done.                                                          *)
LEMMA PublishFollows ==
  ASSUME FInv, Kept, NEW r \in Runs, NEW added \in BOOLEAN, Publish(r, added)
  PROVE  Followed' /\ \A s \in Runs : LinksBehind(s)'
<1>1. run[r] \in RunRecord /\ run[r].at = "publish" /\ run[r].url \in Urls /\ run[r].next = 1
  BY DEF Publish, FInv, IInv, TypeOK, RunOK
<1>2. CASE LinksOf[run[r].url] # <<>>
  <2> DEFINE ok == run[r].clean /\ added
             moved == [run[r] EXCEPT !.at = "link", !.clean = ok]
  <2>1. run' = [run EXCEPT ![r] = moved] /\ parsed' = parsed
    BY <1>2 DEF Publish, FInv, IInv, TypeOK
  <2>2. moved.url = run[r].url /\ moved.next = run[r].next /\ (moved.clean => run[r].clean)
    BY <1>1 DEF RunRecord
  <2> HIDE DEF moved
  <2>3. run'[r] = moved /\ \A s \in Runs \ {r} : run'[s] = run[s]
    BY <2>1 DEF FInv, IInv, TypeOK
  <2> QED
    BY <1>1, <2>1, <2>2, <2>3, SameLinkStep
<1>3. CASE LinksOf[run[r].url] = <<>>
  <2>1. /\ run' = [run EXCEPT ![r] = NoRun]
        /\ parsed' \subseteq parsed \union {run[r].url}
    BY <1>3 DEF Publish
  <2>2. run'[r].at = "idle" /\ \A s \in Runs \ {r} : run'[s] = run[s]
    BY <2>1 DEF FInv, IInv, TypeOK, NoRun
  <2>3. \A s \in Runs \ {r} : LinksBehind(s)'
    BY <2>2, LinksBehindKept DEF FInv
  <2>4. LinksBehind(r)'
    BY <2>2 DEF LinksBehind
  <2>5. ASSUME NEW u \in parsed, NEW i \in DOMAIN LinksOf[u]
        PROVE  urlmeta'[Target(u, i)] # None
    BY TargetIsUrl, <2>5 DEF FInv, IInv, TypeOK, Followed, Kept
  <2>6. DOMAIN LinksOf[run[r].url] = {}
    BY <1>3
  <2>7. Followed'
    BY <2>1, <2>5, <2>6 DEF Followed, Target
  <2> QED
    BY <2>3, <2>4, <2>7
<1> QED
  BY <1>2, <1>3

LEMMA LinkActionFollows ==
  ASSUME FInv, Kept, NEW r \in Runs,
         DiscoverFails(r) \/ Enqueue(r) \/ Reread(r) \/ Rewrite(r)
  PROVE  Followed' /\ \A s \in Runs : LinksBehind(s)'
<1>1. run[r].at \in LinkStages /\ RunOK(r) /\ run[r] \in RunRecord
  BY DEF DiscoverFails, Enqueue, Reread, Rewrite, LinkStages, FInv, IInv, TypeOK
<1>2. CASE DiscoverFails(r)
  BY <1>1, <1>2, NextLinkStep DEF DiscoverFails
<1>3. CASE Enqueue(r)
  <2>1. urlmeta[InHand(r)] # None
    BY <1>1, <1>3 DEF Enqueue, RunOK
  <2> QED
    BY <1>1, <1>3, <2>1, NextLinkStep DEF Enqueue
<1>4. CASE Rewrite(r)
  <2>1. urlmeta[InHand(r)] # None
    BY <1>1, <1>4 DEF Rewrite, RunOK
  <2> QED
    BY <1>1, <1>4, <2>1, NextLinkStep DEF Rewrite
<1>5. CASE Reread(r)
  <2>1. CASE NextLink(r, FALSE)
    BY <1>1, <2>1, NextLinkStep
  <2>2. CASE /\ run' = [run EXCEPT ![r].at = "rewrite", ![r].old = urlmeta[InHand(r)]]
             /\ UNCHANGED parsed
    <3> DEFINE moved == [run[r] EXCEPT !.at = "rewrite", !.old = urlmeta[InHand(r)]]
    <3>1. run' = [run EXCEPT ![r] = moved]
      BY <2>2 DEF FInv, IInv, TypeOK
    <3>2. moved.url = run[r].url /\ moved.next = run[r].next /\ moved.clean = run[r].clean
      BY <1>1 DEF RunRecord
    <3> HIDE DEF moved
    <3>3. run'[r] = moved /\ \A s \in Runs \ {r} : run'[s] = run[s]
      BY <3>1 DEF FInv, IInv, TypeOK
    <3>4. run[r].at # "idle"
      BY <1>1 DEF LinkStages
    <3> QED
      BY <2>2, <3>2, <3>3, <3>4, SameLinkStep
  <2> QED
    BY <1>5, <2>1, <2>2 DEF Reread
<1> QED
  BY <1>2, <1>3, <1>4, <1>5

(* Steps of a run that only change its stage, its depth or its context.    *)
LEMMA StageStepFollows ==
  ASSUME FInv, Kept, NEW r \in Runs, Timeout(r) \/ ReadPage(r) \/ Discover(r)
  PROVE  Followed' /\ \A s \in Runs : LinksBehind(s)'
<1>1. run \in [Runs -> RunRecord] /\ run[r] \in RunRecord /\ parsed' = parsed
  BY DEF Timeout, ReadPage, Discover, FInv, IInv, TypeOK
<1>2. CASE Timeout(r)
  <2> DEFINE moved == [run[r] EXCEPT !.live = FALSE, !.clean = FALSE]
  <2>1. run' = [run EXCEPT ![r] = moved]
    BY <1>2 DEF Timeout, AfterTimeout
  <2>2. moved.clean = FALSE
    BY <1>1 DEF RunRecord
  <2> HIDE DEF moved
  <2>3. run'[r] = moved /\ \A s \in Runs \ {r} : run'[s] = run[s]
    BY <1>1, <2>1
  <2> QED
    BY <1>1, <2>2, <2>3, SameLinkStep
<1>3. CASE ReadPage(r)
  <2> DEFINE moved == [run[r] EXCEPT !.at = "publish", !.depth = DepthOf(run[r].url)]
  <2>1. run' = [run EXCEPT ![r] = moved] \/ run' = [run EXCEPT ![r] = NoRun]
    BY <1>1, <1>3 DEF ReadPage
  <2>2. moved.url = run[r].url /\ moved.next = run[r].next /\ moved.clean = run[r].clean
    BY <1>1 DEF RunRecord
  <2>3. NoRun.at = "idle" /\ run[r].at # "idle"
    BY <1>3 DEF NoRun, ReadPage
  <2> HIDE DEF moved
  <2>4. run'[r] \in {moved, NoRun} /\ \A s \in Runs \ {r} : run'[s] = run[s]
    BY <1>1, <2>1
  <2> QED
    BY <1>1, <2>2, <2>3, <2>4, SameLinkStep
<1>4. CASE Discover(r)
  <2>1. PICK stage \in {"enqueue", "reread"} : run' = [run EXCEPT ![r].at = stage]
    BY <1>4 DEF Discover, Goto
  <2> DEFINE moved == [run[r] EXCEPT !.at = stage]
  <2>2. run' = [run EXCEPT ![r] = moved]
    BY <1>1, <2>1
  <2>3. moved.url = run[r].url /\ moved.next = run[r].next /\ moved.clean = run[r].clean
    BY <1>1 DEF RunRecord
  <2>4. run[r].at # "idle"
    BY <1>4 DEF Discover
  <2> HIDE DEF moved
  <2>5. run'[r] = moved /\ \A s \in Runs \ {r} : run'[s] = run[s]
    BY <1>1, <2>2
  <2> QED
    BY <1>1, <2>3, <2>4, <2>5, SameLinkStep
<1> QED
  BY <1>2, <1>3, <1>4

LEMMA EveryStepFollows ==
  ASSUME FInv, [Next]_vars
  PROVE  FInv'
<1>1. IInv' /\ Kept
  BY EveryStep DEF FInv
<1>2. CASE Crash \/ UNCHANGED vars
  <2>1. parsed' = parsed /\ \A s \in Runs : run'[s] = run[s] \/ run'[s].at = "idle"
    BY <1>2 DEF Crash, vars, NoRun
  <2> QED
    BY <1>1, <2>1, SameLinkStep DEF FInv
<1>3. ASSUME NEW r \in Runs, \E url \in Urls : Start(r, url)
      PROVE  FInv'
  BY <1>1, <1>3, BeginFollows DEF FInv
<1>4. ASSUME NEW r \in Runs, Timeout(r) \/ ReadPage(r) \/ Discover(r)
      PROVE  FInv'
  BY <1>1, <1>4, StageStepFollows DEF FInv
<1>5. ASSUME NEW r \in Runs, \E added \in BOOLEAN : Publish(r, added)
      PROVE  FInv'
  BY <1>1, <1>5, PublishFollows DEF FInv
<1>6. ASSUME NEW r \in Runs, DiscoverFails(r) \/ Enqueue(r) \/ Reread(r) \/ Rewrite(r)
      PROVE  FInv'
  BY <1>1, <1>6, LinkActionFollows DEF FInv
<1> QED
  BY <1>2, <1>3, <1>4, <1>5, <1>6 DEF Next

(* A page parsed without a failed call has all its links known, or its     *)
(* canonical URL in their place.                                           *)
THEOREM LinksAreFollowedHolds == Spec => []LinksAreFollowed
<1>1. Init => FInv
  <2>1. Init => \A r \in Runs : run[r].at = "idle"
    BY DEF Init, NoRun
  <2> QED
    BY <2>1, InitIInv DEF Init, FInv, Followed, LinksBehind
<1>2. FInv /\ [Next]_vars => FInv'
  BY EveryStepFollows
<1>3. FInv => LinksAreFollowed
  <2> SUFFICES ASSUME FInv, NEW u \in parsed PROVE
        IF CanonicalOf[u] = None
        THEN \A i \in DOMAIN LinksOf[u] : urlmeta[LinksOf[u][i]] # None
        ELSE LinksOf[u] # <<>> => urlmeta[CanonicalOf[u]] # None
    BY DEF LinksAreFollowed
  <2>1. \A i \in DOMAIN LinksOf[u] : urlmeta[Target(u, i)] # None
    BY DEF FInv, Followed
  <2>2. CASE CanonicalOf[u] = None
    BY <2>1, <2>2 DEF Target
  <2>3. CASE CanonicalOf[u] # None
    <3>1. u \in Urls /\ LinksOf[u] \in Seq(Urls)
      BY UrlAssumption DEF FInv, IInv, TypeOK
    <3>2. LinksOf[u] # <<>> => 1 \in DOMAIN LinksOf[u]
      BY <3>1
    <3> QED
      BY <2>1, <2>3, <3>2 DEF Target
  <2> QED
    BY <2>2, <2>3
<1> QED
  BY <1>1, <1>2, <1>3, PTL DEF Spec
=============================================================================
