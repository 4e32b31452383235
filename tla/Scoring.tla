------------------------------- MODULE Scoring -------------------------------
(***************************************************************************)
(* The arithmetic of job scores (internal/scraper/queues/score.go and the  *)
(* penalty inside CompleteJob): what a URL is worth when it is discovered, *)
(* which of the four ready lists a score maps to, what waiting adds to it  *)
(* and what a failure takes away.  Pure operators, no state.  Go's int is  *)
(* 64 bits wide and every value here stays below a few hundred, so         *)
(* integers are unbounded.                                                 *)
(***************************************************************************)
EXTENDS Integers

(* The names are those of the Redis lists, "<namespace>:ready:<priority>". *)
Priorities == {"critical", "high", "normal", "low"}

(* 0 is served first: the order of priorityQueues in cmd/scraper/main.go,  *)
(* which BLPOP follows.                                                    *)
Rank == [p \in Priorities |-> CASE p = "critical" -> 0
                                [] p = "high"     -> 1
                                [] p = "normal"   -> 2
                                [] p = "low"      -> 3]

ScoreToPriority(score) == CASE score >= 90                -> "critical"
                            [] score >= 60 /\ score < 90  -> "high"
                            [] score >= 30 /\ score < 60  -> "normal"
                            [] score < 30                 -> "low"

AtMost(a, b) == IF a < b THEN a ELSE b
AtLeast(a, b) == IF a > b THEN a ELSE b

(* waited is in whole seconds.  min does not bound the factor from below,  *)
(* but waited is the time since LastEnqueuedAt, never negative.            *)
ApplyAging(baseScore, waited) == baseScore + AtMost(waited \div 30, 30)

(* retryCount is the count after the failure.  A score that would become   *)
(* negative becomes 10, not 0.                                             *)
Penalize(baseScore, retryCount) ==
  LET lowered == baseScore - AtLeast(10, 10 * retryCount)
  IN  IF lowered < 0 THEN 10 ELSE lowered

-----------------------------------------------------------------------------
(* What a discovered URL is worth.  minutes is the age of its metadata.    *)
UrlMeta == [Depth : Nat, HasQueryParams : BOOLEAN, IsDocs : BOOLEAN,
            IsApi : BOOLEAN, HasCodeBlocks : BOOLEAN, IsBlog : BOOLEAN,
            InboundLinks : Nat]

NewUrlMeta(depth) ==
  [Depth |-> depth, HasQueryParams |-> FALSE, IsDocs |-> FALSE, IsApi |-> FALSE,
   HasCodeBlocks |-> FALSE, IsBlog |-> FALSE, InboundLinks |-> 0]

Bonus(condition, points) == IF condition THEN points ELSE 0

ScoreDevURL(u, minutes) ==
    (30 - AtMost(minutes, 30)) \div 2
  + Bonus(u.Depth <= 2, 30)
  + Bonus(~u.HasQueryParams, 10)
  + Bonus(u.IsDocs, 40)
  + Bonus(u.IsApi, 35)
  + Bonus(u.HasCodeBlocks, 30)
  + AtMost(3 * u.InboundLinks, 30)
  - Bonus(u.IsBlog, 15)
=============================================================================
