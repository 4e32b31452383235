------------------------------ MODULE MCJobQueue ------------------------------
(***************************************************************************)
(* Small instances of JobQueue for TLC.                                    *)
(***************************************************************************)
EXTENDS JobQueueProps, TLC

(* What the parser gives pages it finds: an ordinary one far from the      *)
(* seeds, documentation far from them, documentation with a query.  A seed *)
(* has no score.                                                           *)
DeepPage == {ScoreDevURL(NewUrlMeta(3), 0)}
DeepDocs == {ScoreDevURL([NewUrlMeta(3) EXCEPT !.IsDocs = TRUE], 0)}
SeedOrDocs ==
  {0, ScoreDevURL([NewUrlMeta(1) EXCEPT !.IsDocs = TRUE, !.HasQueryParams = TRUE], 0)}

NoEvents == [fault |-> 0, crash |-> 0, rate |-> 0, stop |-> 0, reap |-> 0]

CrashOnly == {[NoEvents EXCEPT !.crash = 1]}

(* The reaper may act at any time, once; a stop may or may not come.       *)
Stops == {[NoEvents EXCEPT !.reap = 1, !.stop = n] : n \in 0..1}

(* Every one and every pair of special events that meet in one behaviour.  *)
Pairs == {[NoEvents EXCEPT ![a] = 1, ![b] = 1] :
            a \in DOMAIN NoEvents, b \in DOMAIN NoEvents}

Symmetric == Permutations(Jobs) \union Permutations(Procs)
=============================================================================
