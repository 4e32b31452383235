--------------------------- MODULE MCFetchAndStore ---------------------------
(***************************************************************************)
(* Small instances of FetchAndStore for TLC: two URLs on one domain, the   *)
(* second a repository, whose pages are near each other or are not.        *)
(***************************************************************************)
EXTENDS FetchAndStore, TLC

CONSTANTS j1, j2, p1, p2, d1

TwoJobs == {j1, j2}
Repositories == {j2}
OneDomain == [j \in TwoJobs |-> d1]
TwoPages == {p1, p2}
Serving == (j1 :> {p1}) @@ (j2 :> {p2})
TwoRunsEach == [j \in TwoJobs |-> 2]
FirstTwice == (j1 :> 2) @@ (j2 :> 1)
NearEachOther == TwoPages \X TwoPages
NearThemselves == {<<p, p>> : p \in TwoPages}
=============================================================================
