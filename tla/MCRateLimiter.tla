---------------------------- MODULE MCRateLimiter ----------------------------
(***************************************************************************)
(* A small instance of RateLimiter for TLC: three requests to one domain   *)
(* (another domain has a key of its own, and no action touches two).       *)
(***************************************************************************)
EXTENDS RateLimiter, TLC

OneDomain == [r \in Requests |-> CHOOSE d \in Domains : TRUE]

Symmetric == Permutations(Requests)
=============================================================================
