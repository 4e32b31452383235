----------------------------- MODULE MCDiscovery -----------------------------
(***************************************************************************)
(* Small instances of Discovery for TLC: a seed and two pages that link to *)
(* each other and to the seed.                                             *)
(***************************************************************************)
EXTENDS Discovery, TLC

CONSTANTS seed, page, other

ThreeUrls == {seed, page, other}
Linking == (seed :> <<page, other>>) @@ (page :> <<other, seed>>) @@ (other :> <<page>>)
NoCanonical == [u \in ThreeUrls |-> None]
CanonicalOther == [NoCanonical EXCEPT ![other] = seed]
Symmetric == Permutations(Runs)
Itself == [u \in ThreeUrls |-> u]
=============================================================================
