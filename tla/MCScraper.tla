------------------------------ MODULE MCScraper ------------------------------
(***************************************************************************)
(* A small instance of Scraper for TLC: a seed and a page that link to     *)
(* each other.  The seed leaves no record, so the page discovers it again. *)
(***************************************************************************)
EXTENDS Scraper, TLC

CONSTANTS u1, u2, d1

TwoUrls == {u1, u2}
Linking == (u1 :> <<u2>>) @@ (u2 :> <<u1>>)
SeedTwice == (u1 :> 2) @@ (u2 :> 1)
NoCanonical == [u \in TwoUrls |-> None]
OneDomain == [u \in TwoUrls |-> d1]
NearThemselves == {<<u, u>> : u \in TwoUrls}
=============================================================================
