----------------------------- MODULE SeenContent -----------------------------
(***************************************************************************)
(* What the crawler needs from its content index, without buckets: a set   *)
(* of fingerprints and the answer to the question whether one of them is   *)
(* near.  SimhashIndex is shown to implement it.                           *)
(***************************************************************************)
CONSTANTS Hashes, Near(_, _), None

VARIABLES
  seen,     \* the fingerprints in the index
  answer    \* the last question and what was answered, as <<hash, near or not>>

NearIn(hash, set) == \E h \in set : Near(hash, h)

Init == seen = {} /\ answer = None

(* The question admits a fingerprint that is near none.                    *)
Ask(hash) ==
  /\ answer' = <<hash, NearIn(hash, seen)>>
  /\ seen' = IF NearIn(hash, seen) THEN seen ELSE seen \union {hash}

Insert(hash) == seen' = seen \union {hash} /\ UNCHANGED answer

Restart == seen' = {} /\ answer' = None

Next == \/ \E hash \in Hashes : Ask(hash) \/ Insert(hash)
        \/ Restart

Spec == Init /\ [][Next]_<<seen, answer>>
=============================================================================
