--------------------------- MODULE MCIndexerStream ---------------------------
(***************************************************************************)
(* Small instances of IndexerStream for TLC: two messages for one URL      *)
(* whose text has changed between them, so that the second is refused.     *)
(***************************************************************************)
EXTENDS IndexerStream

OneUrl == [m \in Msgs |-> "url"]
TwoTexts == [m \in Msgs |-> m]

NoEvents == [read |-> 0, ack |-> 0, add |-> 0, crash |-> 0, stop |-> 0]

(* One event in each behaviour.                                            *)
Singles == {[NoEvents EXCEPT ![a] = 1] : a \in DOMAIN NoEvents}
=============================================================================
