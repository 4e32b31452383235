----------------------------- MODULE FetchProofs -----------------------------
(***************************************************************************)
(* The content index keeps its word, for any number of jobs, runs, pages   *)
(* and domains, and any symmetric notion of nearness.                      *)
(***************************************************************************)
EXTENDS FetchAndStore, FiniteSetTheorems, TLAPS

(* A run whose page is in the index and has no parse job yet.              *)
Bringing(r) == run[r].at \in {"store", "enqueue"}

(* What a run carries at its stage.                                        *)
RunsSound ==
  \A r \in Runs :
    /\ run[r].at # "idle" => run[r].job \in Jobs
    /\ run[r].live => run[r].at # "idle"
    /\ run[r].at \in {"dedup", "store", "enqueue"} => run[r].page \in Pages

(* The run that leads a flight is one of those that wait for it.           *)
FlightSound ==
  /\ \A d \in Domains : flight[d] # None => flight[d] \in Waiting(d)
  /\ \A r \in Runs : run[r].at = "flight" => flight[Domain(r)] # None

(* The pages of the index are far from each other, and each is brought to  *)
(* the parser by at most one run, at most once.                            *)
IndexSound ==
  /\ \A p, q \in seen : <<p, q>> \in Near => p = q
  /\ \A r \in Runs : Bringing(r) => run[r].page \in seen /\ parsing[run[r].page] = 0
  /\ \A r, s \in Runs : Bringing(r) /\ Bringing(s) /\ run[r].page = run[s].page => r = s
  /\ \A p \in Pages : parsing[p] > 0 => p \in seen /\ parsing[p] = 1

IInv == TypeOK /\ RunsSound /\ FlightSound /\ IndexSound /\ AdmittedIsKept

-----------------------------------------------------------------------------
LEMMA NoRunFacts ==
  /\ NoRun \in RunRecord /\ NoRun.at = "idle" /\ NoRun.live = FALSE
  /\ NoRun.job = None /\ NoRun.page = None
  /\ 0 \in Attempts
BY RetryAssumption DEF NoRun, RunRecord, Stages, Attempts

LEMMA RunType ==
  ASSUME IInv, NEW r \in Runs
  PROVE  /\ run[r] \in RunRecord
         /\ run[r].at \in Stages /\ run[r].live \in BOOLEAN /\ run[r].retries \in Attempts
         /\ run[r].at # "idle" => run[r].job \in Jobs /\ Domain(r) \in Domains
BY JobAssumption DEF IInv, TypeOK, RunsSound, RunRecord, Domain

LEMMA PutBackType ==
  ASSUME NEW queue \in [Jobs -> [Attempts -> Nat]], NEW j \in Jobs, NEW counts
  PROVE  PutBack(queue, j, counts) \in [Jobs -> [Attempts -> Nat]]
<1> DEFINE copies == [n \in Attempts |-> IF n \in counts THEN queue[j][n] + 1 ELSE queue[j][n]]
<1>1. copies \in [Attempts -> Nat]
  OBVIOUS
<1>2. PutBack(queue, j, counts) = [queue EXCEPT ![j] = copies]
  BY DEF PutBack
<1> HIDE DEF copies
<1> QED BY <1>1, <1>2

(* The queue and the count of what may still fail.                         *)
QueueTyped ==
  todo \in [Jobs -> [Attempts -> Nat]] /\ failed \subseteq Jobs /\ faults \in Nat

LEMMA CompleteType ==
  ASSUME IInv, NEW r \in Runs, NEW counts, Complete(r, counts), Fault \/ UNCHANGED faults
  PROVE  QueueTyped'
<1>1. QueueTyped
  BY DEF IInv, TypeOK, QueueTyped
<1>2. faults' \in Nat
  BY <1>1 DEF Fault, QueueTyped
<1>3. CASE run[r].live
  <2>1. run[r].job \in Jobs
    BY <1>3 DEF IInv, RunsSound
  <2>2. todo' = PutBack(todo, run[r].job, counts)
    BY <1>3 DEF Complete
  <2>3. todo' \in [Jobs -> [Attempts -> Nat]]
    BY <1>1, <2>1, <2>2, PutBackType DEF QueueTyped
  <2>4. failed' \subseteq Jobs
    BY <1>1, <1>3, <2>1 DEF Complete, WithFailed, QueueTyped
  <2> QED BY <1>2, <2>3, <2>4 DEF QueueTyped
<1>4. CASE ~run[r].live
  BY <1>1, <1>2, <1>4 DEF Complete, QueueTyped
<1> QED BY <1>3, <1>4

(* A copy taken out or put in.                                             *)
LEMMA TakenType ==
  ASSUME NEW queue \in [Jobs -> [Attempts -> Nat]], NEW j \in Jobs, NEW n \in Attempts,
         queue[j][n] > 0
  PROVE  Taken(queue, j, n) \in [Jobs -> [Attempts -> Nat]]
<1> DEFINE copies == [queue[j] EXCEPT ![n] = @ - 1]
<1>1. copies \in [Attempts -> Nat]
  OBVIOUS
<1>2. Taken(queue, j, n) = [queue EXCEPT ![j] = copies]
  BY DEF Taken
<1> HIDE DEF copies
<1> QED BY <1>1, <1>2

(* A step that brings no page and ends no bringing without recording it    *)
(* leaves the index as good as it was.                                     *)
LEMMA IndexFrame ==
  ASSUME IInv, UNCHANGED <<seen, parsing>>, cut \subseteq cut',
         \A q \in Runs : Bringing(q)' => Bringing(q) /\ run'[q].page = run[q].page,
         \A q \in Runs : Bringing(q) /\ ~Bringing(q)' => run[q].page \in cut'
  PROVE  IndexSound' /\ AdmittedIsKept'
<1>1. IndexSound'
  BY DEF IInv, IndexSound
<1>2. AdmittedIsKept'
  BY DEF IInv, AdmittedIsKept, Bringing
<1> QED BY <1>1, <1>2

LEMMA FlightFrame ==
  ASSUME IInv, UNCHANGED flight,
         \A q \in Runs : /\ run'[q].at = "flight" <=> run[q].at = "flight"
                         /\ run[q].at = "flight" => run'[q].job = run[q].job
  PROVE  FlightSound'
BY DEF IInv, FlightSound, Waiting, Domain

(* One run goes on to its next stage, away from every flight.              *)
LEMMA OneRunMoves ==
  ASSUME IInv, NEW r \in Runs, NEW next \in RunRecord,
         run' = [run EXCEPT ![r] = next],
         UNCHANGED <<flight, seen, parsing>>, cut \subseteq cut',
         run[r].at # "flight", next.at # "flight",
         next.at # "idle" => next.job \in Jobs,
         next.live => next.at # "idle",
         next.at \in {"dedup", "store", "enqueue"} => next.page \in Pages,
         next.at \in {"store", "enqueue"} => Bringing(r) /\ next.page = run[r].page,
         Bringing(r) /\ next.at \notin {"store", "enqueue"} => run[r].page \in cut'
  PROVE  RunsSound' /\ FlightSound' /\ IndexSound' /\ AdmittedIsKept'
<1>1. run'[r] = next /\ \A q \in Runs \ {r} : run'[q] = run[q]
  BY DEF IInv, TypeOK
<1>2. RunsSound'
  BY <1>1 DEF IInv, RunsSound
<1>3. FlightSound'
  BY <1>1, FlightFrame
<1>4. IndexSound' /\ AdmittedIsKept'
  <2>1. \A q \in Runs : Bringing(q)' => Bringing(q) /\ run'[q].page = run[q].page
    BY <1>1 DEF Bringing
  <2>2. \A q \in Runs : Bringing(q) /\ ~Bringing(q)' => run[q].page \in cut'
    BY <1>1 DEF Bringing
  <2> QED BY <2>1, <2>2, IndexFrame
<1> QED BY <1>2, <1>3, <1>4

(* The page of a run that is leaving "enqueue" has got its parse job.      *)
LEMMA ParseJobQueued ==
  ASSUME IInv, NEW r \in Runs, run[r].at = "enqueue",
         run' = [run EXCEPT ![r] = NoRun],
         parsing' = [parsing EXCEPT ![run[r].page] = @ + 1],
         UNCHANGED <<flight, seen>>, cut \subseteq cut'
  PROVE  RunsSound' /\ FlightSound' /\ IndexSound' /\ AdmittedIsKept'
<1> DEFINE page == run[r].page
<1>1. run'[r] = NoRun /\ \A q \in Runs \ {r} : run'[q] = run[q]
  BY DEF IInv, TypeOK
<1>2. page \in Pages /\ page \in seen /\ parsing[page] = 0
  BY DEF IInv, RunsSound, IndexSound, Bringing
<1>3. parsing'[page] = 1 /\ \A p \in Pages \ {page} : parsing'[p] = parsing[p]
  BY <1>2 DEF IInv, TypeOK
<1>4. RunsSound'
  BY <1>1, NoRunFacts DEF IInv, RunsSound
<1>5. FlightSound'
  BY <1>1, NoRunFacts, FlightFrame
<1>6. \A q \in Runs : Bringing(q)' => q # r /\ Bringing(q) /\ run'[q].page = run[q].page
                                     /\ run[q].page \in Pages \ {page}
  <2>1. SUFFICES ASSUME NEW q \in Runs, Bringing(q)'
                 PROVE  q # r /\ Bringing(q) /\ run'[q].page = run[q].page
                        /\ run[q].page \in Pages \ {page}
    OBVIOUS
  <2>2. q # r
    BY <1>1, <2>1, NoRunFacts DEF Bringing
  <2>3. run'[q] = run[q] /\ Bringing(q)
    BY <1>1, <2>1, <2>2 DEF Bringing
  <2>4. run[q].page # page
    BY <2>2, <2>3 DEF IInv, IndexSound, Bringing
  <2>5. run[q].page \in Pages
    BY <2>3 DEF IInv, RunsSound, Bringing
  <2> QED BY <2>2, <2>3, <2>4, <2>5
<1>7. IndexSound'
  <2>1. \A p, q \in seen' : <<p, q>> \in Near => p = q
    BY DEF IInv, IndexSound
  <2>2. \A q \in Runs : Bringing(q)' => run'[q].page \in seen' /\ parsing'[run'[q].page] = 0
    BY <1>3, <1>6 DEF IInv, IndexSound
  <2>3. \A q, t \in Runs : Bringing(q)' /\ Bringing(t)' /\ run'[q].page = run'[t].page => q = t
    BY <1>6 DEF IInv, IndexSound
  <2>4. \A p \in Pages : parsing'[p] > 0 => p \in seen' /\ parsing'[p] = 1
    BY <1>2, <1>3 DEF IInv, IndexSound
  <2> QED BY <2>1, <2>2, <2>3, <2>4 DEF IndexSound
<1>8. AdmittedIsKept'
  <2>1. SUFFICES ASSUME NEW p \in seen
                 PROVE  \/ parsing'[p] > 0
                        \/ \E q \in Runs : run'[q].page = p /\ run'[q].at \in {"store", "enqueue"}
                        \/ p \in cut'
    BY DEF AdmittedIsKept
  <2>2. CASE p = page
    BY <1>3, <2>2
  <2>3. CASE p # page
    <3>1. p \in Pages
      BY <2>1 DEF IInv, TypeOK
    <3>2. parsing'[p] = parsing[p]
      BY <1>3, <2>3, <3>1
    <3>3. \A q \in Runs : run[q].page = p /\ run[q].at \in {"store", "enqueue"}
                           => run'[q] = run[q]
      BY <1>1, <2>3
    <3> QED BY <2>1, <3>2, <3>3 DEF IInv, AdmittedIsKept
  <2> QED BY <2>2, <2>3
<1> QED BY <1>4, <1>5, <1>7, <1>8

-----------------------------------------------------------------------------
LEMMA InitIInv == Init => IInv
<1>1. SUFFICES ASSUME Init PROVE IInv
  OBVIOUS
<1>2. TypeOK
  <2>1. WithNew(NoCopy, 1) \in [Attempts -> Nat]
    BY NoRunFacts DEF WithNew, NoCopy
  <2> HIDE DEF WithNew
  <2> QED BY <1>1, <2>1, NoRunFacts, BoundAssumption DEF Init, TypeOK
<1>3. RunsSound /\ FlightSound /\ IndexSound /\ AdmittedIsKept
  BY <1>1, NoRunFacts DEF Init, RunsSound, FlightSound, IndexSound, AdmittedIsKept, Bringing
<1> QED BY <1>2, <1>3 DEF IInv

LEMMA StartIInv ==
  ASSUME IInv, NEW r \in Runs, NEW j \in Jobs, NEW n \in Attempts, Start(r, j, n)
  PROVE  IInv'
<1> DEFINE next == [NoRun EXCEPT !.job = j, !.retries = n, !.at = "meta", !.live = TRUE]
<1>1. next \in RunRecord /\ next.at = "meta" /\ next.job = j
  BY DEF NoRun, RunRecord, Stages
<1>2. run' = [run EXCEPT ![r] = next]
  BY DEF Start
<1>3. run[r].at = "idle"
  BY NoRunFacts DEF Start
<1> HIDE DEF next
<1>4. todo' \in [Jobs -> [Attempts -> Nat]]
  BY TakenType DEF Start, IInv, TypeOK
<1>5. TypeOK'
  <2>1. /\ started' = [started EXCEPT ![j] = @ + 1]
        /\ UNCHANGED <<failed, meta, flight, seen, dropped, objects, parsing>>
        /\ UNCHANGED <<restarts, faults, cut>>
    BY DEF Start, metaVars, indexVars, storeVars
  <2> QED BY <1>1, <1>2, <1>4, <2>1 DEF IInv, TypeOK
<1>6. RunsSound' /\ FlightSound' /\ IndexSound' /\ AdmittedIsKept'
  BY <1>1, <1>2, <1>3, OneRunMoves
     DEF Start, metaVars, indexVars, storeVars, Bringing
<1> QED BY <1>5, <1>6 DEF IInv

LEMMA TimeoutIInv ==
  ASSUME IInv, NEW r \in Runs, NEW counts, Timeout(r, counts)
  PROVE  IInv'
<1> DEFINE next == [run[r] EXCEPT !.live = FALSE]
<1>1. next \in RunRecord /\ next.at = run[r].at /\ next.job = run[r].job
      /\ next.page = run[r].page /\ next.live = FALSE
  BY RunType DEF RunRecord
<1>2. run' = [run EXCEPT ![r] = next]
  BY DEF Timeout, AfterTimeout
<1> HIDE DEF next
<1>3. UNCHANGED <<meta, flight, seen, objects, parsing, cut, dropped, started, restarts>>
  BY DEF Timeout, metaVars, indexVars, storeVars
<1>4. \A q \in Runs : /\ run'[q].at = run[q].at /\ run'[q].job = run[q].job
                      /\ run'[q].page = run[q].page
                      /\ run'[q].live => run[q].live
  BY <1>1, <1>2 DEF IInv, TypeOK
<1>5. TypeOK'
  <2>1. QueueTyped'
    BY CompleteType DEF Timeout
  <2> QED BY <1>1, <1>2, <1>3, <2>1 DEF IInv, TypeOK, QueueTyped
<1>6. RunsSound'
  BY <1>4 DEF IInv, RunsSound
<1>7. FlightSound'
  BY <1>3, <1>4, FlightFrame
<1>8. IndexSound' /\ AdmittedIsKept'
  BY <1>3, <1>4, IndexFrame DEF Bringing
<1> QED BY <1>5, <1>6, <1>7, <1>8 DEF IInv

LEMMA MetaHitIInv ==
  ASSUME IInv, NEW r \in Runs, MetaHit(r)
  PROVE  IInv'
<1> DEFINE next == [run[r] EXCEPT !.at = "robots", !.robots = meta[Domain(r)]]
<1>1. run[r].at = "meta" /\ run[r].job \in Jobs /\ Domain(r) \in Domains
  BY RunType DEF MetaHit
<1>2. next \in RunRecord /\ next.at = "robots" /\ next.job = run[r].job
  BY <1>1, RunType DEF RunRecord, Stages, IInv, TypeOK
<1>3. run' = [run EXCEPT ![r] = next]
  BY DEF MetaHit, IInv, TypeOK
<1> HIDE DEF next
<1>4. UNCHANGED <<queueVars, meta, flight, seen, objects, parsing, cut, dropped, boundVars>>
  BY DEF MetaHit, metaVars, indexVars, storeVars, boundVars
<1>5. TypeOK'
  BY <1>2, <1>3, <1>4 DEF IInv, TypeOK, queueVars, boundVars
<1>6. RunsSound' /\ FlightSound' /\ IndexSound' /\ AdmittedIsKept'
  BY <1>1, <1>2, <1>3, <1>4, OneRunMoves DEF Bringing
<1> QED BY <1>5, <1>6 DEF IInv

LEMMA MetaMissIInv ==
  ASSUME IInv, NEW r \in Runs, MetaMiss(r)
  PROVE  IInv'
<1> DEFINE d == Domain(r)
           next == [run[r] EXCEPT !.at = "flight"]
           leader == IF flight[d] = None THEN r ELSE flight[d]
<1>1. run[r].at = "meta" /\ run[r].job \in Jobs /\ d \in Domains
  BY RunType DEF MetaMiss
<1>2. next \in RunRecord /\ next.at = "flight" /\ next.job = run[r].job
      /\ next.page = run[r].page /\ next.live = run[r].live
  BY <1>1, RunType DEF RunRecord, Stages
<1>3. run' = [run EXCEPT ![r] = next] /\ UNCHANGED queueVars
  BY DEF MetaMiss, Goto
<1>4. flight' = [flight EXCEPT ![d] = leader]
  BY <1>1 DEF MetaMiss, IInv, TypeOK
<1>5. UNCHANGED <<meta, seen, objects, parsing, cut, dropped, boundVars>>
  BY DEF MetaMiss, indexVars, storeVars, boundVars
<1>6. leader \in Runs
  BY <1>1 DEF IInv, TypeOK
<1>7. run'[r] = next /\ \A q \in Runs \ {r} : run'[q] = run[q]
  BY <1>3 DEF IInv, TypeOK
<1>8. flight'[d] = leader /\ \A e \in Domains \ {d} : flight'[e] = flight[e]
  BY <1>1, <1>4 DEF IInv, TypeOK
<1>9. DomainOf[next.job] = d
  BY <1>2 DEF Domain
<1> HIDE DEF next
<1>10. TypeOK'
  BY <1>2, <1>3, <1>4, <1>5, <1>6 DEF IInv, TypeOK, queueVars, boundVars
<1>11. RunsSound'
  BY <1>1, <1>2, <1>7 DEF IInv, RunsSound
<1>12. FlightSound'
  <2>1. ASSUME NEW e \in Domains, flight'[e] # None PROVE flight'[e] \in Waiting(e)'
    <3>1. CASE e = d
      <4>1. CASE flight[d] = None
        BY <1>2, <1>7, <1>8, <1>9, <3>1, <4>1 DEF Waiting, Domain
      <4>2. CASE flight[d] # None
        <5>1. flight[d] \in Waiting(d)
          BY <1>1, <4>2 DEF IInv, FlightSound
        <5> QED BY <1>1, <1>7, <1>8, <3>1, <4>2, <5>1 DEF Waiting, Domain
      <4> QED BY <4>1, <4>2
    <3>2. CASE e # d
      <4>1. flight'[e] = flight[e] /\ flight[e] \in Waiting(e)
        BY <1>8, <2>1, <3>2 DEF IInv, FlightSound
      <4> QED BY <1>1, <1>7, <4>1 DEF Waiting, Domain
    <3> QED BY <3>1, <3>2
  <2>2. ASSUME NEW q \in Runs, run'[q].at = "flight" PROVE flight'[Domain(q)'] # None
    <3>1. CASE q = r
      BY <1>6, <1>7, <1>8, <1>9, <3>1, NoneAssumption DEF Domain
    <3>2. CASE q # r
      <4>1. run'[q] = run[q] /\ flight[Domain(q)] # None /\ Domain(q) \in Domains
        BY <1>7, <2>2, <3>2, RunType DEF IInv, FlightSound
      <4> QED BY <1>6, <1>8, <4>1, NoneAssumption DEF Domain
    <3> QED BY <3>1, <3>2
  <2> QED BY <2>1, <2>2 DEF FlightSound
<1>13. IndexSound' /\ AdmittedIsKept'
  BY <1>1, <1>2, <1>5, <1>7, IndexFrame DEF Bringing
<1> QED BY <1>10, <1>11, <1>12, <1>13 DEF IInv

(* What a flight does to the runs that wait for it: they go to one and the *)
(* same stage, and take the record with them.                              *)
LEMMA FlightEndsIInv ==
  ASSUME IInv, NEW d \in Domains, NEW stage \in {"robots", "metaError"},
         flight[d] # None,
         flight' = [flight EXCEPT ![d] = None],
         meta' \in [Domains -> {"none", "allows", "blocks"}],
         run' \in [Runs -> RunRecord],
         \A q \in Waiting(d) : /\ run'[q].at = stage
                               /\ run'[q].job = run[q].job /\ run'[q].page = run[q].page,
         \A q \in Runs \ Waiting(d) : run'[q] = run[q],
         QueueTyped', UNCHANGED <<seen, objects, parsing, cut, dropped, started, restarts>>
  PROVE  IInv'
<1>1. TypeOK'
  BY NoneAssumption DEF IInv, TypeOK, QueueTyped
<1>2. \A q \in Waiting(d) : run[q].at = "flight" /\ q \in Runs /\ run[q].job \in Jobs
  BY RunType DEF Waiting
<1>3. RunsSound'
  <2>1. SUFFICES ASSUME NEW q \in Runs
                 PROVE  /\ run'[q].at # "idle" => run'[q].job \in Jobs
                        /\ run'[q].live => run'[q].at # "idle"
                        /\ run'[q].at \in {"dedup", "store", "enqueue"} => run'[q].page \in Pages
    BY DEF RunsSound
  <2>2. CASE q \in Waiting(d)
    BY <1>2, <2>2
  <2>3. CASE q \notin Waiting(d)
    BY <2>3 DEF IInv, RunsSound
  <2> QED BY <2>2, <2>3
<1>4. FlightSound'
  <2>1. ASSUME NEW e \in Domains, flight'[e] # None PROVE flight'[e] \in Waiting(e)'
    <3>1. e # d /\ flight'[e] = flight[e]
      BY <2>1 DEF IInv, TypeOK
    <3>2. flight[e] \in Waiting(e)
      BY <2>1, <3>1 DEF IInv, FlightSound
    <3>3. flight[e] \notin Waiting(d)
      BY <3>1, <3>2 DEF Waiting
    <3> QED BY <3>1, <3>2, <3>3 DEF Waiting, Domain
  <2>2. ASSUME NEW q \in Runs, run'[q].at = "flight" PROVE flight'[Domain(q)'] # None
    <3>1. q \notin Waiting(d) /\ run'[q] = run[q]
      BY <2>2
    <3>2. Domain(q) # d /\ Domain(q) \in Domains /\ flight[Domain(q)] # None
      BY <2>2, <3>1, RunType DEF Waiting, IInv, FlightSound
    <3> QED BY <3>1, <3>2 DEF Domain, IInv, TypeOK
  <2> QED BY <2>1, <2>2 DEF FlightSound
<1>5. IndexSound' /\ AdmittedIsKept'
  <2>1. \A q \in Waiting(d) : ~Bringing(q) /\ ~Bringing(q)'
    BY <1>2 DEF Bringing
  <2>2. \A q \in Runs \ Waiting(d) : Bringing(q)' <=> Bringing(q)
    BY DEF Bringing
  <2> QED BY <2>1, <2>2, IndexFrame
<1> QED BY <1>1, <1>3, <1>4, <1>5 DEF IInv

LEMMA FlightLandsIInv ==
  ASSUME IInv, NEW d \in Domains, NEW robots \in {"allows", "blocks"}, FlightLands(d, robots)
  PROVE  IInv'
<1>1. meta' \in [Domains -> {"none", "allows", "blocks"}]
  BY DEF FlightLands, IInv, TypeOK
<1>2. run' = [q \in Runs |->
                IF q \in Waiting(d)
                THEN [run[q] EXCEPT !.at = "robots", !.robots = robots] ELSE run[q]]
  BY DEF FlightLands, Landing
<1>3. \A q \in Runs : [run[q] EXCEPT !.at = "robots", !.robots = robots] \in RunRecord
  BY RunType DEF RunRecord, Stages
<1>4. run' \in [Runs -> RunRecord]
  BY <1>2, <1>3 DEF IInv, TypeOK
<1>5. \A q \in Waiting(d) : /\ run'[q].at = "robots"
                            /\ run'[q].job = run[q].job /\ run'[q].page = run[q].page
  BY <1>2, RunType DEF RunRecord, Waiting
<1>6. \A q \in Runs \ Waiting(d) : run'[q] = run[q]
  BY <1>2
<1>7. QueueTyped' /\ UNCHANGED <<seen, objects, parsing, cut, dropped, started, restarts>>
  BY DEF FlightLands, indexVars, storeVars, boundVars, queueVars, QueueTyped, IInv, TypeOK
<1> QED BY <1>1, <1>4, <1>5, <1>6, <1>7, FlightEndsIInv DEF FlightLands

LEMMA FlightFailsIInv ==
  ASSUME IInv, NEW d \in Domains, FlightFails(d)
  PROVE  IInv'
<1>1. meta' \in [Domains -> {"none", "allows", "blocks"}]
  BY DEF FlightFails, IInv, TypeOK
<1>2. run' = [q \in Runs |->
                IF q \in Waiting(d) THEN [run[q] EXCEPT !.at = "metaError"] ELSE run[q]]
  BY DEF FlightFails, Landing
<1>3. \A q \in Runs : [run[q] EXCEPT !.at = "metaError"] \in RunRecord
  BY RunType DEF RunRecord, Stages
<1>4. run' \in [Runs -> RunRecord]
  BY <1>2, <1>3 DEF IInv, TypeOK
<1>5. \A q \in Waiting(d) : /\ run'[q].at = "metaError"
                            /\ run'[q].job = run[q].job /\ run'[q].page = run[q].page
  BY <1>2, RunType DEF RunRecord, Waiting
<1>6. \A q \in Runs \ Waiting(d) : run'[q] = run[q]
  BY <1>2
<1>7. QueueTyped' /\ UNCHANGED <<seen, objects, parsing, cut, dropped, started, restarts>>
  BY DEF FlightFails, Fault, indexVars, storeVars, queueVars, QueueTyped, IInv, TypeOK
<1> QED BY <1>1, <1>4, <1>5, <1>6, <1>7, FlightEndsIInv DEF FlightFails

LEMMA MetaExpiresIInv ==
  ASSUME IInv, NEW d \in Domains, MetaExpires(d)
  PROVE  IInv'
<1>1. UNCHANGED <<queueVars, run, flight, seen, objects, parsing, cut, dropped, boundVars>>
  BY DEF MetaExpires, indexVars, storeVars, boundVars
<1>2. TypeOK'
  BY <1>1 DEF MetaExpires, IInv, TypeOK, queueVars, boundVars
<1> QED BY <1>1, <1>2
        DEF IInv, RunsSound, FlightSound, IndexSound, AdmittedIsKept, Bringing, Waiting, Domain

(* A run that ends without a parse job.                                    *)
LEMMA RunEndsIInv ==
  ASSUME IInv, NEW r \in Runs, NEW counts, End(r, counts), Fault \/ UNCHANGED faults,
         run[r].at # "flight",
         UNCHANGED <<meta, flight, seen, parsing, started, restarts>>,
         objects' \subseteq Pages, cut' \subseteq Pages, dropped' \subseteq Pages,
         cut \subseteq cut',
         Bringing(r) => run[r].page \in cut'
  PROVE  IInv'
<1>1. run' = [run EXCEPT ![r] = NoRun] /\ QueueTyped'
  BY CompleteType DEF End
<1>2. TypeOK'
  BY <1>1, NoRunFacts DEF IInv, TypeOK, QueueTyped
<1>3. RunsSound' /\ FlightSound' /\ IndexSound' /\ AdmittedIsKept'
  BY <1>1, NoRunFacts, OneRunMoves
<1> QED BY <1>2, <1>3 DEF IInv

(* A run that goes on to its next stage, with the page it has or got.      *)
LEMMA RunGoesIInv ==
  ASSUME IInv, NEW r \in Runs, NEW stage \in {"reserve", "fetch", "dedup", "enqueue"},
         NEW page \in Pages \union {None},
         run' = [run EXCEPT ![r] = [run[r] EXCEPT !.at = stage, !.page = page]],
         run[r].at \notin {"idle", "flight"},
         Bringing(r) <=> stage = "enqueue",
         stage = "enqueue" => page = run[r].page,
         stage = "dedup" => page \in Pages,
         UNCHANGED <<queueVars, meta, flight, seen, parsing, cut, dropped, boundVars>>,
         objects' \subseteq Pages
  PROVE  IInv'
<1> DEFINE next == [run[r] EXCEPT !.at = stage, !.page = page]
<1>1. next \in RunRecord /\ next.at = stage /\ next.page = page /\ next.job = run[r].job
  BY RunType DEF RunRecord, Stages
<1>2. run[r].job \in Jobs
  BY RunType
<1>3. stage = "enqueue" => page \in Pages
  BY DEF IInv, RunsSound, Bringing
<1>4. run' = [run EXCEPT ![r] = next]
  OBVIOUS
<1> HIDE DEF next
<1>5. TypeOK'
  BY <1>1, <1>4 DEF IInv, TypeOK, queueVars, boundVars
<1>6. RunsSound' /\ FlightSound' /\ IndexSound' /\ AdmittedIsKept'
  BY <1>1, <1>2, <1>3, <1>4, OneRunMoves
<1> QED BY <1>5, <1>6 DEF IInv

(* Goto keeps the page.                                                    *)
LEMMA GotoFacts ==
  ASSUME IInv, NEW r \in Runs, NEW stage, Goto(r, stage)
  PROVE  /\ run' = [run EXCEPT ![r] = [run[r] EXCEPT !.at = stage, !.page = run[r].page]]
         /\ run[r].page \in Pages \union {None}
         /\ UNCHANGED queueVars
<1>1. run[r] \in RunRecord
  BY RunType
<1>2. [run[r] EXCEPT !.at = stage] = [run[r] EXCEPT !.at = stage, !.page = run[r].page]
  BY <1>1 DEF RunRecord
<1> QED BY <1>1, <1>2 DEF Goto, RunRecord, IInv, TypeOK

LEMMA RobotsIInv ==
  ASSUME IInv, NEW r \in Runs, Robots(r)
  PROVE  IInv'
<1>1. /\ UNCHANGED <<meta, flight, seen, objects, parsing, cut, dropped, boundVars>>
      /\ UNCHANGED <<faults, started, restarts>> /\ run[r].at = "robots"
      /\ objects' \subseteq Pages /\ cut' \subseteq Pages /\ dropped' \subseteq Pages
  BY DEF Robots, metaVars, indexVars, storeVars, boundVars, IInv, TypeOK
<1>2. CASE Goto(r, "reserve")
  BY <1>1, <1>2, GotoFacts, RunGoesIInv DEF Bringing
<1>3. CASE Succeed(r)
  BY <1>1, <1>3, RunEndsIInv DEF Succeed, Bringing
<1> QED BY <1>2, <1>3 DEF Robots

LEMMA ReserveIInv ==
  ASSUME IInv, NEW r \in Runs, Reserve(r)
  PROVE  IInv'
<1>1. /\ UNCHANGED <<meta, flight, seen, objects, parsing, cut, dropped, boundVars>>
      /\ run[r].at = "reserve" /\ objects' \subseteq Pages
  BY DEF Reserve, metaVars, indexVars, storeVars, IInv, TypeOK
<1> QED BY <1>1, GotoFacts, RunGoesIInv DEF Reserve, Bringing

LEMMA LimitedIInv ==
  ASSUME IInv, NEW r \in Runs, NEW counts, Limited(r, counts)
  PROVE  IInv'
<1>1. /\ UNCHANGED <<meta, flight, seen, objects, parsing, cut, dropped, started, restarts>>
      /\ run[r].at = "reserve"
      /\ objects' \subseteq Pages /\ cut' \subseteq Pages /\ dropped' \subseteq Pages
      /\ Fault \/ UNCHANGED faults
  BY DEF Limited, metaVars, indexVars, storeVars, IInv, TypeOK
<1> QED BY <1>1, RunEndsIInv DEF Limited, Bringing

LEMMA FetchIInv ==
  ASSUME IInv, NEW r \in Runs, Fetch(r)
  PROVE  IInv'
<1>1. /\ UNCHANGED <<meta, flight, seen, objects, parsing, cut, dropped, boundVars>>
      /\ UNCHANGED <<faults, started, restarts>> /\ run[r].at = "fetch"
      /\ objects' \subseteq Pages /\ cut' \subseteq Pages /\ dropped' \subseteq Pages
  BY DEF Fetch, metaVars, indexVars, storeVars, boundVars, IInv, TypeOK
<1>2. CASE \E page \in Served[run[r].job] :
             run' = [run EXCEPT ![r].at = "dedup", ![r].page = page] /\ UNCHANGED queueVars
  <2>1. PICK page \in Served[run[r].job] :
          run' = [run EXCEPT ![r].at = "dedup", ![r].page = page]
    BY <1>2
  <2>2. page \in Pages
    BY <1>1, <2>1, RunType, JobAssumption
  <2>3. run' = [run EXCEPT ![r] = [run[r] EXCEPT !.at = "dedup", !.page = page]]
    BY <2>1 DEF IInv, TypeOK
  <2> QED BY <1>1, <1>2, <2>2, <2>3, RunGoesIInv DEF Bringing
<1>3. CASE Succeed(r)
  BY <1>1, <1>3, RunEndsIInv DEF Succeed, Bringing
<1> QED BY <1>2, <1>3 DEF Fetch

(* The one step that makes the index larger.                               *)
LEMMA AdmitIInv ==
  ASSUME IInv, NEW r \in Runs, Dedup(r), ~IsNearDuplicate(run[r].page),
         seen' = seen \union {run[r].page}, dropped' = dropped, Goto(r, "store")
  PROVE  IInv'
<1> DEFINE page == run[r].page
           next == [run[r] EXCEPT !.at = "store", !.page = page]
<1>1. /\ UNCHANGED <<queueVars, meta, flight, objects, parsing, cut, dropped, boundVars>>
      /\ run[r].at = "dedup" /\ run[r].job \in Jobs /\ page \in Pages
  BY RunType DEF Dedup, Goto, metaVars, storeVars, boundVars, IInv, RunsSound
<1>2. next \in RunRecord /\ next.at = "store" /\ next.page = page /\ next.job = run[r].job
  BY <1>1, RunType DEF RunRecord, Stages
<1>3. run' = [run EXCEPT ![r] = next]
  BY GotoFacts
<1> HIDE DEF next
<1>4. run'[r] = next /\ \A q \in Runs \ {r} : run'[q] = run[q]
  BY <1>3 DEF IInv, TypeOK
<1>5. page \notin seen /\ \A p \in seen : <<page, p>> \notin Near /\ <<p, page>> \notin Near
  <2>1. \A p \in seen : <<page, p>> \notin Near
    BY DEF IsNearDuplicate
  <2>2. seen \subseteq Pages
    BY DEF IInv, TypeOK
  <2> QED BY <1>1, <2>1, <2>2, NearAssumption
<1>6. parsing[page] = 0
  BY <1>1, <1>5 DEF IInv, TypeOK, IndexSound
<1>7. TypeOK'
  BY <1>1, <1>2, <1>3 DEF IInv, TypeOK, queueVars, boundVars
<1>8. RunsSound'
  BY <1>1, <1>2, <1>4 DEF IInv, RunsSound
<1>9. FlightSound'
  BY <1>1, <1>2, <1>4, FlightFrame
<1>10. \A q \in Runs \ {r} : Bringing(q)' => /\ Bringing(q)
                                            /\ run'[q].page = run[q].page
                                            /\ run[q].page \in seen
                                            /\ parsing[run[q].page] = 0
  BY <1>4 DEF Bringing, IInv, IndexSound
<1>11. IndexSound'
  <2>1. \A p, q \in seen' : <<p, q>> \in Near => p = q
    BY <1>5 DEF IInv, IndexSound
  <2>2. \A q \in Runs : Bringing(q)' => run'[q].page \in seen' /\ parsing'[run'[q].page] = 0
    BY <1>1, <1>2, <1>4, <1>6, <1>10
  <2>3. \A q, t \in Runs : Bringing(q)' /\ Bringing(t)' /\ run'[q].page = run'[t].page => q = t
    <3>1. \A q \in Runs \ {r} : Bringing(q)' => run'[q].page # page
      BY <1>5, <1>10
    <3>2. run'[r].page = page
      BY <1>2, <1>4
    <3> QED BY <1>10, <3>1, <3>2 DEF IInv, IndexSound
  <2>4. \A p \in Pages : parsing'[p] > 0 => p \in seen' /\ parsing'[p] = 1
    BY <1>1 DEF IInv, IndexSound
  <2> QED BY <2>1, <2>2, <2>3, <2>4 DEF IndexSound
<1>12. AdmittedIsKept'
  <2>1. SUFFICES ASSUME NEW p \in seen'
                 PROVE  \/ parsing'[p] > 0
                        \/ \E q \in Runs : run'[q].page = p /\ run'[q].at \in {"store", "enqueue"}
                        \/ p \in cut'
    BY DEF AdmittedIsKept
  <2>2. CASE p = page
    BY <1>2, <1>4, <2>2
  <2>3. CASE p \in seen
    <3>1. \A q \in Runs : run[q].at \in {"store", "enqueue"} => run'[q] = run[q]
      BY <1>1, <1>4
    <3> QED BY <1>1, <2>3, <3>1 DEF IInv, AdmittedIsKept
  <2> QED BY <2>1, <2>2, <2>3
<1> QED BY <1>7, <1>8, <1>9, <1>11, <1>12 DEF IInv

LEMMA DedupIInv ==
  ASSUME IInv, NEW r \in Runs, Dedup(r)
  PROVE  IInv'
<1>1. /\ UNCHANGED <<meta, flight, objects, parsing, cut, faults, started, restarts>>
      /\ run[r].at = "dedup" /\ run[r].page \in Pages
      /\ objects' \subseteq Pages /\ cut' \subseteq Pages /\ dropped \subseteq Pages
  BY DEF Dedup, metaVars, storeVars, boundVars, IInv, TypeOK, RunsSound
<1>2. CASE ~IsNearDuplicate(run[r].page)
  BY <1>2, AdmitIInv DEF Dedup
<1>3. CASE IsNearDuplicate(run[r].page)
  <2>1. Succeed(r) /\ seen' = seen /\ dropped' \subseteq Pages
    BY <1>1, <1>3 DEF Dedup
  <2> QED BY <1>1, <2>1, RunEndsIInv DEF Succeed, Bringing
<1> QED BY <1>2, <1>3

LEMMA StoreIInv ==
  ASSUME IInv, NEW r \in Runs, Store(r)
  PROVE  IInv'
<1>1. /\ UNCHANGED <<meta, flight, seen, parsing, cut, dropped, boundVars>>
      /\ run[r].at = "store" /\ run[r].page \in Pages
      /\ objects' \subseteq Pages
  BY DEF Store, metaVars, indexVars, boundVars, IInv, TypeOK, RunsSound
<1> QED BY <1>1, GotoFacts, RunGoesIInv DEF Store, Bringing

LEMMA EnqueueParseIInv ==
  ASSUME IInv, NEW r \in Runs, EnqueueParse(r)
  PROVE  IInv'
<1>1. /\ UNCHANGED <<meta, flight, seen, objects, cut, dropped, started, restarts>>
      /\ run[r].at = "enqueue" /\ run[r].page \in Pages
      /\ run' = [run EXCEPT ![r] = NoRun] /\ Complete(r, {}) /\ UNCHANGED faults
      /\ parsing' = [parsing EXCEPT ![run[r].page] = @ + 1]
  BY DEF EnqueueParse, Succeed, End, metaVars, indexVars, boundVars, IInv, RunsSound
<1>2. QueueTyped'
  BY <1>1, CompleteType
<1>3. TypeOK'
  BY <1>1, <1>2, NoRunFacts DEF IInv, TypeOK, QueueTyped
<1> QED BY <1>1, <1>3, ParseJobQueued DEF IInv

LEMMA CallFailsIInv ==
  ASSUME IInv, NEW r \in Runs, NEW counts, CallFails(r, counts)
  PROVE  IInv'
<1>1. /\ UNCHANGED <<meta, flight, seen, dropped, started, restarts>>
      /\ run[r].at \notin {"idle", "flight", "dedup"}
      /\ End(r, counts) /\ (Fault \/ UNCHANGED faults)
      /\ Bringing(r) => run[r].page \in Pages
      /\ cut' = IF Bringing(r) THEN cut \union {run[r].page} ELSE cut
  BY DEF CallFails, Bringing, metaVars, indexVars, IInv, RunsSound
<1>2. /\ cut' \subseteq Pages /\ cut \subseteq cut' /\ dropped' \subseteq Pages
      /\ Bringing(r) => run[r].page \in cut'
  BY <1>1 DEF IInv, TypeOK
<1>3. CASE parsing' = parsing
  <2>1. objects' \subseteq Pages
    BY <1>1 DEF CallFails, Bringing, IInv, TypeOK
  <2>2. UNCHANGED <<meta, flight, seen, parsing, started, restarts>> /\ run[r].at # "flight"
    BY <1>1, <1>3
  <2> QED BY <1>1, <1>2, <2>1, <2>2, RunEndsIInv
<1>4. CASE /\ run[r].at = "enqueue"
           /\ parsing' = [parsing EXCEPT ![run[r].page] = @ + 1]
           /\ objects' = objects
  <2>1. run' = [run EXCEPT ![r] = NoRun] /\ QueueTyped'
    BY <1>1, CompleteType DEF End
  <2>2. TypeOK'
    BY <1>1, <1>2, <1>4, <2>1, NoRunFacts DEF IInv, TypeOK, Bringing, QueueTyped
  <2> QED BY <1>1, <1>2, <1>4, <2>1, <2>2, ParseJobQueued DEF IInv
<1> QED BY <1>3, <1>4 DEF CallFails

(* What a restart puts back.                                               *)
LEMMA AllPutBackType ==
  ASSUME NEW queue \in [Jobs -> [Attempts -> Nat]], NEW back \in SUBSET Runs,
         NEW jobOf, NEW countOf
  PROVE  AllPutBack(queue, back, jobOf, countOf) \in [Jobs -> [Attempts -> Nat]]
<1> DEFINE came(j, n) == {r \in back : jobOf[r] = j /\ countOf[r] + 1 = n}
<1>1. \A j \in Jobs, n \in Attempts : Cardinality(came(j, n)) \in Nat
  BY BoundAssumption, FS_Subset, FS_CardinalityType
<1>2. AllPutBack(queue, back, jobOf, countOf)
        = [j \in Jobs |-> [n \in Attempts |-> queue[j][n] + Cardinality(came(j, n))]]
  BY DEF AllPutBack
<1> HIDE DEF came
<1> QED BY <1>1, <1>2

LEMMA RestartIInv ==
  ASSUME IInv, NEW back \in SUBSET Live, Restart(back)
  PROVE  IInv'
<1> DEFINE jobOf == [r \in Runs |-> run[r].job]
           countOf == [r \in Runs |-> run[r].retries]
<1>1. /\ UNCHANGED <<meta, objects, started>>
      /\ restarts' \in Nat /\ faults' \in Nat
      /\ run' = [r \in Runs |-> NoRun] /\ flight' = [d \in Domains |-> None]
      /\ seen' = {} /\ cut' = {} /\ dropped' = {} /\ parsing' = [p \in Pages |-> 0]
      /\ todo' = AllPutBack(todo, back, jobOf, countOf)
      /\ failed' = AllFailed(failed, back, jobOf, countOf)
  BY DEF Restart, Fault, IInv, TypeOK
<1>2. back \subseteq Runs
  BY DEF Live
<1>3. todo' \in [Jobs -> [Attempts -> Nat]]
  BY <1>1, <1>2, AllPutBackType DEF IInv, TypeOK
<1>4. failed' \subseteq Jobs
  <2>1. \A r \in back : jobOf[r] \in Jobs
    BY <1>2 DEF Live, IInv, RunsSound
  <2> HIDE DEF jobOf, countOf
  <2> QED BY <1>1, <2>1 DEF AllFailed, IInv, TypeOK
<1>5. TypeOK'
  BY <1>1, <1>3, <1>4, NoRunFacts DEF IInv, TypeOK
<1>6. \A r \in Runs : run'[r].at = "idle" /\ run'[r].live = FALSE
  BY <1>1, NoRunFacts
<1>7. RunsSound' /\ FlightSound' /\ IndexSound' /\ AdmittedIsKept'
  BY <1>1, <1>6 DEF RunsSound, FlightSound, IndexSound, AdmittedIsKept, Bringing
<1> QED BY <1>5, <1>7 DEF IInv

(* A copy of a job is lost or doubled in the queue.                        *)
LEMMA QueueSlipsIInv ==
  ASSUME IInv, NEW j \in Jobs, NEW n \in Attempts, PopLost(j, n) \/ Doubled(j, n)
  PROVE  IInv'
<1>1. /\ UNCHANGED <<failed, run, meta, flight, seen, objects, parsing, started, restarts>>
      /\ UNCHANGED <<cut, dropped>> /\ faults' \in Nat
  BY DEF PopLost, Doubled, Fault, metaVars, indexVars, storeVars, IInv, TypeOK
<1>2. todo' \in [Jobs -> [Attempts -> Nat]]
  BY TakenType, PutBackType DEF PopLost, Doubled, IInv, TypeOK
<1>3. TypeOK'
  BY <1>1, <1>2 DEF IInv, TypeOK
<1> QED BY <1>1, <1>3
        DEF IInv, RunsSound, FlightSound, IndexSound, AdmittedIsKept, Bringing, Waiting, Domain

-----------------------------------------------------------------------------
LEMMA NextIInv == IInv /\ [Next]_vars => IInv'
<1>1. SUFFICES ASSUME IInv, [Next]_vars PROVE IInv'
  OBVIOUS
<1>2. ASSUME NEW r \in Runs, NEW j \in Jobs, NEW n \in Attempts, Start(r, j, n) PROVE IInv'
  BY <1>1, <1>2, StartIInv
<1>3. ASSUME NEW r \in Runs, NEW counts, Timeout(r, counts) PROVE IInv'
  BY <1>1, <1>3, TimeoutIInv
<1>4. ASSUME NEW r \in Runs, Step(r) PROVE IInv'
  BY <1>1, <1>4, MetaHitIInv, MetaMissIInv, RobotsIInv, ReserveIInv, LimitedIInv, FetchIInv,
     DedupIInv, StoreIInv, EnqueueParseIInv, CallFailsIInv DEF Step
<1>5. ASSUME NEW d \in Domains, FlightEnds(d) PROVE IInv'
  BY <1>1, <1>5, FlightLandsIInv, FlightFailsIInv DEF FlightEnds
<1>6. ASSUME NEW d \in Domains, MetaExpires(d) PROVE IInv'
  BY <1>1, <1>6, MetaExpiresIInv
<1>7. ASSUME NEW back \in SUBSET Live, Restart(back) PROVE IInv'
  BY <1>1, <1>7, RestartIInv
<1>9. ASSUME NEW j \in Jobs, NEW n \in Attempts, PopLost(j, n) \/ Doubled(j, n) PROVE IInv'
  BY <1>1, <1>9, QueueSlipsIInv
<1>8. CASE UNCHANGED vars
  BY <1>1, <1>8 DEF vars, IInv, TypeOK, RunsSound, FlightSound, IndexSound, AdmittedIsKept,
     Bringing, Waiting, Domain
<1> QED BY <1>1, <1>2, <1>3, <1>4, <1>5, <1>6, <1>7, <1>8, <1>9 DEF Next

(* The inductive invariant of the crawl job.                               *)
LEMMA IInvHolds == Spec => []IInv
BY InitIInv, NextIInv, PTL DEF Spec

(* Types.                                                                  *)
THEOREM TypeCorrect == Spec => []TypeOK
BY IInvHolds, PTL DEF IInv

(* IsNearDuplicate, which answers and admits under one lock, lets one run  *)
(* per kind of page through, however the runs overlap and fail.            *)
THEOREM OnceParsedHolds == Spec => []OnceParsed
<1>1. IInv => OnceParsed
  BY DEF IInv, IndexSound, OnceParsed
<1> QED BY <1>1, IInvHolds, PTL

(* A page in the index goes missing only when its run fails before it has  *)
(* put the parse job into the queue, be it that a call fails or that the   *)
(* context of the run ends before StoreRawData.                            *)
THEOREM AdmittedIsKeptHolds == Spec => []AdmittedIsKept
BY IInvHolds, PTL DEF IInv

(* singleflight: a run that waits has a leader that waits for the same     *)
(* domain.                                                                 *)
THEOREM FlightHasLeaderHolds == Spec => []FlightHasLeader
<1>1. IInv => FlightHasLeader
  BY RunType DEF IInv, FlightSound, FlightHasLeader
<1> QED BY <1>1, IInvHolds, PTL
=============================================================================
