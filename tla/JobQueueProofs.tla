---------------------------- MODULE JobQueueProofs ----------------------------
(***************************************************************************)
(* Theorems about the job queue that hold for every set of jobs and        *)
(* goroutines, every MAX_RETRIES, every pair of timeouts and every number  *)
(* of faults, crashes, stops and reaps.                                    *)
(***************************************************************************)
EXTENDS JobQueueProps, TLAPS, SequenceTheorems, FiniteSetTheorems

-----------------------------------------------------------------------------
(* Scores and priorities.                                                  *)

LEMMA PriorityOfScore ==
  ASSUME NEW s \in Int
  PROVE  ScoreToPriority(s) \in Priorities
BY DEF ScoreToPriority, Priorities

(* A higher score never gets a later list.                                 *)
LEMMA PriorityMonotone ==
  ASSUME NEW s \in Int, NEW t \in Int, s <= t
  PROVE  Rank[ScoreToPriority(t)] <= Rank[ScoreToPriority(s)]
BY DEF ScoreToPriority, Rank, Priorities

LEMMA PenalizedScore ==
  ASSUME NEW s \in Int, NEW n \in Nat
  PROVE  Penalize(s, n) \in Nat
BY DEF Penalize, AtLeast

(* The penalty never improves the list, even where it raises the score.    *)
LEMMA PenaltyNeverPromotes ==
  ASSUME NEW s \in Int, NEW n \in Nat
  PROVE  Rank[ScoreToPriority(s)] <= Rank[ScoreToPriority(Penalize(s, n))]
<1> DEFINE t == Penalize(s, n)
<1>1. t \in Nat
  BY PenalizedScore
<1>2. t <= s \/ t = 10
  BY DEF Penalize, AtLeast
<1>3. CASE t <= s
  BY <1>1, <1>3, PriorityMonotone
<1>4. CASE t = 10
  BY <1>4 DEF ScoreToPriority, Rank, Priorities
<1> QED BY <1>2, <1>3, <1>4

LEMMA AgedScore ==
  ASSUME NEW s \in Int, NEW waited \in Nat
  PROVE  /\ ApplyAging(s, waited) \in Int
         /\ s <= ApplyAging(s, waited)
         /\ ApplyAging(s, waited) <= s + 30
BY DEF ApplyAging, AtMost

-----------------------------------------------------------------------------
(* The inductive invariant: the types, with every copy that may still run  *)
(* (queued, held, tracked or about to be reaped) below its retry limit and *)
(* carrying the priority of its score.                                     *)

LiveCopy ==
  {c \in Copy : c.retries < MAX_RETRIES /\ c.prio = ScoreToPriority(c.score)}

DeadCopy == {c \in Copy : c.retries = MAX_RETRIES}

ReadyOK(r) == /\ r \in [Priorities -> Seq(LiveCopy)]
              /\ \A p \in Priorities : \A i \in 1..Len(r[p]) : r[p][i].prio = p

RetryOK(b) == IsABag(b) /\ DOMAIN b \subseteq LiveCopy

(* A key is younger than its timeout by at least what it has left to live, *)
(* but for the lag of its registration.                                    *)
KeyOK(key) == /\ key.ttl >= 1
              /\ key.age + key.ttl <= ProcessingTimeout + MaxLag

LiveKey == [copy : LiveCopy, age : Nat, ttl : Nat]

KeysOK(keys) == /\ keys \in [Jobs -> LiveKey \union {Null}]
                /\ \A j \in Jobs : keys[j] # Null => KeyOK(keys[j])

Busy == {"popped", "running", "requeue", "fail", "succeed"}

ProcsOK(p, h, t) ==
  /\ p \in [Procs -> Stages]
  /\ h \in [Procs -> LiveCopy \union {Null}]
  /\ t \in [Procs -> Nat]
  /\ \A w \in Procs : p[w] \in Busy <=> h[w] # Null
  /\ \A w \in Procs : p[w] = "popped" => t[w] <= MaxLag

DownOK(m, p) == m = "down" => \A w \in Procs : p[w] = "exited"

ListOK(list, ttl) == list \in [Jobs -> Nat] /\ ttl \in Nat

HistoryOK(s, t, b) == /\ s \subseteq Jobs
                      /\ t \in [Jobs -> SUBSET Events]
                      /\ b \in EventCount

ReapOK(c) == /\ c \in LiveCopy \union {Null}
             /\ MaxLag = 0 => c = Null

IInv ==
  /\ ReadyOK(ready)
  /\ RetryOK(retry)
  /\ failed \subseteq DeadCopy
  /\ ListOK(processing, procTTL)
  /\ KeysOK(jobKey)
  /\ results \in [Jobs -> {"none", "ok", "failed"}]
  /\ ProcsOK(pc, held, timer)
  /\ ReapOK(reaping)
  /\ mode \in {"up", "stopping", "down"}
  /\ DownOK(mode, pc)
  /\ HistoryOK(submitted, touched, budget)

-----------------------------------------------------------------------------
(* What the operators of the model do to well-formed values.               *)

LEMMA SeqOfFunction ==
  ASSUME NEW S, NEW n \in Nat, NEW s \in [1..n -> S]
  PROVE  s \in Seq(S)
<1>1. Seq(S) = UNION {[1..m -> S] : m \in Nat}
  OBVIOUS
<1> QED BY <1>1

LEMMA LiveCopyFields ==
  ASSUME NEW c \in LiveCopy
  PROVE  /\ c \in Copy /\ c # Null
         /\ c.id \in Jobs /\ c.retries \in Nat /\ c.retries < MAX_RETRIES
         /\ c.score \in Int /\ c.prio \in Priorities
         /\ c.prio = ScoreToPriority(c.score)
BY MaxRetriesAssumption, NullAssumption DEF LiveCopy, Copy

LEMMA NewCopyIsLive ==
  ASSUME NEW id \in Jobs, NEW score \in Int
  PROVE  NewCopy(id, score) \in LiveCopy
BY PriorityOfScore, MaxRetriesAssumption DEF NewCopy, LiveCopy, Copy

LEMMA AgedIsLive ==
  ASSUME NEW c \in LiveCopy, NEW waited \in Nat
  PROVE  Aged(c, waited) \in LiveCopy /\ Aged(c, waited).id = c.id
<1> DEFINE s == ApplyAging(c.score, waited)
<1>1. c \in Copy /\ c.score \in Int /\ c.retries < MAX_RETRIES
  BY LiveCopyFields
<1>2. s \in Int
  BY <1>1, AgedScore
<1>3. ScoreToPriority(s) \in Priorities
  BY <1>2, PriorityOfScore
<1> HIDE DEF s
<1>4. Aged(c, waited) = [c EXCEPT !.score = s, !.prio = ScoreToPriority(s)]
  BY DEF Aged, s
<1> QED BY <1>1, <1>2, <1>3, <1>4 DEF LiveCopy, Copy

LEMMA FailureOfLive ==
  ASSUME NEW c \in LiveCopy
  PROVE  /\ AfterFailure(c).id = c.id
         /\ AfterFailure(c).retries = c.retries + 1
         /\ IsDead(AfterFailure(c)) => AfterFailure(c) \in DeadCopy
         /\ ~IsDead(AfterFailure(c)) => AfterFailure(c) \in LiveCopy
         /\ Rank[c.prio] <= Rank[AfterFailure(c).prio]
<1> DEFINE n == c.retries + 1
           s == Penalize(c.score, n)
<1>1. /\ c \in Copy /\ c.score \in Int /\ c.retries \in Nat
      /\ c.retries < MAX_RETRIES /\ c.prio = ScoreToPriority(c.score)
      /\ c.prio \in Priorities
  BY LiveCopyFields
<1>2. n \in Nat /\ n \in 1..MAX_RETRIES
  BY <1>1, MaxRetriesAssumption
<1>3. s \in Int
  <2>1. s \in Nat
    BY <1>1, <1>2, PenalizedScore
  <2> QED BY <2>1
<1>4. Rank[c.prio] <= Rank[ScoreToPriority(s)]
  BY <1>1, <1>2, PenaltyNeverPromotes
<1>5. ScoreToPriority(s) \in Priorities
  BY <1>3, PriorityOfScore
<1>6. Rank[c.prio] <= Rank[c.prio]
  BY <1>1 DEF Rank, Priorities
<1> HIDE DEF n, s
<1>7. AfterFailure(c) = IF n >= MAX_RETRIES
                        THEN [c EXCEPT !.retries = n]
                        ELSE [c EXCEPT !.retries = n, !.score = s,
                                       !.prio = ScoreToPriority(s)]
  BY DEF AfterFailure, n, s
<1>8. CASE n >= MAX_RETRIES
  <2>1. AfterFailure(c) = [c EXCEPT !.retries = n] /\ n = MAX_RETRIES
    BY <1>2, <1>7, <1>8, MaxRetriesAssumption
  <2> QED BY <1>1, <1>2, <1>6, <2>1, MaxRetriesAssumption
          DEF IsDead, DeadCopy, Copy, n
<1>9. CASE ~(n >= MAX_RETRIES)
  <2>1. AfterFailure(c) = [c EXCEPT !.retries = n, !.score = s,
                                    !.prio = ScoreToPriority(s)]
    BY <1>7, <1>9
  <2>2. /\ AfterFailure(c) \in Copy
        /\ AfterFailure(c).id = c.id
        /\ AfterFailure(c).retries = n
        /\ AfterFailure(c).score = s
        /\ AfterFailure(c).prio = ScoreToPriority(s)
    <3>1. c = [id |-> c.id, retries |-> c.retries, score |-> c.score, prio |-> c.prio]
          /\ c.id \in Jobs
      BY <1>1 DEF Copy
    <3>2. AfterFailure(c) = [id |-> c.id, retries |-> n, score |-> s,
                             prio |-> ScoreToPriority(s)]
      BY <2>1, <3>1
    <3>3. n \in 0..MAX_RETRIES
      BY <1>2, MaxRetriesAssumption
    <3> QED BY <1>3, <1>5, <3>1, <3>2, <3>3 DEF Copy
  <2>3. n < MAX_RETRIES
    BY <1>2, <1>9, MaxRetriesAssumption
  <2>4. AfterFailure(c) \in LiveCopy
    BY <2>2, <2>3 DEF LiveCopy
  <2> QED BY <1>4, <1>9, <2>2, <2>4 DEF IsDead, n
<1> QED BY <1>8, <1>9

LEMMA PushedIsOK ==
  ASSUME ReadyOK(ready), NEW c \in LiveCopy
  PROVE  ReadyOK(Pushed(c))
<1>1. c.prio \in Priorities
  BY LiveCopyFields
<1>2. ready[c.prio] \in Seq(LiveCopy)
  BY <1>1 DEF ReadyOK
<1>3. /\ Append(ready[c.prio], c) \in Seq(LiveCopy)
      /\ Len(Append(ready[c.prio], c)) = Len(ready[c.prio]) + 1
      /\ \A i \in 1..Len(ready[c.prio]) :
            Append(ready[c.prio], c)[i] = ready[c.prio][i]
      /\ Append(ready[c.prio], c)[Len(ready[c.prio]) + 1] = c
  BY <1>2, AppendProperties
<1>4. Pushed(c) \in [Priorities -> Seq(LiveCopy)]
  BY <1>3 DEF Pushed, ReadyOK
<1>5. ASSUME NEW p \in Priorities, NEW i \in 1..Len(Pushed(c)[p])
      PROVE  Pushed(c)[p][i].prio = p
  <2>1. CASE p = c.prio
    <3>1. Pushed(c)[p] = Append(ready[c.prio], c)
      BY <2>1, <1>1 DEF Pushed, ReadyOK
    <3>2. Len(ready[c.prio]) \in Nat
      BY <1>2, LenProperties
    <3>3. i \in 1..Len(ready[c.prio]) \/ i = Len(ready[c.prio]) + 1
      BY <1>3, <3>1, <3>2
    <3> QED BY <1>1, <1>3, <2>1, <3>1, <3>3 DEF ReadyOK
  <2>2. CASE p # c.prio
    BY <2>2 DEF Pushed, ReadyOK
  <2> QED BY <2>1, <2>2
<1> QED BY <1>4, <1>5 DEF ReadyOK

LEMMA PoppedIsOK ==
  ASSUME ReadyOK(ready), NEW p \in Priorities, ready[p] # <<>>
  PROVE  /\ ReadyOK([ready EXCEPT ![p] = Tail(@)])
         /\ Head(ready[p]) \in LiveCopy
<1>1. ready[p] \in Seq(LiveCopy)
  BY DEF ReadyOK
<1>2. /\ Head(ready[p]) \in LiveCopy
      /\ Tail(ready[p]) \in Seq(LiveCopy)
      /\ Len(Tail(ready[p])) = Len(ready[p]) - 1
      /\ \A i \in 1..Len(Tail(ready[p])) : Tail(ready[p])[i] = ready[p][i + 1]
      /\ Len(ready[p]) \in Nat
  BY <1>1, HeadTailProperties, LenProperties
<1>3. \A i \in 1..Len(Tail(ready[p])) : i + 1 \in 1..Len(ready[p])
  BY <1>2
<1>4. \A i \in 1..Len(Tail(ready[p])) : Tail(ready[p])[i].prio = p
  BY <1>2, <1>3 DEF ReadyOK
<1> QED BY <1>1, <1>2, <1>4 DEF ReadyOK

LEMMA BagAddIsOK ==
  ASSUME NEW b, RetryOK(b), NEW c \in LiveCopy
  PROVE  RetryOK(BagAdd(b, c))
BY DEF RetryOK, IsABag, BagAdd

LEMMA BagRemoveIsOK ==
  ASSUME NEW b, RetryOK(b), NEW c
  PROVE  RetryOK(BagRemove(b, c))
BY DEF RetryOK, IsABag, BagRemove

LEMMA WithoutOneIsOK ==
  ASSUME NEW list \in [Jobs -> Nat], NEW id \in Jobs, NEW ttl \in Nat
  PROVE  /\ WithoutOne(list, id) \in [Jobs -> Nat]
         /\ TTLOf(list, ttl) \in Nat
BY DEF WithoutOne, TTLOf

LEMMA UntrackIsOK ==
  ASSUME ListOK(processing, procTTL), KeysOK(jobKey),
         results \in [Jobs -> {"none", "ok", "failed"}],
         NEW id \in Jobs, NEW k, NEW result \in {"ok", "failed"},
         Untrack(id, k, result)
  PROVE  /\ ListOK(processing', procTTL')
         /\ KeysOK(jobKey')
         /\ results' \in [Jobs -> {"none", "ok", "failed"}]
<1>1. processing' \in [Jobs -> Nat]
  BY WithoutOneIsOK DEF Untrack, ListOK
<1>2. procTTL' \in Nat
  BY <1>1 DEF Untrack, ListOK, TTLOf
<1>3. KeysOK(jobKey')
  BY DEF Untrack, KeysOK
<1> QED BY <1>1, <1>2, <1>3 DEF Untrack, ListOK

LEMMA TouchIsOK ==
  ASSUME touched \in [Jobs -> SUBSET Events], NEW ids, NEW e \in Events
  PROVE  Touch(ids, e) \in [Jobs -> SUBSET Events]
BY DEF Touch

LEMMA CutIsOK ==
  ASSUME HistoryOK(submitted, touched, budget), NEW isCut, NEW id, Cut(isCut, id)
  PROVE  /\ touched' \in [Jobs -> SUBSET Events]
         /\ budget' \in EventCount
<1>1. CASE UNCHANGED <<touched, budget>>
  BY <1>1 DEF HistoryOK
<1>2. CASE /\ budget.fault > 0
           /\ budget' = [budget EXCEPT !.fault = @ - 1]
           /\ touched' = Touch({id}, "fault")
  <2>1. "fault" \in Events
    BY DEF Events
  <2> QED BY <1>2, <2>1, TouchIsOK DEF HistoryOK, EventCount
<1> QED BY <1>1, <1>2 DEF Cut

LEMMA FinishIsOK ==
  ASSUME ProcsOK(pc, held, timer), NEW w \in Procs, Finish(w)
  PROVE  ProcsOK(pc', held', timer')
<1>1. LoopTop \in {"polling", "exited"}
  BY DEF LoopTop
<1> QED BY <1>1 DEF ProcsOK, Finish, Stages, Busy

LEMMA HeldIsLive ==
  ASSUME ProcsOK(pc, held, timer), NEW w \in Procs, pc[w] \in Busy
  PROVE  held[w] \in LiveCopy /\ held[w].id \in Jobs
<1>1. held[w] \in LiveCopy
  BY DEF ProcsOK
<1> QED BY <1>1, LiveCopyFields

(* A goroutine at work means a process that is up.                         *)
LEMMA BusyIsUp ==
  ASSUME IInv, NEW w \in Procs, pc[w] \in Busy
  PROVE  mode # "down" /\ \A p : DownOK(mode, p)
BY DEF IInv, DownOK, Busy

LEMMA InitIsOK == Init => IInv
<1> SUFFICES ASSUME Init PROVE IInv
  OBVIOUS
<1>1. ReadyOK(ready)
  BY EmptySeq DEF Init, ReadyOK
<1>2. RetryOK(retry)
  BY DEF Init, RetryOK, EmptyBag, SetToBag, IsABag
<1>3. ProcsOK(pc, held, timer)
  BY DEF Init, ProcsOK, Stages, Busy
<1>4. KeysOK(jobKey)
  BY DEF Init, KeysOK
<1>5. HistoryOK(submitted, touched, budget)
  BY BudgetAssumption DEF Init, HistoryOK
<1>6. ReapOK(reaping) /\ ListOK(processing, procTTL)
  BY DEF Init, ReapOK, ListOK
<1> QED BY <1>1, <1>2, <1>3, <1>4, <1>5, <1>6 DEF Init, IInv, DownOK

-----------------------------------------------------------------------------
(* One lemma per action.                                                   *)

LEMMA EnqueueIsOK ==
  ASSUME IInv, NEW id \in Jobs, NEW score \in Scores, Enqueue(id, score)
  PROVE  IInv'
<1>1. NewCopy(id, score) \in LiveCopy
  BY NewCopyIsLive, InputAssumption
<1>2. ReadyOK(ready')
  BY <1>1, PushedIsOK DEF IInv, Enqueue
<1>3. HistoryOK(submitted', touched', budget')
  BY DEF IInv, Enqueue, HistoryOK
<1> QED BY <1>2, <1>3 DEF IInv, Enqueue, processVars

LEMMA PopIsOK ==
  ASSUME IInv, NEW w \in Procs, Pop(w)
  PROVE  IInv'
<1>1. PICK p \in Priorities : /\ ready[p] # <<>>
                              /\ ready' = [ready EXCEPT ![p] = Tail(@)]
                              /\ held' = [held EXCEPT ![w] = Head(ready[p])]
  BY DEF Pop, FirstNonEmpty
<1>2. ReadyOK(ready') /\ Head(ready[p]) \in LiveCopy
  BY <1>1, PoppedIsOK DEF IInv
<1>3. Head(ready[p]) # Null
  BY <1>2, LiveCopyFields
<1>4. ProcsOK(pc', held', timer')
  BY <1>1, <1>2, <1>3, TimeoutAssumption DEF IInv, Pop, ProcsOK, Stages, Busy
<1> QED BY <1>2, <1>4 DEF IInv, Pop, historyVars, DownOK

LEMMA PopLostIsOK ==
  ASSUME IInv, NEW w \in Procs, PopLost(w)
  PROVE  IInv'
<1>1. PICK p \in Priorities : /\ ready[p] # <<>>
                              /\ ready' = [ready EXCEPT ![p] = Tail(@)]
                              /\ Cut(TRUE, Head(ready[p]).id)
  BY DEF PopLost, FirstNonEmpty
<1>2. ReadyOK(ready')
  BY <1>1, PoppedIsOK DEF IInv
<1>3. HistoryOK(submitted', touched', budget')
  BY <1>1, CutIsOK DEF IInv, PopLost, HistoryOK
<1>4. ProcsOK(pc', held', timer')
  BY FinishIsOK DEF IInv, PopLost
<1> QED BY <1>2, <1>3, <1>4 DEF IInv, PopLost, DownOK

LEMMA RegisterIsOK ==
  ASSUME IInv, NEW w \in Procs, NEW k \in 0..3, Register(w, k)
  PROVE  IInv'
<1> DEFINE c == held[w]
           key == [copy |-> c, age |-> timer[w], ttl |-> ProcessingTimeout]
<1>1. c \in LiveCopy /\ c.id \in Jobs
  BY HeldIsLive DEF IInv, Register, Busy
<1>2. key \in LiveKey /\ KeyOK(key)
  BY <1>1, TimeoutAssumption DEF IInv, Register, ProcsOK, LiveKey, KeyOK
<1>3. KeysOK(jobKey')
  <2>1. jobKey' = jobKey \/ jobKey' = [jobKey EXCEPT ![c.id] = key]
    BY DEF Register
  <2> HIDE DEF key
  <2> QED BY <1>1, <1>2, <2>1 DEF IInv, KeysOK
<1>4. ListOK(processing', procTTL')
  BY <1>1, TimeoutAssumption DEF IInv, Register, ListOK, RenewedTTL
<1>5. HistoryOK(submitted', touched', budget')
  BY CutIsOK DEF IInv, Register, HistoryOK
<1>6. ProcsOK(pc', held', timer')
  BY <1>1 DEF IInv, Register, ProcsOK, Stages, Busy
<1>7. DownOK(mode', pc')
  BY BusyIsUp DEF Register, Busy
<1> QED BY <1>3, <1>4, <1>5, <1>6, <1>7 DEF IInv, Register

LEMMA ExecDoneIsOK ==
  ASSUME IInv, NEW w \in Procs, NEW outcome, ExecDone(w, outcome)
  PROVE  IInv'
<1>1. ProcsOK(pc', held', timer')
  BY DEF IInv, ExecDone, ProcsOK, Stages, Busy
<1>2. HistoryOK(submitted', touched', budget')
  <2>1. CASE UNCHANGED <<budget, touched>>
    BY <2>1 DEF IInv, ExecDone, HistoryOK
  <2>2. CASE /\ budget.rate > 0
             /\ budget' = [budget EXCEPT !.rate = @ - 1]
             /\ touched' = Touch({held[w].id}, "rate")
    <3>1. "rate" \in Events
      BY DEF Events
    <3>2. touched' \in [Jobs -> SUBSET Events]
      BY <2>2, <3>1, TouchIsOK DEF IInv, HistoryOK
    <3>3. budget' \in EventCount
      BY <2>2 DEF IInv, HistoryOK, EventCount
    <3> QED BY <3>2, <3>3 DEF IInv, ExecDone, HistoryOK
  <2> QED BY <2>1, <2>2 DEF ExecDone
<1>3. DownOK(mode', pc')
  BY BusyIsUp DEF ExecDone, Busy
<1> QED BY <1>1, <1>2, <1>3 DEF IInv, ExecDone, redisVars

LEMMA ExecTimeoutIsOK ==
  ASSUME IInv, NEW w \in Procs, ExecTimeout(w)
  PROVE  IInv'
<1>1. ProcsOK(pc', held', timer')
  BY DEF IInv, ExecTimeout, ProcsOK, Stages, Busy
<1>2. DownOK(mode', pc')
  BY BusyIsUp DEF ExecTimeout, Busy
<1> QED BY <1>1, <1>2 DEF IInv, ExecTimeout, redisVars, historyVars

LEMMA RequeueIsOK ==
  ASSUME IInv, NEW w \in Procs, NEW added \in BOOLEAN, Requeue(w, added)
  PROVE  IInv'
<1>1. held[w] \in LiveCopy
  BY HeldIsLive DEF IInv, Requeue, Busy
<1>2. RetryOK(retry')
  BY <1>1, BagAddIsOK DEF IInv, Requeue
<1>3. ProcsOK(pc', held', timer')
  BY <1>1 DEF IInv, Requeue, ProcsOK, Stages, Busy
<1>4. HistoryOK(submitted', touched', budget')
  BY CutIsOK DEF IInv, Requeue, HistoryOK
<1>5. DownOK(mode', pc')
  BY BusyIsUp DEF Requeue, Busy
<1> QED BY <1>2, <1>3, <1>4, <1>5 DEF IInv, Requeue

LEMMA CompleteSuccessIsOK ==
  ASSUME IInv, NEW w \in Procs, NEW k, CompleteSuccess(w, k)
  PROVE  IInv'
<1>1. held[w].id \in Jobs
  BY HeldIsLive DEF IInv, CompleteSuccess, Busy
<1>2. /\ ListOK(processing', procTTL')
      /\ KeysOK(jobKey')
      /\ results' \in [Jobs -> {"none", "ok", "failed"}]
  BY <1>1, UntrackIsOK DEF IInv, CompleteSuccess
<1>3. ProcsOK(pc', held', timer')
  BY FinishIsOK DEF IInv, CompleteSuccess
<1>4. HistoryOK(submitted', touched', budget')
  BY CutIsOK DEF IInv, CompleteSuccess, HistoryOK
<1>5. DownOK(mode', pc')
  BY BusyIsUp DEF CompleteSuccess, Busy
<1> QED BY <1>2, <1>3, <1>4, <1>5 DEF IInv, CompleteSuccess

LEMMA CompleteFailureIsOK ==
  ASSUME IInv, NEW w \in Procs, NEW k, CompleteFailure(w, k)
  PROVE  IInv'
<1> DEFINE c == AfterFailure(held[w])
<1>1. held[w] \in LiveCopy /\ held[w].id \in Jobs
  BY HeldIsLive DEF IInv, CompleteFailure, Busy
<1>2. /\ IsDead(c) => c \in DeadCopy
      /\ ~IsDead(c) => c \in LiveCopy
  BY <1>1, FailureOfLive
<1>3. /\ ListOK(processing', procTTL')
      /\ KeysOK(jobKey')
      /\ results' \in [Jobs -> {"none", "ok", "failed"}]
  BY <1>1, UntrackIsOK DEF IInv, CompleteFailure
<1>4. failed' \subseteq DeadCopy
  BY <1>2 DEF IInv, CompleteFailure, FailedWith
<1>5. RetryOK(retry')
  BY <1>2, BagAddIsOK DEF IInv, CompleteFailure, RetryWith
<1>6. ProcsOK(pc', held', timer')
  BY FinishIsOK DEF IInv, CompleteFailure
<1>7. HistoryOK(submitted', touched', budget')
  BY CutIsOK DEF IInv, CompleteFailure, HistoryOK
<1>8. DownOK(mode', pc')
  BY BusyIsUp DEF CompleteFailure, Busy
<1> QED BY <1>3, <1>4, <1>5, <1>6, <1>7, <1>8 DEF IInv, CompleteFailure

LEMMA MoveRetryIsOK ==
  ASSUME IInv, NEW c \in DOMAIN retry, NEW waited \in Waits,
         NEW removed \in BOOLEAN, MoveRetry(c, waited, removed)
  PROVE  IInv'
<1>1. c \in LiveCopy
  BY DEF IInv, RetryOK
<1>2. Aged(c, waited) \in LiveCopy
  BY <1>1, AgedIsLive, InputAssumption
<1>3. ReadyOK(ready')
  BY <1>2, PushedIsOK DEF IInv, MoveRetry
<1>4. RetryOK(retry')
  BY BagRemoveIsOK DEF IInv, MoveRetry, RetryAfterMove
<1>5. HistoryOK(submitted', touched', budget')
  BY CutIsOK DEF IInv, MoveRetry, HistoryOK
<1> QED BY <1>3, <1>4, <1>5 DEF IInv, MoveRetry, processVars

(* Without lag no key is ever as old as the timeout.                       *)
LEMMA ReapScanIsOK ==
  ASSUME IInv, NEW id \in Jobs, ReapScan(id)
  PROVE  IInv'
<1> DEFINE key == jobKey[id]
<1>1. key \in LiveKey /\ KeyOK(key) /\ key.age >= ProcessingTimeout
  BY DEF IInv, ReapScan, IsStale, KeysOK
<1>2. key.age \in Nat /\ key.ttl \in Nat /\ key.copy \in LiveCopy
  BY <1>1 DEF LiveKey
<1>3. MaxLag # 0
  BY <1>1, <1>2, TimeoutAssumption DEF KeyOK
<1>4. ReapOK(reaping')
  BY <1>2, <1>3 DEF ReapScan, ReapOK
<1>5. HistoryOK(submitted', touched', budget')
  BY DEF IInv, ReapScan, HistoryOK, EventCount
<1> QED BY <1>4, <1>5 DEF IInv, ReapScan, redisVars

LEMMA ReapRequeueIsOK ==
  ASSUME IInv, NEW k \in 0..3, ReapRequeue(k)
  PROVE  IInv'
<1>1. reaping \in LiveCopy /\ reaping.id \in Jobs
  BY LiveCopyFields DEF IInv, ReapRequeue, ReapOK
<1>2. ReadyOK(ready')
  BY <1>1, PushedIsOK DEF IInv, ReapRequeue
<1>3. ListOK(processing', procTTL')
  <2>1. processing' \in [Jobs -> Nat]
    BY <1>1, WithoutOneIsOK DEF IInv, ReapRequeue, ListOK
  <2> QED BY <2>1 DEF IInv, ReapRequeue, ListOK, TTLOf
<1>4. KeysOK(jobKey')
  BY <1>1 DEF IInv, ReapRequeue, KeysOK
<1>5. HistoryOK(submitted', touched', budget')
  <2>1. CASE touched' = Touch({reaping.id}, "reaped") /\ UNCHANGED budget
    <3>1. "reaped" \in Events
      BY DEF Events
    <3> QED BY <2>1, <3>1, TouchIsOK DEF IInv, ReapRequeue, HistoryOK
  <2>2. CASE Cut(TRUE, reaping.id)
    BY <2>2, CutIsOK DEF IInv, ReapRequeue, HistoryOK
  <2> QED BY <2>1, <2>2 DEF ReapRequeue
<1>6. ReapOK(reaping')
  BY DEF ReapRequeue, ReapOK
<1> QED BY <1>2, <1>3, <1>4, <1>5, <1>6 DEF IInv, ReapRequeue

(* A tick moves one unit from what a key has left to its age.              *)
LEMMA TickIsOK ==
  ASSUME IInv, Tick
  PROVE  IInv'
<1>1. ProcsOK(pc', held', timer')
  <2>1. timer' \in [Procs -> Nat]
    BY DEF IInv, Tick, TimerAfterTick, ProcsOK
  <2>2. ASSUME NEW w \in Procs, pc[w] = "popped" PROVE timer'[w] <= MaxLag
    BY <2>2, TimeoutAssumption DEF IInv, Tick, TimerAfterTick, ProcsOK
  <2> QED BY <2>1, <2>2 DEF IInv, Tick, ProcsOK
<1>2. ASSUME NEW j \in Jobs
      PROVE  /\ jobKey'[j] \in LiveKey \union {Null}
             /\ jobKey'[j] # Null => KeyOK(jobKey'[j])
  <2> DEFINE key == jobKey[j]
  <2>1. jobKey'[j] = KeyAfterTick(key)
    BY DEF Tick
  <2>2. CASE key = Null \/ key.ttl <= 1
    BY <2>1, <2>2 DEF KeyAfterTick
  <2>3. CASE key # Null /\ ~(key.ttl <= 1)
    <3>1. key \in LiveKey /\ KeyOK(key)
      BY <2>3 DEF IInv, KeysOK
    <3>2. key.copy \in LiveCopy /\ key.age \in Nat /\ key.ttl \in Nat /\ key.ttl >= 2
      BY <2>3, <3>1 DEF LiveKey
    <3>3. jobKey'[j] = [key EXCEPT !.age = IF @ < ProcessingTimeout THEN @ + 1 ELSE @,
                                   !.ttl = @ - 1]
      BY <2>1, <2>3 DEF KeyAfterTick
    <3>4. jobKey'[j] = [copy |-> key.copy,
                        age |-> IF key.age < ProcessingTimeout THEN key.age + 1 ELSE key.age,
                        ttl |-> key.ttl - 1]
      BY <3>1, <3>3 DEF LiveKey
    <3> HIDE DEF key
    <3>5. jobKey'[j] \in LiveKey
      BY <3>2, <3>4 DEF LiveKey
    <3>6. KeyOK(jobKey'[j])
      BY <3>1, <3>2, <3>4, TimeoutAssumption DEF KeyOK
    <3> QED BY <3>5, <3>6
  <2> QED BY <2>2, <2>3
<1>3. KeysOK(jobKey')
  BY <1>2 DEF Tick, KeysOK
<1>4. ListOK(processing', procTTL')
  BY DEF IInv, Tick, ListOK, NoEntries
<1> QED BY <1>1, <1>3, <1>4 DEF IInv, Tick, historyVars

LEMMA GoDownIsOK ==
  ASSUME IInv, GoDown
  PROVE  /\ ReadyOK(ready') /\ RetryOK(retry') /\ failed' \subseteq DeadCopy
         /\ ListOK(processing', procTTL') /\ KeysOK(jobKey')
         /\ results' \in [Jobs -> {"none", "ok", "failed"}]
         /\ ReapOK(reaping') /\ mode' = "down"
BY DEF IInv, GoDown, ListOK, NoEntries, ReapOK

LEMMA ModeStepIsOK ==
  ASSUME IInv, Stop \/ Shutdown \/ Restart \/ \E w \in Procs : WorkerExit(w)
  PROVE  IInv'
<1>1. CASE Stop
  <2>1. HistoryOK(submitted', touched', budget')
    BY <1>1 DEF IInv, Stop, HistoryOK, EventCount
  <2> QED BY <1>1, <2>1 DEF IInv, Stop, redisVars, DownOK
<1>2. CASE Shutdown
  BY <1>2, GoDownIsOK DEF IInv, Shutdown, GoDown, DownOK
<1>3. CASE Restart
  <2>1. ProcsOK(pc', held', timer')
    BY <1>3 DEF IInv, Restart, ProcsOK, Stages, Busy, DownOK
  <2> QED BY <1>3, <2>1 DEF IInv, Restart, redisVars, historyVars, DownOK
<1>4. CASE \E w \in Procs : WorkerExit(w)
  <2>1. PICK w \in Procs : WorkerExit(w)
    BY <1>4
  <2>2. ProcsOK(pc', held', timer')
    BY <2>1 DEF IInv, WorkerExit, ProcsOK, Stages, Busy
  <2> QED BY <2>1, <2>2 DEF IInv, WorkerExit, redisVars, historyVars, DownOK
<1> QED BY <1>1, <1>2, <1>3, <1>4

LEMMA CrashIsOK ==
  ASSUME IInv, Crash
  PROVE  IInv'
<1>1. ProcsOK(pc', held', timer')
  BY DEF IInv, Crash, ProcsOK, Stages, Busy
<1>2. "crash" \in Events
  BY DEF Events
<1>3. touched' \in [Jobs -> SUBSET Events]
  BY <1>2, TouchIsOK DEF IInv, Crash, HistoryOK
<1>4. budget' \in EventCount /\ submitted' \subseteq Jobs
  BY DEF IInv, Crash, HistoryOK, EventCount, GoDown
<1>5. DownOK(mode', pc')
  BY DEF Crash, DownOK
<1> QED BY <1>1, <1>3, <1>4, <1>5, GoDownIsOK DEF IInv, Crash, HistoryOK

(* The inductive invariant is preserved by every step.                     *)
LEMMA NextIsOK == IInv /\ [Next]_vars => IInv'
<1> SUFFICES ASSUME IInv, [Next]_vars PROVE IInv'
  OBVIOUS
<1>1. CASE UNCHANGED vars
  BY <1>1 DEF IInv, vars, redisVars, processVars, historyVars
<1>2. CASE \E id \in Jobs, score \in Scores : Enqueue(id, score)
  BY <1>2, EnqueueIsOK
<1>3. ASSUME NEW w \in Procs, Pop(w) \/ PopLost(w) \/ ExecTimeout(w)
      PROVE  IInv'
  BY <1>3, PopIsOK, PopLostIsOK, ExecTimeoutIsOK
<1>4. ASSUME NEW w \in Procs, \E k \in 0..3 : Register(w, k)
      PROVE  IInv'
  BY <1>4, RegisterIsOK
<1>5. ASSUME NEW w \in Procs, \E outcome \in {"ok", "error", "rate"} : ExecDone(w, outcome)
      PROVE  IInv'
  BY <1>5, ExecDoneIsOK
<1>6. ASSUME NEW w \in Procs, \E added \in BOOLEAN : Requeue(w, added)
      PROVE  IInv'
  BY <1>6, RequeueIsOK
<1>7. ASSUME NEW w \in Procs, CompleteJob(w)
      PROVE  IInv'
  BY <1>7, CompleteSuccessIsOK, CompleteFailureIsOK DEF CompleteJob
<1>8. CASE ProcessRetryJobs
  BY <1>8, MoveRetryIsOK DEF ProcessRetryJobs
<1>9. CASE \E id \in Jobs : ReapScan(id)
  BY <1>9, ReapScanIsOK
<1>10. CASE \E k \in 0..3 : ReapRequeue(k)
  BY <1>10, ReapRequeueIsOK
<1>11. CASE Tick
  BY <1>11, TickIsOK
<1>12. CASE Stop \/ Shutdown \/ Restart \/ \E w \in Procs : WorkerExit(w)
  BY <1>12, ModeStepIsOK
<1>13. CASE Crash
  BY <1>13, CrashIsOK
<1> QED
  BY <1>1, <1>2, <1>3, <1>4, <1>5, <1>6, <1>7, <1>8, <1>9, <1>10, <1>11, <1>12, <1>13
  DEF Next

THEOREM IInvHolds == Spec => []IInv
BY InitIsOK, NextIsOK, PTL DEF Spec

-----------------------------------------------------------------------------
(* Type correctness.                                                       *)
THEOREM TypeCorrect == Spec => []TypeOK
<1>1. IInv => TypeOK
  <2> SUFFICES ASSUME IInv PROVE TypeOK
    OBVIOUS
  <2>1. LiveCopy \subseteq Copy /\ DeadCopy \subseteq Copy
    BY DEF LiveCopy, DeadCopy
  <2>2. ready \in [Priorities -> Seq(Copy)]
    <3>1. \A p \in Priorities : ready[p] \in Seq(LiveCopy)
      BY DEF IInv, ReadyOK
    <3>2. \A p \in Priorities : ready[p] \in [1..Len(ready[p]) -> Copy]
                               /\ Len(ready[p]) \in Nat
      BY <2>1, <3>1, LenProperties
    <3>3. \A p \in Priorities : ready[p] \in Seq(Copy)
      BY <3>2, SeqOfFunction
    <3> QED BY <3>3 DEF IInv, ReadyOK
  <2>3. jobKey \in [Jobs -> KeyRecord \union {Null}]
    BY <2>1 DEF IInv, KeysOK, LiveKey, KeyRecord
  <2>4. held \in [Procs -> Copy \union {Null}] /\ reaping \in Copy \union {Null}
    BY <2>1 DEF IInv, ProcsOK, ReapOK
  <2> QED BY <2>1, <2>2, <2>3, <2>4
          DEF IInv, TypeOK, RetryOK, ListOK, ProcsOK, HistoryOK
<1> QED BY <1>1, IInvHolds, PTL

LEMMA LiveCopiesAreLive ==
  ASSUME IInv, NEW c \in LiveCopies
  PROVE  c \in LiveCopy
<1>1. ASSUME NEW p \in Priorities, NEW i \in DOMAIN ready[p]
      PROVE  ready[p][i] \in LiveCopy
  <2>1. ready[p] \in Seq(LiveCopy)
    BY DEF IInv, ReadyOK
  <2> QED BY <2>1, ElementOfSeq, LenProperties
<1>2. DOMAIN retry \subseteq LiveCopy
  BY DEF IInv, RetryOK
<1>3. HeldCopies \subseteq LiveCopy
  BY DEF IInv, ProcsOK, HeldCopies
<1>4. CASE c \in ReadyCopies
  <2>1. PICK p \in Priorities : c \in {ready[p][i] : i \in DOMAIN ready[p]}
    BY <1>4 DEF ReadyCopies
  <2>2. PICK i \in DOMAIN ready[p] : c = ready[p][i]
    BY <2>1
  <2> QED BY <1>1, <2>2
<1> QED BY <1>2, <1>3, <1>4 DEF LiveCopies

(* No copy runs, or waits to run, with MAX_RETRIES failures behind it, and *)
(* a copy is given up after exactly that many, whatever faults, crashes    *)
(* and duplicates there were.                                              *)
THEOREM RetryBudgetHolds == Spec => []RetryBudget
<1>1. IInv => RetryBudget
  BY LiveCopiesAreLive DEF RetryBudget, IInv, LiveCopy, DeadCopy
<1> QED BY <1>1, IInvHolds, PTL

(* A queued copy waits in the list its own score asks for.                 *)
THEOREM QueuedByScoreHolds == Spec => []QueuedByScore
<1>1. IInv => QueuedByScore
  <2> SUFFICES ASSUME IInv PROVE QueuedByScore
    OBVIOUS
  <2>1. \A c \in LiveCopies : c.prio = ScoreToPriority(c.score)
    BY LiveCopiesAreLive DEF LiveCopy
  <2>2. ASSUME NEW p \in Priorities, NEW i \in DOMAIN ready[p]
        PROVE  ready[p][i].prio = p
    <3>1. ready[p] \in Seq(LiveCopy)
      BY DEF IInv, ReadyOK
    <3>2. i \in 1..Len(ready[p])
      BY <3>1, LenProperties
    <3> QED BY <3>2 DEF IInv, ReadyOK
  <2> QED BY <2>1, <2>2 DEF QueuedByScore
<1> QED BY <1>1, IInvHolds, PTL

(* Whatever ProcessingTimeout is, the reaper puts a job back only if time  *)
(* passed between VisibilityStart and the pipeline that follows it: the    *)
(* key it reads expires at the age at which it would act.                  *)
THEOREM ReaperIdleHolds == Spec => []ReaperIdle
<1>1. IInv => ReaperIdle
  BY DEF IInv, ReapOK, ReaperIdle
<1> QED BY <1>1, IInvHolds, PTL

-----------------------------------------------------------------------------
(* A list keeps its order when it is left alone, extended or served.       *)
InOrder(p) ==
  \/ /\ Len(ready'[p]) >= Len(ready[p])
     /\ SubSeq(ready'[p], 1, Len(ready[p])) = ready[p]
  \/ /\ ready[p] # <<>> /\ ready'[p] = Tail(ready[p])
     /\ \A q \in Priorities : Rank[q] < Rank[p] => ready[q] = <<>>

LEMMA PrefixOfItself ==
  ASSUME NEW S, NEW s \in Seq(S)
  PROVE  SubSeq(s, 1, Len(s)) = s
BY SubSeqFull

LEMMA PrefixOfAppended ==
  ASSUME NEW S, NEW s \in Seq(S), NEW c \in S
  PROVE  Len(Append(s, c)) >= Len(s) /\ SubSeq(Append(s, c), 1, Len(s)) = s
<1>1. /\ Append(s, c) \in Seq(S) /\ Len(s) \in Nat /\ Len(Append(s, c)) = Len(s) + 1
      /\ \A i \in 1..Len(s) : Append(s, c)[i] = s[i]
  BY AppendProperties, LenProperties
<1>2. /\ SubSeq(Append(s, c), 1, Len(s)) \in Seq(S)
      /\ Len(SubSeq(Append(s, c), 1, Len(s))) = Len(s)
      /\ \A i \in 1..Len(s) : SubSeq(Append(s, c), 1, Len(s))[i] = s[i]
  BY <1>1, SubSeqProperties
<1>3. SubSeq(Append(s, c), 1, Len(s)) = s
  BY <1>2, SeqEqual
<1> QED
  BY <1>1, <1>3

LEMMA SameListInOrder ==
  ASSUME IInv, NEW p \in Priorities, ready'[p] = ready[p]
  PROVE  InOrder(p)
<1>1. ready[p] \in Seq(LiveCopy) /\ Len(ready[p]) \in Nat
  BY DEF IInv, ReadyOK
<1>2. SubSeq(ready[p], 1, Len(ready[p])) = ready[p]
  BY <1>1, PrefixOfItself
<1>3. Len(ready'[p]) >= Len(ready[p]) /\ SubSeq(ready'[p], 1, Len(ready[p])) = ready[p]
  BY <1>1, <1>2
<1> QED
  BY <1>3 DEF InOrder

LEMMA UntouchedInOrder ==
  ASSUME IInv, ready' = ready
  PROVE  \A p \in Priorities : InOrder(p)
BY SameListInOrder

LEMMA PushedInOrder ==
  ASSUME IInv, NEW c \in LiveCopy, ready' = Pushed(c)
  PROVE  \A p \in Priorities : InOrder(p)
<1>1. ASSUME NEW p \in Priorities
      PROVE  InOrder(p)
  <2>1. ready[p] \in Seq(LiveCopy) /\ Len(ready[p]) \in Nat
    BY DEF IInv, ReadyOK
  <2>2. CASE p = c.prio
    <3>1. ready'[p] = Append(ready[p], c)
      BY <2>2 DEF Pushed, IInv, ReadyOK
    <3> QED
      BY <2>1, <3>1, PrefixOfAppended DEF InOrder
  <2>3. CASE p # c.prio
    <3>1. ready'[p] = ready[p]
      BY <2>3 DEF Pushed, IInv, ReadyOK
    <3> QED
      BY <3>1, SameListInOrder
  <2> QED
    BY <2>2, <2>3
<1> QED
  BY <1>1

LEMMA ServedHeadInOrder ==
  ASSUME IInv, NEW b \in Priorities, FirstNonEmpty(b),
         ready' = [ready EXCEPT ![b] = Tail(@)]
  PROVE  \A p \in Priorities : InOrder(p)
<1>1. ASSUME NEW p \in Priorities
      PROVE  InOrder(p)
  <2>2. CASE p = b
    BY <2>2 DEF InOrder, FirstNonEmpty, IInv, ReadyOK
  <2>3. CASE p # b
    <3>1. ready'[p] = ready[p]
      BY <2>3 DEF IInv, ReadyOK
    <3> QED
      BY <3>1, SameListInOrder
  <2> QED
    BY <2>2, <2>3
<1> QED
  BY <1>1

LEMMA StepsInOrder ==
  ASSUME IInv, [Next]_vars
  PROVE  \A p \in Priorities : InOrder(p)
<1>1. CASE \E id \in Jobs, score \in Scores : Enqueue(id, score)
  <2>1. PICK id \in Jobs, score \in Scores : Enqueue(id, score)
    BY <1>1
  <2>2. NewCopy(id, score) \in LiveCopy /\ ready' = Pushed(NewCopy(id, score))
    BY <2>1, NewCopyIsLive, InputAssumption DEF Enqueue
  <2> QED
    BY <2>2, PushedInOrder
<1>2. CASE \E w \in Procs : Pop(w) \/ PopLost(w)
  <2>1. PICK b \in Priorities : FirstNonEmpty(b) /\ ready' = [ready EXCEPT ![b] = Tail(@)]
    BY <1>2 DEF Pop, PopLost
  <2> QED
    BY <2>1, ServedHeadInOrder
<1>3. CASE ProcessRetryJobs
  <2>1. PICK c \in DOMAIN retry, waited \in Waits, removed \in BOOLEAN :
          MoveRetry(c, waited, removed)
    BY <1>3 DEF ProcessRetryJobs
  <2>2. Aged(c, waited) \in LiveCopy /\ ready' = Pushed(Aged(c, waited))
    BY <2>1, AgedIsLive, InputAssumption DEF MoveRetry, IInv, RetryOK
  <2> QED
    BY <2>2, PushedInOrder
<1>4. CASE \E k \in 0..3 : ReapRequeue(k)
  <2>1. PICK k \in 0..3 : ReapRequeue(k)
    BY <1>4
  <2>2. reaping \in LiveCopy
    BY <2>1 DEF ReapRequeue, IInv, ReapOK
  <2>3. ready' = ready \/ ready' = Pushed(reaping)
    BY <2>1 DEF ReapRequeue
  <2> QED
    BY <2>2, <2>3, UntouchedInOrder, PushedInOrder
<1>5. CASE \E w \in Procs : \/ \E k \in 0..3 : Register(w, k)
                            \/ \E outcome \in {"ok", "error", "rate"} : ExecDone(w, outcome)
                            \/ ExecTimeout(w)
                            \/ \E added \in BOOLEAN : Requeue(w, added)
                            \/ CompleteJob(w)
                            \/ WorkerExit(w)
  <2>1. ready' = ready
    BY <1>5 DEF Register, ExecDone, ExecTimeout, Requeue, CompleteJob, CompleteSuccess,
       CompleteFailure, WorkerExit, redisVars
  <2> QED
    BY <2>1, UntouchedInOrder
<1>6. CASE \/ \E id \in Jobs : ReapScan(id)
           \/ Tick \/ Stop \/ Shutdown \/ Crash \/ Restart \/ UNCHANGED vars
  <2>1. ready' = ready
    BY <1>6 DEF ReapScan, Tick, Stop, Shutdown, Crash, GoDown, Restart, redisVars, vars
  <2> QED
    BY <2>1, UntouchedInOrder
<1> QED
  BY <1>1, <1>2, <1>3, <1>4, <1>5, <1>6 DEF Next

(* No job of a list is passed by another job of the list, and a list is    *)
(* served only while every better one is empty.                            *)
THEOREM ServedInOrderHolds == Spec => ServedInOrder
<1>1. IInv /\ [Next]_vars =>
        [\A p \in Priorities :
           \/ /\ Len(ready'[p]) >= Len(ready[p])
              /\ SubSeq(ready'[p], 1, Len(ready[p])) = ready[p]
           \/ /\ ready[p] # <<>> /\ ready'[p] = Tail(ready[p])
              /\ \A q \in Priorities : Rank[q] < Rank[p] => ready[q] = <<>>]_vars
  BY StepsInOrder DEF InOrder
<1> QED
  BY <1>1, IInvHolds, PTL DEF Spec, ServedInOrder

-----------------------------------------------------------------------------
(***************************************************************************)
(* Where the copies of a job are, and what keeps track of them: the proofs *)
(* of FailureNeverPromotes, NoJobLost, SingleOwner, NoGhostEntries,        *)
(* KeyHasOwner and InFlightIsTracked, and of the refinement of             *)
(* JobLifecycle.                                                           *)
(***************************************************************************)
(* A failure never raises a job.                                           *)

LEMMA OnlyTheAddedGrows ==
  ASSUME NEW b, RetryOK(b), NEW d, NEW c \in DOMAIN BagAdd(b, d),
         Multiplicity(c, BagAdd(b, d)) > Multiplicity(c, b)
  PROVE  c = d
<1> SUFFICES ASSUME c # d PROVE FALSE
  OBVIOUS
<1>1. c \in DOMAIN b /\ BagAdd(b, d)[c] = b[c]
  BY DEF BagAdd
<1>2. b[c] \in Nat
  BY <1>1 DEF RetryOK, IsABag
<1> QED BY <1>1, <1>2 DEF Multiplicity

LEMMA NothingGrows ==
  ASSUME IInv, NEW c \in DOMAIN retry, Multiplicity(c, retry) > Multiplicity(c, retry)
  PROVE  FALSE
<1>1. Multiplicity(c, retry) \in Nat
  BY DEF IInv, RetryOK, IsABag, Multiplicity
<1> QED BY <1>1

FailureStep ==
  \A w \in Procs, c \in DOMAIN retry' :
    /\ pc[w] = "fail" /\ pc'[w] # "fail"
    /\ Multiplicity(c, retry') > Multiplicity(c, retry)
    => /\ c.id = held[w].id
       /\ c.retries = held[w].retries + 1
       /\ Rank[c.prio] >= Rank[held[w].prio]

LEMMA FailureStepHolds == IInv /\ [Next]_vars => FailureStep
<1> SUFFICES ASSUME IInv, [Next]_vars,
                    NEW w \in Procs, NEW c \in DOMAIN retry',
                    pc[w] = "fail", pc'[w] # "fail",
                    Multiplicity(c, retry') > Multiplicity(c, retry)
             PROVE  /\ c.id = held[w].id
                    /\ c.retries = held[w].retries + 1
                    /\ Rank[c.prio] >= Rank[held[w].prio]
  BY DEF FailureStep
<1>1. ~(retry' = retry)
  BY NothingGrows
<1>2. ~UNCHANGED vars
  BY <1>1 DEF vars, redisVars
<1>3. ASSUME NEW v \in Procs, NEW added \in BOOLEAN, Requeue(v, added)
      PROVE  FALSE
  BY <1>3 DEF IInv, ProcsOK, Requeue
<1>4. ASSUME NEW v \in Procs, NEW k, CompleteSuccess(v, k) PROVE FALSE
  BY <1>1, <1>4 DEF CompleteSuccess
<1>5. ~ProcessRetryJobs
  BY DEF ProcessRetryJobs, MoveRetry, processVars
<1>6. ASSUME NEW v \in Procs, \/ Pop(v) \/ PopLost(v) \/ ExecTimeout(v) \/ WorkerExit(v)
      PROVE  FALSE
  BY <1>1, <1>6 DEF Pop, PopLost, ExecTimeout, WorkerExit, redisVars
<1>7. ASSUME NEW v \in Procs, NEW x, Register(v, x) \/ ExecDone(v, x)
      PROVE  FALSE
  BY <1>1, <1>7 DEF Register, ExecDone, redisVars
<1>8. ASSUME NEW x, NEW y, Enqueue(x, y) \/ ReapScan(x) \/ ReapRequeue(x)
      PROVE  FALSE
  BY <1>1, <1>8 DEF Enqueue, ReapScan, ReapRequeue, redisVars
<1>9. ~(Tick \/ Stop \/ Shutdown \/ Crash \/ Restart)
  BY <1>1 DEF Tick, Stop, Shutdown, Crash, Restart, GoDown, redisVars
<1>10. PICK v \in Procs, k \in 0..4 : CompleteFailure(v, k)
  BY <1>2, <1>3, <1>4, <1>5, <1>6, <1>7, <1>8, <1>9 DEF Next, CompleteJob
<1>11. v = w
  BY <1>10 DEF IInv, ProcsOK, CompleteFailure, Finish
<1> DEFINE d == AfterFailure(held[w])
<1>12. held[w] \in LiveCopy
  BY HeldIsLive DEF IInv, Busy
<1>13. retry' = BagAdd(retry, d)
  BY <1>1, <1>10, <1>11 DEF CompleteFailure, RetryWith
<1>14. c = d
  BY <1>13, OnlyTheAddedGrows DEF IInv
<1>15. /\ d.id = held[w].id
       /\ d.retries = held[w].retries + 1
       /\ ~IsDead(d) => d \in LiveCopy
       /\ IsDead(d) => d \in DeadCopy
       /\ Rank[held[w].prio] <= Rank[d.prio]
  BY <1>12, FailureOfLive
<1>16. held[w].prio \in Priorities /\ d.prio \in Priorities
  BY <1>12, <1>15, LiveCopyFields DEF DeadCopy, Copy
<1>17. Rank[held[w].prio] \in Int /\ Rank[d.prio] \in Int
  BY <1>16 DEF Rank, Priorities
<1> HIDE DEF d
<1> QED BY <1>14, <1>15, <1>17

(* The copy that a failed run leaves in the retry set has one more retry   *)
(* and no better priority than the copy that was run.                      *)
THEOREM FailureNeverPromotesHolds == Spec => FailureNeverPromotes
<1>1. IInv /\ [Next]_vars => [FailureStep]_vars
  BY FailureStepHolds
<1>2. Spec => [][FailureStep]_vars
  BY <1>1, IInvHolds, PTL DEF Spec
<1>3. [][FailureStep]_vars => FailureNeverPromotes
  BY PTL DEF FailureStep, FailureNeverPromotes
<1> QED BY <1>2, <1>3, PTL

-----------------------------------------------------------------------------
(* No job is lost.  The invariant says where an enqueued job is in terms   *)
(* of its copies: in a ready list, in the retry set, in the hands of a     *)
(* goroutine, or behind a result.                                          *)

InReady(r, id) == \E p \in Priorities : \E i \in 1..Len(r[p]) : r[p][i].id = id
InRetry(b, id) == \E c \in DOMAIN b : c.id = id
InHand(h, id)  == \E w \in Procs : h[w] # Null /\ h[w].id = id
Ended(res, f, id) == res[id] = "ok" \/ \E c \in f : c.id = id

Kept(id) == \/ InReady(ready, id)
            \/ InRetry(retry, id)
            \/ InHand(held, id)
            \/ Ended(results, failed, id)

Exempt(id) == touched[id] \cap {"fault", "crash"} # {}

KeptInv == \A id \in submitted : Exempt(id) \/ Kept(id)

LEMMA PushedKeeps ==
  ASSUME ReadyOK(ready), NEW c \in LiveCopy
  PROVE  /\ InReady(Pushed(c), c.id)
         /\ \A id : InReady(ready, id) => InReady(Pushed(c), id)
<1> DEFINE q == ready[c.prio]
<1>1. c.prio \in Priorities /\ q \in Seq(LiveCopy)
  BY LiveCopyFields DEF ReadyOK
<1>2. /\ Len(q) \in Nat
      /\ Len(Append(q, c)) = Len(q) + 1
      /\ \A i \in 1..Len(q) : Append(q, c)[i] = q[i]
      /\ Append(q, c)[Len(q) + 1] = c
  BY <1>1, AppendProperties, LenProperties
<1>3. /\ Pushed(c)[c.prio] = Append(q, c)
      /\ \A p \in Priorities : p # c.prio => Pushed(c)[p] = ready[p]
  BY <1>1 DEF Pushed, ReadyOK
<1> HIDE DEF q
<1>4. InReady(Pushed(c), c.id)
  <2>1. Len(q) + 1 \in 1..Len(Pushed(c)[c.prio])
    BY <1>2, <1>3
  <2>2. Pushed(c)[c.prio][Len(q) + 1].id = c.id
    BY <1>2, <1>3
  <2> QED BY <1>1, <2>1, <2>2 DEF InReady
<1>5. ASSUME NEW id, InReady(ready, id) PROVE InReady(Pushed(c), id)
  <2>0. PICK p \in Priorities : \E i \in 1..Len(ready[p]) : ready[p][i].id = id
    BY <1>5 DEF InReady
  <2>1. PICK i \in 1..Len(ready[p]) : ready[p][i].id = id
    BY <2>0
  <2>2. CASE p = c.prio
    <3>1. i \in 1..Len(Pushed(c)[p]) /\ Pushed(c)[p][i] = ready[p][i]
      BY <1>2, <1>3, <2>2 DEF q
    <3> QED BY <2>1, <3>1 DEF InReady
  <2>3. CASE p # c.prio
    BY <1>3, <2>1, <2>3 DEF InReady
  <2> QED BY <2>2, <2>3
<1> QED BY <1>4, <1>5

LEMMA PoppedKeeps ==
  ASSUME ReadyOK(ready), NEW p \in Priorities, ready[p] # <<>>,
         NEW id, InReady(ready, id), Head(ready[p]).id # id
  PROVE  InReady([ready EXCEPT ![p] = Tail(@)], id)
<1> DEFINE r == [ready EXCEPT ![p] = Tail(@)]
<1>1. ready[p] \in Seq(LiveCopy)
  BY DEF ReadyOK
<1>2. /\ Len(ready[p]) \in Nat
      /\ Len(Tail(ready[p])) = Len(ready[p]) - 1
      /\ \A i \in 1..Len(Tail(ready[p])) : Tail(ready[p])[i] = ready[p][i + 1]
      /\ Head(ready[p]) = ready[p][1]
  BY <1>1, HeadTailProperties, LenProperties
<1>3. r[p] = Tail(ready[p]) /\ \A q \in Priorities : q # p => r[q] = ready[q]
  BY DEF ReadyOK
<1> SUFFICES InReady(r, id)
  OBVIOUS
<1> HIDE DEF r
<1>0. PICK q \in Priorities : \E i \in 1..Len(ready[q]) : ready[q][i].id = id
  BY DEF InReady
<1>4. PICK i \in 1..Len(ready[q]) : ready[q][i].id = id
  BY <1>0
<1>5. CASE q = p
  <2>1. i # 1
    BY <1>2, <1>4, <1>5
  <2>2. i - 1 \in 1..Len(r[p]) /\ r[p][i - 1] = ready[p][i]
    BY <1>2, <1>3, <1>4, <1>5, <2>1
  <2> QED BY <1>4, <1>5, <2>2 DEF InReady
<1>6. CASE q # p
  BY <1>3, <1>4, <1>6 DEF InReady
<1> QED BY <1>5, <1>6

LEMMA BagAddKeeps ==
  ASSUME NEW b, NEW c
  PROVE  /\ InRetry(BagAdd(b, c), c.id)
         /\ \A id : InRetry(b, id) => InRetry(BagAdd(b, c), id)
<1>1. DOMAIN BagAdd(b, c) = DOMAIN b \union {c}
  BY DEF BagAdd
<1> QED BY <1>1 DEF InRetry

LEMMA BagRemoveKeeps ==
  ASSUME NEW b, NEW c, NEW id, InRetry(b, id), c.id # id
  PROVE  InRetry(BagRemove(b, c), id)
<1>1. DOMAIN b \ {c} \subseteq DOMAIN BagRemove(b, c)
  BY DEF BagRemove
<1> QED BY <1>1 DEF InRetry

(* The special events of a job are never forgotten.                        *)
LEMMA CutRemembers ==
  ASSUME IInv, NEW isCut, NEW cid \in Jobs, Cut(isCut, cid)
  PROVE  /\ \A j \in Jobs : touched[j] \subseteq touched'[j]
         /\ isCut => "fault" \in touched'[cid]
BY DEF Cut, Touch, IInv, HistoryOK

(* A step that moves no copy and forgets no event.                         *)
LEMMA FrameKeeps ==
  ASSUME IInv, KeptInv, UNCHANGED <<ready, retry, failed, results, held, submitted>>,
         \A j \in Jobs : touched[j] \subseteq touched'[j]
  PROVE  KeptInv'
<1> SUFFICES ASSUME NEW id \in submitted, ~Exempt(id)'
             PROVE  Kept(id)'
  BY DEF KeptInv
<1>1. id \in Jobs
  BY DEF IInv, HistoryOK
<1>2. ~Exempt(id)
  BY <1>1 DEF Exempt
<1>3. Kept(id)
  BY <1>2 DEF KeptInv
<1> QED BY <1>3 DEF Kept

LEMMA EnqueueKeeps ==
  ASSUME IInv, KeptInv, NEW jid \in Jobs, NEW score \in Scores, Enqueue(jid, score)
  PROVE  KeptInv'
<1> SUFFICES ASSUME NEW id \in submitted', ~Exempt(id)'
             PROVE  Kept(id)'
  BY DEF KeptInv
<1> DEFINE c == NewCopy(jid, score)
<1>1. c \in LiveCopy /\ c.id = jid
  BY NewCopyIsLive, InputAssumption DEF NewCopy
<1>2. ready' = Pushed(c)
  BY DEF Enqueue
<1> HIDE DEF c
<1>3. CASE id = jid
  BY <1>1, <1>2, <1>3, PushedKeeps DEF IInv, Kept
<1>4. CASE id # jid
  <2>1. Kept(id)
    BY <1>4 DEF Enqueue, KeptInv, Exempt
  <2>2. InReady(ready, id) => InReady(ready', id)
    BY <1>1, <1>2, PushedKeeps DEF IInv
  <2> QED BY <2>1, <2>2 DEF Enqueue, Kept, processVars
<1> QED BY <1>3, <1>4

LEMMA PopKeeps ==
  ASSUME IInv, KeptInv, NEW w \in Procs, Pop(w)
  PROVE  KeptInv'
<1> SUFFICES ASSUME NEW id \in submitted, ~Exempt(id)'
             PROVE  Kept(id)'
  BY DEF KeptInv, Pop, historyVars
<1>1. Kept(id)
  BY DEF KeptInv, Pop, historyVars, Exempt
<1>2. PICK p \in Priorities : /\ ready[p] # <<>>
                              /\ ready' = [ready EXCEPT ![p] = Tail(@)]
                              /\ held' = [held EXCEPT ![w] = Head(ready[p])]
  BY DEF Pop, FirstNonEmpty
<1> DEFINE c == Head(ready[p])
<1>3. c \in LiveCopy /\ c # Null
  BY <1>2, PoppedIsOK, LiveCopyFields DEF IInv
<1>4. held'[w] = c
  BY <1>2 DEF IInv, ProcsOK
<1>5. CASE c.id = id
  BY <1>3, <1>4, <1>5 DEF Kept, InHand
<1>6. CASE c.id # id
  <2>1. InReady(ready, id) => InReady(ready', id)
    BY <1>2, <1>6, PoppedKeeps DEF IInv
  <2>2. InHand(held, id) => InHand(held', id)
    <3>1. held[w] = Null
      BY DEF IInv, ProcsOK, Pop, Busy
    <3> QED BY <1>2, <3>1 DEF InHand, IInv, ProcsOK
  <2> QED BY <1>1, <2>1, <2>2 DEF Kept, Pop
<1> QED BY <1>5, <1>6

LEMMA PopLostKeeps ==
  ASSUME IInv, KeptInv, NEW w \in Procs, PopLost(w)
  PROVE  KeptInv'
<1> SUFFICES ASSUME NEW id \in submitted, ~Exempt(id)'
             PROVE  Kept(id)'
  BY DEF KeptInv, PopLost
<1>1. PICK p \in Priorities : /\ ready[p] # <<>>
                              /\ ready' = [ready EXCEPT ![p] = Tail(@)]
                              /\ Cut(TRUE, Head(ready[p]).id)
  BY DEF PopLost, FirstNonEmpty
<1>2. id \in Jobs /\ Head(ready[p]).id \in Jobs
  BY <1>1, PoppedIsOK, LiveCopyFields DEF IInv, HistoryOK
<1>3. touched[id] \subseteq touched'[id] /\ "fault" \in touched'[Head(ready[p]).id]
  BY <1>1, <1>2, CutRemembers
<1>4. Kept(id) /\ Head(ready[p]).id # id
  BY <1>3 DEF KeptInv, Exempt
<1>5. InReady(ready, id) => InReady(ready', id)
  BY <1>1, <1>4, PoppedKeeps DEF IInv
<1>6. held[w] = Null
  BY DEF IInv, ProcsOK, PopLost, Busy
<1>7. held' = held
  BY <1>6 DEF IInv, ProcsOK, PopLost, Finish
<1> QED BY <1>4, <1>5, <1>7 DEF Kept, PopLost

LEMMA RequeueKeeps ==
  ASSUME IInv, KeptInv, NEW w \in Procs, NEW added \in BOOLEAN, Requeue(w, added)
  PROVE  KeptInv'
<1> SUFFICES ASSUME NEW id \in submitted, ~Exempt(id)'
             PROVE  Kept(id)'
  BY DEF KeptInv, Requeue
<1>1. id \in Jobs /\ held[w].id \in Jobs
  BY HeldIsLive DEF IInv, HistoryOK, Requeue, Busy
<1>2. touched[id] \subseteq touched'[id]
  BY <1>1, CutRemembers DEF Requeue
<1>3. Kept(id)
  BY <1>2 DEF KeptInv, Exempt
<1>4. InRetry(retry, id) => InRetry(retry', id)
  BY BagAddKeeps DEF Requeue
<1> QED BY <1>3, <1>4 DEF Kept, Requeue

(* The goroutine that is done with a job no longer holds it; the other     *)
(* goroutines hold what they held.                                         *)
LEMMA FinishKeeps ==
  ASSUME IInv, NEW w \in Procs, Finish(w), NEW id, InHand(held, id), held[w].id # id
  PROVE  InHand(held', id)
BY DEF InHand, Finish, IInv, ProcsOK

LEMMA CompleteSuccessKeeps ==
  ASSUME IInv, KeptInv, NEW w \in Procs, NEW k \in 0..3, CompleteSuccess(w, k)
  PROVE  KeptInv'
<1> SUFFICES ASSUME NEW id \in submitted, ~Exempt(id)'
             PROVE  Kept(id)'
  BY DEF KeptInv, CompleteSuccess
<1> DEFINE cid == held[w].id
<1>1. id \in Jobs /\ cid \in Jobs
  BY HeldIsLive DEF IInv, HistoryOK, CompleteSuccess, Busy
<1>2. /\ touched[id] \subseteq touched'[id]
      /\ k < 3 => "fault" \in touched'[cid]
  BY <1>1, CutRemembers DEF CompleteSuccess
<1>3. Kept(id)
  BY <1>2 DEF KeptInv, Exempt
<1>4. CASE cid = id
  <2>1. k >= 3
    BY <1>2, <1>4 DEF Exempt
  <2>2. results'[id] = "ok"
    BY <1>1, <1>4, <2>1 DEF CompleteSuccess, Untrack, IInv
  <2> QED BY <2>2 DEF Kept, Ended
<1>5. CASE cid # id
  <2>1. results'[id] = results[id]
    BY <1>1, <1>5 DEF CompleteSuccess, Untrack, IInv
  <2>2. InHand(held, id) => InHand(held', id)
    BY <1>5, FinishKeeps DEF CompleteSuccess
  <2> QED BY <1>3, <2>1, <2>2 DEF Kept, Ended, CompleteSuccess
<1> QED BY <1>4, <1>5

LEMMA CompleteFailureKeeps ==
  ASSUME IInv, KeptInv, NEW w \in Procs, NEW k \in 0..4, CompleteFailure(w, k)
  PROVE  KeptInv'
<1> SUFFICES ASSUME NEW id \in submitted, ~Exempt(id)'
             PROVE  Kept(id)'
  BY DEF KeptInv, CompleteFailure
<1> DEFINE cid == held[w].id
           c == AfterFailure(held[w])
<1>1. id \in Jobs /\ cid \in Jobs /\ held[w] \in LiveCopy
  BY HeldIsLive DEF IInv, HistoryOK, CompleteFailure, Busy
<1>2. /\ touched[id] \subseteq touched'[id]
      /\ k < 4 => "fault" \in touched'[cid]
  BY <1>1, CutRemembers DEF CompleteFailure
<1>3. Kept(id)
  BY <1>2 DEF KeptInv, Exempt
<1>4. c.id = cid
  BY <1>1, FailureOfLive
<1>5. CASE cid = id
  <2>1. k >= 4
    BY <1>2, <1>5 DEF Exempt
  <2>2. CASE IsDead(c)
    <3>1. c \in failed'
      BY <2>1, <2>2 DEF CompleteFailure, FailedWith
    <3> QED BY <1>4, <1>5, <3>1 DEF Kept, Ended
  <2>3. CASE ~IsDead(c)
    <3>1. retry' = BagAdd(retry, c)
      BY <2>1, <2>3 DEF CompleteFailure, RetryWith
    <3>2. InRetry(retry', c.id)
      BY <3>1, BagAddKeeps
    <3> QED BY <1>4, <1>5, <3>2 DEF Kept
  <2> QED BY <2>2, <2>3
<1>6. CASE cid # id
  <2>1. results'[id] = results[id]
    BY <1>1, <1>6 DEF CompleteFailure, Untrack, IInv
  <2>2. InHand(held, id) => InHand(held', id)
    BY <1>6, FinishKeeps DEF CompleteFailure
  <2>3. failed \subseteq failed'
    BY DEF CompleteFailure, FailedWith
  <2>4. InRetry(retry, id) => InRetry(retry', id)
    BY BagAddKeeps DEF CompleteFailure, RetryWith
  <2> QED BY <1>3, <2>1, <2>2, <2>3, <2>4 DEF Kept, Ended, CompleteFailure
<1> QED BY <1>5, <1>6

LEMMA MoveRetryKeeps ==
  ASSUME IInv, KeptInv, NEW c \in DOMAIN retry, NEW waited \in Waits,
         NEW removed \in BOOLEAN, MoveRetry(c, waited, removed)
  PROVE  KeptInv'
<1> SUFFICES ASSUME NEW id \in submitted, ~Exempt(id)'
             PROVE  Kept(id)'
  BY DEF KeptInv, MoveRetry
<1> DEFINE d == Aged(c, waited)
<1>1. c \in LiveCopy
  BY DEF IInv, RetryOK
<1>2. d \in LiveCopy /\ d.id = c.id
  BY <1>1, AgedIsLive, InputAssumption
<1>3. id \in Jobs /\ c.id \in Jobs
  BY <1>1, LiveCopyFields DEF IInv, HistoryOK
<1>4. touched[id] \subseteq touched'[id]
  BY <1>3, CutRemembers DEF MoveRetry
<1>5. Kept(id)
  BY <1>4 DEF KeptInv, Exempt
<1>6. ready' = Pushed(d)
  BY DEF MoveRetry
<1> HIDE DEF d
<1>7. CASE c.id = id
  BY <1>2, <1>6, <1>7, PushedKeeps DEF IInv, Kept
<1>8. CASE c.id # id
  <2>1. InReady(ready, id) => InReady(ready', id)
    BY <1>2, <1>6, PushedKeeps DEF IInv
  <2>2. InRetry(retry, id) => InRetry(retry', id)
    BY <1>8, BagRemoveKeeps DEF MoveRetry, RetryAfterMove
  <2> QED BY <1>5, <2>1, <2>2 DEF Kept, MoveRetry, processVars
<1> QED BY <1>7, <1>8

LEMMA ReapRequeueKeeps ==
  ASSUME IInv, KeptInv, NEW k \in 0..3, ReapRequeue(k)
  PROVE  KeptInv'
<1> SUFFICES ASSUME NEW id \in submitted, ~Exempt(id)'
             PROVE  Kept(id)'
  BY DEF KeptInv, ReapRequeue
<1>1. id \in Jobs /\ reaping \in LiveCopy /\ reaping.id \in Jobs
  BY LiveCopyFields DEF IInv, ReapRequeue, ReapOK, HistoryOK
<1>2. touched[id] \subseteq touched'[id]
  BY <1>1, CutRemembers DEF ReapRequeue, Touch, IInv, HistoryOK
<1>3. Kept(id)
  BY <1>2 DEF KeptInv, Exempt
<1>4. InReady(ready, id) => InReady(ready', id)
  BY <1>1, PushedKeeps DEF IInv, ReapRequeue
<1> QED BY <1>3, <1>4 DEF Kept, ReapRequeue

LEMMA CrashKeeps ==
  ASSUME IInv, KeptInv, Crash
  PROVE  KeptInv'
<1> SUFFICES ASSUME NEW id \in submitted, ~Exempt(id)'
             PROVE  Kept(id)'
  BY DEF KeptInv, Crash, GoDown
<1>1. id \in Jobs
  BY DEF IInv, HistoryOK
<1>2. touched[id] \subseteq touched'[id] /\ ~(id \in HeldJobs)
  BY <1>1 DEF Crash, Touch, IInv, HistoryOK, Exempt
<1>3. Kept(id)
  BY <1>2 DEF KeptInv, Exempt
<1>4. ~InHand(held, id)
  BY <1>2 DEF InHand, HeldJobs
<1> QED BY <1>3, <1>4 DEF Kept, Crash, GoDown

LEMMA KeptNext == IInv /\ KeptInv /\ [Next]_vars => KeptInv'
<1> SUFFICES ASSUME IInv, KeptInv, [Next]_vars PROVE KeptInv'
  OBVIOUS
<1>1. CASE UNCHANGED vars
  BY <1>1, FrameKeeps DEF vars, redisVars, processVars, historyVars
<1>2. ASSUME NEW w \in Procs, \E k \in 0..3 : Register(w, k) PROVE KeptInv'
  <2>1. PICK k \in 0..3 : Register(w, k)
    BY <1>2
  <2>2. held[w].id \in Jobs
    BY <2>1, HeldIsLive DEF IInv, Register, Busy
  <2>3. \A j \in Jobs : touched[j] \subseteq touched'[j]
    BY <2>1, <2>2, CutRemembers DEF Register
  <2> QED BY <2>1, <2>3, FrameKeeps DEF Register
<1>3. ASSUME NEW w \in Procs, NEW x, ExecDone(w, x) PROVE KeptInv'
  <2>1. \A j \in Jobs : touched[j] \subseteq touched'[j]
    BY <1>3 DEF ExecDone, Touch, IInv, HistoryOK
  <2> QED BY <1>3, <2>1, FrameKeeps DEF ExecDone, redisVars
<1>4. ASSUME NEW w \in Procs, ExecTimeout(w) \/ WorkerExit(w) PROVE KeptInv'
  BY <1>4, FrameKeeps DEF ExecTimeout, WorkerExit, redisVars, historyVars
<1>5. ASSUME NEW id \in Jobs, ReapScan(id) PROVE KeptInv'
  BY <1>5, FrameKeeps DEF ReapScan, redisVars
<1>6. CASE Tick \/ Stop \/ Restart
  BY <1>6, FrameKeeps DEF Tick, Stop, Restart, redisVars, historyVars
<1>7. CASE Shutdown
  BY <1>7, FrameKeeps DEF Shutdown, GoDown
<1>8. CASE \E id \in Jobs, score \in Scores : Enqueue(id, score)
  BY <1>8, EnqueueKeeps
<1>9. ASSUME NEW w \in Procs, Pop(w) \/ PopLost(w) PROVE KeptInv'
  BY <1>9, PopKeeps, PopLostKeeps
<1>10. ASSUME NEW w \in Procs, \E added \in BOOLEAN : Requeue(w, added) PROVE KeptInv'
  BY <1>10, RequeueKeeps
<1>11. ASSUME NEW w \in Procs, CompleteJob(w) PROVE KeptInv'
  BY <1>11, CompleteSuccessKeeps, CompleteFailureKeeps DEF CompleteJob
<1>12. CASE ProcessRetryJobs
  BY <1>12, MoveRetryKeeps DEF ProcessRetryJobs
<1>13. CASE \E k \in 0..3 : ReapRequeue(k)
  BY <1>13, ReapRequeueKeeps
<1>14. CASE Crash
  BY <1>14, CrashKeeps
<1> QED
  BY <1>1, <1>2, <1>3, <1>4, <1>5, <1>6, <1>7, <1>8, <1>9, <1>10, <1>11, <1>12, <1>13, <1>14
  DEF Next

LEMMA KeptMeansNoJobLost == IInv /\ KeptInv => NoJobLost
<1> SUFFICES ASSUME IInv, KeptInv, NEW id \in submitted,
                    Untouched(id, {"fault", "crash"}),
                    ~Settled(id), Queued(id) \union Holders(id) = {}
             PROVE  FALSE
  BY DEF NoJobLost
<1>1. Kept(id)
  BY DEF KeptInv, Exempt, Untouched
<1>2. CASE InReady(ready, id)
  <2>0. PICK p \in Priorities : \E i \in 1..Len(ready[p]) : ready[p][i].id = id
    BY <1>2 DEF InReady
  <2>1. PICK i \in 1..Len(ready[p]) : ready[p][i].id = id
    BY <2>0
  <2>2. i \in DOMAIN ready[p]
    <3>1. ready[p] \in Seq(LiveCopy)
      BY DEF IInv, ReadyOK
    <3> QED BY <3>1, LenProperties
  <2>3. <<"ready", p, i>> \in QueuedReady(id)
    BY <2>1, <2>2 DEF QueuedReady
  <2> QED BY <2>3 DEF Queued
<1>3. CASE InRetry(retry, id)
  <2>1. PICK c \in DOMAIN retry : c.id = id
    BY <1>3 DEF InRetry
  <2>2. 1 \in 1..retry[c]
    BY DEF IInv, RetryOK, IsABag
  <2>3. <<"retry", c, 1>> \in QueuedRetry(id)
    BY <2>1, <2>2 DEF QueuedRetry
  <2> QED BY <2>3 DEF Queued
<1>4. CASE InHand(held, id)
  BY <1>4 DEF InHand, Holders, Has
<1>5. CASE Ended(results, failed, id)
  BY <1>5 DEF Ended, Settled
<1> QED BY <1>1, <1>2, <1>3, <1>4, <1>5 DEF Kept

(* Every enqueued job whose own pipelines were not cut and that no crash   *)
(* hit in the hands of a goroutine is queued, held or ended; rate limits,  *)
(* reaps, stops and restarts lose nothing.                                 *)
THEOREM NoJobLostHolds == Spec => []NoJobLost
<1>1. Init => KeptInv
  BY DEF Init, KeptInv
<1> QED BY <1>1, IInvHolds, KeptNext, KeptMeansNoJobLost, PTL DEF Spec

-----------------------------------------------------------------------------
(* A job exists once.  A job to which nothing special happened has at most *)
(* one copy that waits or is held, and none before it is enqueued or after *)
(* it has ended.                                                           *)

SoleReady(r, id) ==
  \A p, q \in Priorities : \A i \in 1..Len(r[p]), j \in 1..Len(r[q]) :
    r[p][i].id = id /\ r[q][j].id = id => p = q /\ i = j

SoleRetry(b, id) ==
  \A c, d \in DOMAIN b : c.id = id /\ d.id = id => c = d /\ b[c] = 1

SoleHand(h, id) ==
  \A v, w \in Procs :
    h[v] # Null /\ h[v].id = id /\ h[w] # Null /\ h[w].id = id => v = w

Gone(id) == ~InReady(ready, id) /\ ~InRetry(retry, id) /\ ~InHand(held, id)

Sole(id) ==
  /\ SoleReady(ready, id) /\ SoleRetry(retry, id) /\ SoleHand(held, id)
  /\ InReady(ready, id) => ~InRetry(retry, id) /\ ~InHand(held, id)
  /\ InRetry(retry, id) => ~InHand(held, id)
  /\ id \notin submitted \/ Ended(results, failed, id) => Gone(id)
  /\ id \notin submitted => ~Ended(results, failed, id)
  /\ \A w \in Procs : pc[w] = "requeue" => held[w].id # id

Special(id) == touched[id] \cap {"rate", "reaped", "fault"} # {}

SoleInv == \A id \in Jobs : Special(id) \/ Sole(id)

(* Every element of a list that was pushed to is an old one or the pushed. *)
LEMMA PushedAt ==
  ASSUME ReadyOK(ready), NEW c \in LiveCopy,
         NEW p \in Priorities, NEW i \in 1..Len(Pushed(c)[p])
  PROVE  \/ i \in 1..Len(ready[p]) /\ Pushed(c)[p][i] = ready[p][i]
         \/ p = c.prio /\ i = Len(ready[p]) + 1 /\ Pushed(c)[p][i] = c
<1>1. ready[p] \in Seq(LiveCopy) /\ Len(ready[p]) \in Nat
  BY LenProperties DEF ReadyOK
<1>2. CASE p = c.prio
  <2>1. Pushed(c)[p] = Append(ready[p], c)
    BY <1>2 DEF Pushed, ReadyOK
  <2>2. /\ Len(Append(ready[p], c)) = Len(ready[p]) + 1
        /\ \A n \in 1..Len(ready[p]) : Append(ready[p], c)[n] = ready[p][n]
        /\ Append(ready[p], c)[Len(ready[p]) + 1] = c
    BY <1>1, AppendProperties
  <2>3. i \in 1..Len(ready[p]) \/ i = Len(ready[p]) + 1
    BY <1>1, <2>1, <2>2
  <2> QED BY <1>2, <2>1, <2>2, <2>3
<1>3. CASE p # c.prio
  BY <1>3 DEF Pushed, ReadyOK
<1> QED BY <1>2, <1>3

Popped(b) == [ready EXCEPT ![b] = Tail(@)]

(* Every element that is left after a BLPOP was there before it.           *)
LEMMA PoppedAt ==
  ASSUME ReadyOK(ready), NEW b \in Priorities, ready[b] # <<>>
  PROVE  \A p \in Priorities : \A i \in 1..Len(Popped(b)[p]) :
           LET k == IF p = b THEN i + 1 ELSE i
           IN  k \in 1..Len(ready[p]) /\ Popped(b)[p][i] = ready[p][k]
<1> SUFFICES ASSUME NEW p \in Priorities, NEW i \in 1..Len(Popped(b)[p])
             PROVE  LET k == IF p = b THEN i + 1 ELSE i
                    IN  k \in 1..Len(ready[p]) /\ Popped(b)[p][i] = ready[p][k]
  OBVIOUS
<1>1. ready[b] \in Seq(LiveCopy) /\ Len(ready[b]) \in Nat
  BY LenProperties DEF ReadyOK
<1>2. /\ Len(Tail(ready[b])) = Len(ready[b]) - 1
      /\ \A n \in 1..Len(Tail(ready[b])) : Tail(ready[b])[n] = ready[b][n + 1]
  BY <1>1, HeadTailProperties
<1>3. CASE p = b
  <2>1. Popped(b)[p] = Tail(ready[b])
    BY <1>3 DEF ReadyOK, Popped
  <2>2. i \in 1..(Len(ready[b]) - 1) /\ Popped(b)[p][i] = ready[b][i + 1]
    BY <1>2, <2>1
  <2> QED BY <1>1, <1>3, <2>2
<1>4. CASE p # b
  BY <1>4 DEF ReadyOK, Popped
<1> QED BY <1>3, <1>4

LEMMA PushedSole ==
  ASSUME ReadyOK(ready), NEW c \in LiveCopy, NEW id
  PROVE  /\ c.id # id /\ InReady(Pushed(c), id) => InReady(ready, id)
         /\ c.id # id /\ SoleReady(ready, id) => SoleReady(Pushed(c), id)
         /\ c.id = id /\ ~InReady(ready, id) => SoleReady(Pushed(c), id)
<1> DEFINE r == Pushed(c)
<1>1. \A p \in Priorities : \A i \in 1..Len(r[p]) :
        \/ i \in 1..Len(ready[p]) /\ r[p][i] = ready[p][i]
        \/ p = c.prio /\ i = Len(ready[p]) + 1 /\ r[p][i] = c
  BY PushedAt
<1> HIDE DEF r
<1>2. ASSUME c.id # id, InReady(r, id) PROVE InReady(ready, id)
  BY <1>1, <1>2 DEF InReady
<1>3. ASSUME c.id # id, SoleReady(ready, id) PROVE SoleReady(r, id)
  <2>1. \A p \in Priorities : \A i \in 1..Len(r[p]) :
          r[p][i].id = id => i \in 1..Len(ready[p]) /\ ready[p][i].id = id
    BY <1>1, <1>3
  <2> QED BY <1>3, <2>1 DEF SoleReady
<1>4. ASSUME c.id = id, ~InReady(ready, id) PROVE SoleReady(r, id)
  <2>1. \A p \in Priorities : \A i \in 1..Len(r[p]) :
          r[p][i].id = id => p = c.prio /\ i = Len(ready[p]) + 1
    BY <1>1, <1>4 DEF InReady
  <2> QED BY <2>1 DEF SoleReady
<1> QED BY <1>2, <1>3, <1>4 DEF r

LEMMA PoppedSole ==
  ASSUME ReadyOK(ready), NEW b \in Priorities, ready[b] # <<>>,
         NEW id
  PROVE  /\ InReady(Popped(b), id) => InReady(ready, id)
         /\ SoleReady(ready, id) => SoleReady(Popped(b), id)
         /\ Head(ready[b]).id = id => InReady(ready, id)
         /\ Head(ready[b]).id = id /\ SoleReady(ready, id) => ~InReady(Popped(b), id)
<1> DEFINE r == Popped(b)
           k(p, i) == IF p = b THEN i + 1 ELSE i
<1>1. \A p \in Priorities : \A i \in 1..Len(r[p]) :
        k(p, i) \in 1..Len(ready[p]) /\ r[p][i] = ready[p][k(p, i)]
  BY PoppedAt
<1> HIDE DEF r
<1>2. Head(ready[b]) = ready[b][1] /\ 1 \in 1..Len(ready[b])
  <2>1. ready[b] \in Seq(LiveCopy)
    BY DEF ReadyOK
  <2> QED BY <2>1, HeadTailProperties, LenProperties, EmptySeq
<1>3. ASSUME InReady(r, id) PROVE InReady(ready, id)
  <2>1. PICK p \in Priorities : \E i \in 1..Len(r[p]) : r[p][i].id = id
    BY <1>3 DEF InReady
  <2>2. PICK i \in 1..Len(r[p]) : r[p][i].id = id
    BY <2>1
  <2>3. k(p, i) \in 1..Len(ready[p]) /\ ready[p][k(p, i)].id = id
    BY <1>1, <2>2
  <2> QED BY <2>3 DEF InReady
<1>4. ASSUME SoleReady(ready, id) PROVE SoleReady(r, id)
  <2>1. SUFFICES ASSUME NEW p \in Priorities, NEW q \in Priorities,
                        NEW i \in 1..Len(r[p]), NEW j \in 1..Len(r[q]),
                        r[p][i].id = id, r[q][j].id = id
                 PROVE  p = q /\ i = j
    BY DEF SoleReady
  <2>2. /\ k(p, i) \in 1..Len(ready[p]) /\ ready[p][k(p, i)].id = id
        /\ k(q, j) \in 1..Len(ready[q]) /\ ready[q][k(q, j)].id = id
    BY <1>1, <2>1
  <2> HIDE DEF k
  <2>3. p = q /\ k(p, i) = k(q, j)
    BY <1>4, <2>2 DEF SoleReady
  <2> QED BY <2>3 DEF k
<1>5. ASSUME Head(ready[b]).id = id PROVE InReady(ready, id)
  BY <1>2, <1>5 DEF InReady
<1>6. ASSUME Head(ready[b]).id = id, SoleReady(ready, id), InReady(r, id) PROVE FALSE
  <2>1. PICK p \in Priorities : \E i \in 1..Len(r[p]) : r[p][i].id = id
    BY <1>6 DEF InReady
  <2>2. PICK i \in 1..Len(r[p]) : r[p][i].id = id
    BY <2>1
  <2>3. k(p, i) \in 1..Len(ready[p]) /\ ready[p][k(p, i)].id = id
    BY <1>1, <2>2
  <2>4. p = b /\ k(p, i) = 1
    BY <1>2, <1>6, <2>3 DEF SoleReady
  <2> QED BY <2>4
<1> QED BY <1>3, <1>4, <1>5, <1>6 DEF r

LEMMA BagAddSole ==
  ASSUME NEW b, NEW c, NEW id
  PROVE  /\ c.id # id /\ InRetry(BagAdd(b, c), id) => InRetry(b, id)
         /\ c.id # id /\ SoleRetry(b, id) => SoleRetry(BagAdd(b, c), id)
         /\ c.id = id /\ ~InRetry(b, id) => SoleRetry(BagAdd(b, c), id)
BY DEF BagAdd, InRetry, SoleRetry

LEMMA BagRemoveSole ==
  ASSUME NEW b, NEW c \in DOMAIN b, NEW id
  PROVE  /\ InRetry(BagRemove(b, c), id) => InRetry(b, id)
         /\ c.id # id /\ SoleRetry(b, id) => SoleRetry(BagRemove(b, c), id)
         /\ c.id = id /\ SoleRetry(b, id) => ~InRetry(BagRemove(b, c), id)
BY DEF BagRemove, InRetry, SoleRetry

(* A step that adds no copy of a job, ends nothing and lets nobody into    *)
(* the two queueings of a rate-limited run leaves the job single.          *)
LEMMA FewerCopies ==
  ASSUME NEW id, Sole(id),
         SoleReady(ready', id), InReady(ready', id) => InReady(ready, id),
         SoleRetry(retry', id), InRetry(retry', id) => InRetry(retry, id),
         SoleHand(held', id), InHand(held', id) => InHand(held, id),
         Ended(results', failed', id) => Ended(results, failed, id),
         id \in submitted' <=> id \in submitted,
         \A w \in Procs : pc'[w] = "requeue" => held'[w].id # id
  PROVE  Sole(id)'
BY DEF Sole, Gone

(* What an untouched job was before the step.                              *)
LEMMA StillPlain ==
  ASSUME SoleInv, NEW id \in Jobs, ~Special(id)',
         \A j \in Jobs : touched[j] \subseteq touched'[j]
  PROVE  ~Special(id) /\ Sole(id)
BY DEF SoleInv, Special

LEMMA SameCopiesSole ==
  ASSUME IInv, SoleInv, UNCHANGED <<ready, retry, failed, results, held, submitted>>,
         \A j \in Jobs : touched[j] \subseteq touched'[j],
         \A w \in Procs : pc'[w] = "requeue"
                           => pc[w] = "requeue" \/ "rate" \in touched'[held[w].id]
  PROVE  SoleInv'
<1> SUFFICES ASSUME NEW id \in Jobs, ~Special(id)'
             PROVE  Sole(id)'
  BY DEF SoleInv
<1>1. Sole(id)
  BY StillPlain
<1>2. \A w \in Procs : pc'[w] = "requeue" => held'[w].id # id
  BY <1>1 DEF Sole, Special
<1> QED BY <1>1, <1>2, FewerCopies DEF Sole

LEMMA EnqueueSole ==
  ASSUME IInv, SoleInv, NEW jid \in Jobs, NEW score \in Scores, Enqueue(jid, score)
  PROVE  SoleInv'
<1> SUFFICES ASSUME NEW id \in Jobs, ~Special(id)'
             PROVE  Sole(id)'
  BY DEF SoleInv
<1> DEFINE c == NewCopy(jid, score)
<1>1. c \in LiveCopy /\ c.id = jid /\ ready' = Pushed(c)
  BY NewCopyIsLive, InputAssumption DEF NewCopy, Enqueue
<1>2. /\ UNCHANGED <<retry, failed, results, pc, held, touched>>
      /\ jid \notin submitted /\ submitted' = submitted \union {jid}
  BY DEF Enqueue, processVars
<1> HIDE DEF c
<1>3. Sole(id)
  BY <1>2 DEF SoleInv, Special
<1>4. ReadyOK(ready)
  BY DEF IInv
<1>5. CASE id = jid
  <2>1. Gone(id) /\ ~Ended(results, failed, id)
    BY <1>2, <1>3, <1>5 DEF Sole
  <2>2. SoleReady(ready', id)
    BY <1>1, <1>4, <1>5, <2>1, PushedSole DEF Gone
  <2> QED BY <1>2, <1>3, <1>5, <2>1, <2>2 DEF Sole, Gone
<1>6. CASE id # jid
  <2>1. SoleReady(ready', id) /\ (InReady(ready', id) => InReady(ready, id))
    BY <1>1, <1>3, <1>4, <1>6, PushedSole DEF Sole
  <2> QED BY <1>2, <1>3, <1>6, <2>1, FewerCopies DEF Sole
<1> QED BY <1>5, <1>6

LEMMA PopSole ==
  ASSUME IInv, SoleInv, NEW w \in Procs, Pop(w)
  PROVE  SoleInv'
<1> SUFFICES ASSUME NEW id \in Jobs, ~Special(id)'
             PROVE  Sole(id)'
  BY DEF SoleInv
<1>1. PICK b \in Priorities : /\ ready[b] # <<>>
                              /\ ready' = Popped(b)
                              /\ held' = [held EXCEPT ![w] = Head(ready[b])]
  BY DEF Pop, FirstNonEmpty, Popped
<1>2. /\ UNCHANGED <<retry, failed, results, submitted, touched>>
      /\ pc' = [pc EXCEPT ![w] = "popped"] /\ pc[w] = "polling"
  BY DEF Pop, historyVars
<1>3. Sole(id)
  BY <1>2 DEF SoleInv, Special
<1>4. /\ InReady(ready', id) => InReady(ready, id)
      /\ SoleReady(ready', id)
      /\ Head(ready[b]).id = id => InReady(ready, id) /\ ~InReady(ready', id)
  BY <1>1, <1>3, PoppedSole DEF IInv, Sole
<1>5. held[w] = Null /\ held'[w] = Head(ready[b])
      /\ \A v \in Procs : v # w => held'[v] = held[v]
  BY <1>1, <1>2 DEF IInv, ProcsOK, Busy
<1>6. \A v \in Procs : pc'[v] = "requeue" => v # w /\ pc[v] = "requeue" /\ held'[v].id # id
  BY <1>2, <1>3, <1>5 DEF IInv, ProcsOK, Sole
<1>7. CASE Head(ready[b]).id = id
  <2>1. ~InRetry(retry, id) /\ ~InHand(held, id) /\ ~InReady(ready', id)
        /\ id \in submitted /\ ~Ended(results, failed, id)
    BY <1>3, <1>4, <1>7 DEF Sole, Gone
  <2>2. SoleHand(held', id)
    BY <1>5, <2>1 DEF SoleHand, InHand
  <2> QED BY <1>2, <1>3, <1>4, <1>6, <2>1, <2>2 DEF Sole
<1>8. CASE Head(ready[b]).id # id
  <2>1. SoleHand(held', id) /\ (InHand(held', id) => InHand(held, id))
    BY <1>3, <1>5, <1>8 DEF SoleHand, InHand, Sole
  <2> QED BY <1>2, <1>3, <1>4, <1>6, <2>1, FewerCopies DEF Sole
<1> QED BY <1>7, <1>8

LEMMA PopLostSole ==
  ASSUME IInv, SoleInv, NEW w \in Procs, PopLost(w)
  PROVE  SoleInv'
<1> SUFFICES ASSUME NEW id \in Jobs, ~Special(id)'
             PROVE  Sole(id)'
  BY DEF SoleInv
<1>1. PICK b \in Priorities : /\ ready[b] # <<>>
                              /\ ready' = Popped(b)
                              /\ Cut(TRUE, Head(ready[b]).id)
  BY DEF PopLost, FirstNonEmpty, Popped
<1>2. Head(ready[b]).id \in Jobs
  BY <1>1, PoppedIsOK, LiveCopyFields DEF IInv
<1>3. Sole(id)
  BY <1>1, <1>2, CutRemembers, StillPlain
<1>4. (InReady(ready', id) => InReady(ready, id)) /\ SoleReady(ready', id)
  BY <1>1, <1>3, PoppedSole DEF IInv, Sole
<1>5. held' = held /\ \A v \in Procs : pc'[v] = "requeue" => pc[v] = "requeue"
  <2>1. held[w] = Null
    BY DEF IInv, ProcsOK, PopLost, Busy
  <2> QED BY <2>1 DEF IInv, ProcsOK, PopLost, Finish, LoopTop
<1> QED BY <1>3, <1>4, <1>5, FewerCopies DEF PopLost, Sole

LEMMA RequeueSole ==
  ASSUME IInv, SoleInv, NEW w \in Procs, NEW added \in BOOLEAN, Requeue(w, added)
  PROVE  SoleInv'
<1> SUFFICES ASSUME NEW id \in Jobs, ~Special(id)'
             PROVE  Sole(id)'
  BY DEF SoleInv
<1>1. held[w].id \in Jobs
  BY HeldIsLive DEF IInv, Requeue, Busy
<1>2. Sole(id)
  BY <1>1, CutRemembers, StillPlain DEF Requeue
<1>3. held[w].id # id
  BY <1>2 DEF Sole, Requeue
<1>4. (InRetry(retry', id) => InRetry(retry, id)) /\ SoleRetry(retry', id)
  BY <1>2, <1>3, BagAddSole DEF Requeue, Sole
<1>5. \A v \in Procs : pc'[v] = "requeue" => pc[v] = "requeue"
  BY DEF Requeue, IInv, ProcsOK
<1> QED BY <1>2, <1>4, <1>5, FewerCopies DEF Requeue, Sole

(* What Finish leaves in the hands of the goroutines.                      *)
LEMMA FinishSole ==
  ASSUME IInv, NEW w \in Procs, held[w] # Null, Finish(w), NEW id
  PROVE  /\ InHand(held', id) => InHand(held, id)
         /\ SoleHand(held, id) => SoleHand(held', id)
         /\ held[w].id = id /\ SoleHand(held, id) => ~InHand(held', id)
         /\ \A v \in Procs : pc'[v] = "requeue" => v # w /\ pc[v] = "requeue"
                                                   /\ held'[v] = held[v]
BY DEF InHand, SoleHand, Finish, LoopTop, IInv, ProcsOK

LEMMA CompleteSuccessSole ==
  ASSUME IInv, SoleInv, NEW w \in Procs, NEW k \in 0..3, CompleteSuccess(w, k)
  PROVE  SoleInv'
<1> SUFFICES ASSUME NEW id \in Jobs, ~Special(id)'
             PROVE  Sole(id)'
  BY DEF SoleInv
<1>1. held[w] # Null /\ held[w].id \in Jobs
  BY HeldIsLive, LiveCopyFields DEF IInv, CompleteSuccess, Busy
<1>2. Sole(id)
  BY <1>1, CutRemembers, StillPlain DEF CompleteSuccess
<1>3. /\ InHand(held', id) => InHand(held, id)
      /\ SoleHand(held', id)
      /\ held[w].id = id => InHand(held, id) /\ ~InHand(held', id)
      /\ \A v \in Procs : pc'[v] = "requeue" => held'[v].id # id
  BY <1>1, <1>2, FinishSole DEF CompleteSuccess, Sole, InHand
<1>4. UNCHANGED <<ready, retry, failed, submitted>>
  BY DEF CompleteSuccess
<1>5. CASE held[w].id = id
  BY <1>2, <1>3, <1>4, <1>5 DEF Sole, Gone
<1>6. CASE held[w].id # id
  <2>1. results'[id] = results[id]
    BY <1>1, <1>6 DEF CompleteSuccess, Untrack, IInv
  <2>2. Ended(results', failed', id) => Ended(results, failed, id)
    BY <1>4, <2>1 DEF Ended
  <2> QED BY <1>2, <1>3, <1>4, <2>2, FewerCopies DEF Sole
<1> QED BY <1>5, <1>6

LEMMA CompleteFailureSole ==
  ASSUME IInv, SoleInv, NEW w \in Procs, NEW k \in 0..4, CompleteFailure(w, k)
  PROVE  SoleInv'
<1> SUFFICES ASSUME NEW id \in Jobs, ~Special(id)'
             PROVE  Sole(id)'
  BY DEF SoleInv
<1> DEFINE c == AfterFailure(held[w])
<1>1. held[w] # Null /\ held[w].id \in Jobs /\ c.id = held[w].id
  BY HeldIsLive, LiveCopyFields, FailureOfLive DEF IInv, CompleteFailure, Busy
<1>2. Sole(id) /\ (k < 4 => "fault" \in touched'[held[w].id])
  BY <1>1, CutRemembers, StillPlain DEF CompleteFailure
<1>3. /\ InHand(held', id) => InHand(held, id)
      /\ SoleHand(held', id)
      /\ held[w].id = id => InHand(held, id) /\ ~InHand(held', id)
      /\ \A v \in Procs : pc'[v] = "requeue" => held'[v].id # id
  BY <1>1, <1>2, FinishSole DEF CompleteFailure, Sole, InHand
<1>4. UNCHANGED <<ready, submitted>>
  BY DEF CompleteFailure
<1>5. /\ retry' = retry \/ retry' = BagAdd(retry, c)
      /\ \/ failed' = failed
         \/ failed' = failed \union {c} /\ retry' = retry
  BY DEF CompleteFailure, FailedWith, RetryWith
<1> HIDE DEF c
<1>6. CASE held[w].id = id
  <2>1. ~InReady(ready, id) /\ ~InRetry(retry, id) /\ id \in submitted
        /\ ~Ended(results, failed, id) /\ InHand(held, id)
    BY <1>2, <1>3, <1>6 DEF Sole, Gone
  <2>2. k = 4
    BY <1>2, <1>6 DEF Special
  <2>3. results'[id] = "failed"
    BY <1>6, <2>2 DEF CompleteFailure, Untrack, IInv
  <2>4. CASE failed' = failed
    <3>1. ~Ended(results', failed', id)
      BY <2>1, <2>3, <2>4 DEF Ended
    <3>2. SoleRetry(retry', id)
      BY <1>1, <1>2, <1>5, <1>6, <2>1, BagAddSole DEF Sole
    <3> QED BY <1>3, <1>4, <1>6, <1>2, <2>1, <3>1, <3>2 DEF Sole
  <2>5. CASE failed' = failed \union {c} /\ retry' = retry
    BY <1>2, <1>3, <1>4, <1>6, <2>1, <2>5 DEF Sole, Gone
  <2> QED BY <1>5, <2>4, <2>5
<1>7. CASE held[w].id # id
  <2>1. results'[id] = results[id]
    BY <1>1, <1>7 DEF CompleteFailure, Untrack, IInv
  <2>2. Ended(results', failed', id) => Ended(results, failed, id)
    BY <1>1, <1>5, <1>7, <2>1 DEF Ended
  <2>3. SoleRetry(retry', id) /\ (InRetry(retry', id) => InRetry(retry, id))
    BY <1>1, <1>2, <1>5, <1>7, BagAddSole DEF Sole
  <2> QED BY <1>2, <1>3, <1>4, <2>2, <2>3, FewerCopies DEF Sole
<1> QED BY <1>6, <1>7

LEMMA MoveRetrySole ==
  ASSUME IInv, SoleInv, NEW c \in DOMAIN retry, NEW waited \in Waits,
         NEW removed \in BOOLEAN, MoveRetry(c, waited, removed)
  PROVE  SoleInv'
<1> SUFFICES ASSUME NEW id \in Jobs, ~Special(id)'
             PROVE  Sole(id)'
  BY DEF SoleInv
<1> DEFINE d == Aged(c, waited)
<1>1. c \in LiveCopy /\ ReadyOK(ready)
  BY DEF IInv, RetryOK
<1>2. d \in LiveCopy /\ d.id = c.id /\ c.id \in Jobs
  BY <1>1, AgedIsLive, LiveCopyFields, InputAssumption
<1>3. Sole(id) /\ (~removed => "fault" \in touched'[c.id])
  BY <1>2, CutRemembers, StillPlain DEF MoveRetry
<1>4. /\ ready' = Pushed(d)
      /\ retry' = IF removed THEN BagRemove(retry, c) ELSE retry
      /\ UNCHANGED <<failed, results, pc, held, submitted>>
  BY DEF MoveRetry, RetryAfterMove, processVars
<1> HIDE DEF d
<1>5. CASE c.id = id
  <2>1. InRetry(retry, id)
    BY <1>5 DEF InRetry
  <2>2. retry' = BagRemove(retry, c)
    BY <1>3, <1>4, <1>5 DEF Special
  <2>3. ~InReady(ready, id) /\ ~InHand(held, id) /\ id \in submitted
        /\ ~Ended(results, failed, id)
    BY <1>3, <2>1 DEF Sole, Gone
  <2>4. ~InRetry(retry', id) /\ SoleRetry(retry', id)
    <3>1. ~InRetry(retry', id)
      BY <1>3, <1>5, <2>2, BagRemoveSole DEF Sole
    <3> QED BY <3>1 DEF InRetry, SoleRetry
  <2>5. SoleReady(ready', id)
    BY <1>1, <1>2, <1>4, <1>5, <2>3, PushedSole
  <2> QED BY <1>3, <1>4, <2>3, <2>4, <2>5 DEF Sole
<1>6. CASE c.id # id
  <2>1. SoleReady(ready', id) /\ (InReady(ready', id) => InReady(ready, id))
    BY <1>1, <1>2, <1>3, <1>4, <1>6, PushedSole DEF Sole
  <2>2. SoleRetry(retry', id) /\ (InRetry(retry', id) => InRetry(retry, id))
    BY <1>3, <1>4, <1>6, BagRemoveSole DEF Sole
  <2> QED BY <1>3, <1>4, <2>1, <2>2, FewerCopies DEF Sole
<1> QED BY <1>5, <1>6

LEMMA ReapRequeueSole ==
  ASSUME IInv, SoleInv, NEW k \in 0..3, ReapRequeue(k)
  PROVE  SoleInv'
<1> SUFFICES ASSUME NEW id \in Jobs, ~Special(id)'
             PROVE  Sole(id)'
  BY DEF SoleInv
<1>1. reaping \in LiveCopy /\ reaping.id \in Jobs /\ ReadyOK(ready)
  BY LiveCopyFields DEF IInv, ReapRequeue, ReapOK
<1>2. /\ \A j \in Jobs : touched[j] \subseteq touched'[j]
      /\ touched'[reaping.id] \cap {"reaped", "fault"} # {}
  BY <1>1, CutRemembers DEF ReapRequeue, Touch, IInv, HistoryOK
<1>3. Sole(id)
  BY <1>2, StillPlain
<1>4. reaping.id # id
  BY <1>2 DEF Special
<1>5. SoleReady(ready', id) /\ (InReady(ready', id) => InReady(ready, id))
  BY <1>1, <1>3, <1>4, PushedSole DEF Sole, ReapRequeue
<1> QED BY <1>3, <1>5, FewerCopies DEF ReapRequeue, Sole

LEMMA CrashSole ==
  ASSUME IInv, SoleInv, Crash
  PROVE  SoleInv'
<1> SUFFICES ASSUME NEW id \in Jobs, ~Special(id)'
             PROVE  Sole(id)'
  BY DEF SoleInv
<1>1. \A j \in Jobs : touched[j] \subseteq touched'[j]
  BY DEF Crash, Touch, IInv, HistoryOK
<1>2. Sole(id)
  BY <1>1, StillPlain
<1>3. ~InHand(held', id) /\ SoleHand(held', id)
  BY DEF Crash, InHand, SoleHand
<1>4. \A w \in Procs : pc'[w] # "requeue"
  BY DEF Crash
<1> QED BY <1>2, <1>3, <1>4, FewerCopies DEF Crash, GoDown, Sole

LEMMA SoleNext == IInv /\ SoleInv /\ [Next]_vars => SoleInv'
<1> SUFFICES ASSUME IInv, SoleInv, [Next]_vars PROVE SoleInv'
  OBVIOUS
<1>1. CASE UNCHANGED vars
  BY <1>1, SameCopiesSole DEF vars, redisVars, processVars, historyVars
<1>2. ASSUME NEW w \in Procs, NEW k \in 0..3, Register(w, k) PROVE SoleInv'
  <2>1. held[w].id \in Jobs
    BY <1>2, HeldIsLive DEF IInv, Register, Busy
  <2>2. \A j \in Jobs : touched[j] \subseteq touched'[j]
    BY <1>2, <2>1, CutRemembers DEF Register
  <2>3. \A v \in Procs : pc'[v] = "requeue" => pc[v] = "requeue"
    BY <1>2 DEF Register, IInv, ProcsOK
  <2> QED BY <1>2, <2>2, <2>3, SameCopiesSole DEF Register
<1>3. ASSUME NEW w \in Procs, NEW x, ExecDone(w, x) PROVE SoleInv'
  <2>1. \A j \in Jobs : touched[j] \subseteq touched'[j]
    BY <1>3 DEF ExecDone, Touch, IInv, HistoryOK
  <2>2. held[w].id \in Jobs
    BY <1>3, HeldIsLive DEF IInv, ExecDone, Busy
  <2>3. \A v \in Procs : pc'[v] = "requeue"
                          => pc[v] = "requeue" \/ "rate" \in touched'[held[v].id]
    BY <1>3, <2>2 DEF ExecDone, Touch, IInv, ProcsOK
  <2> QED BY <1>3, <2>1, <2>3, SameCopiesSole DEF ExecDone, redisVars
<1>4. ASSUME NEW w \in Procs, ExecTimeout(w) \/ WorkerExit(w) PROVE SoleInv'
  <2>1. \A v \in Procs : pc'[v] = "requeue" => pc[v] = "requeue"
    BY <1>4 DEF ExecTimeout, WorkerExit, IInv, ProcsOK
  <2> QED BY <1>4, <2>1, SameCopiesSole DEF ExecTimeout, WorkerExit, redisVars, historyVars
<1>5. ASSUME NEW id \in Jobs, ReapScan(id) PROVE SoleInv'
  BY <1>5, SameCopiesSole DEF ReapScan, redisVars
<1>6. CASE Tick \/ Stop \/ Restart
  <2>1. \A v \in Procs : pc'[v] = "requeue" => pc[v] = "requeue"
    BY <1>6 DEF Tick, Stop, Restart
  <2> QED BY <1>6, <2>1, SameCopiesSole DEF Tick, Stop, Restart, redisVars, historyVars
<1>7. CASE Shutdown
  BY <1>7, SameCopiesSole DEF Shutdown, GoDown
<1>8. CASE \E id \in Jobs, score \in Scores : Enqueue(id, score)
  BY <1>8, EnqueueSole
<1>9. ASSUME NEW w \in Procs, Pop(w) \/ PopLost(w) PROVE SoleInv'
  BY <1>9, PopSole, PopLostSole
<1>10. ASSUME NEW w \in Procs, \E added \in BOOLEAN : Requeue(w, added) PROVE SoleInv'
  BY <1>10, RequeueSole
<1>11. ASSUME NEW w \in Procs, CompleteJob(w) PROVE SoleInv'
  BY <1>11, CompleteSuccessSole, CompleteFailureSole DEF CompleteJob
<1>12. CASE ProcessRetryJobs
  BY <1>12, MoveRetrySole DEF ProcessRetryJobs
<1>13. CASE \E k \in 0..3 : ReapRequeue(k)
  BY <1>13, ReapRequeueSole
<1>14. CASE Crash
  BY <1>14, CrashSole
<1> QED
  BY <1>1, <1>2, <1>3, <1>4, <1>5, <1>6, <1>7, <1>8, <1>9, <1>10, <1>11, <1>12, <1>13, <1>14
  DEF Next

(* A set in which any two elements are equal is counted at most once.      *)
LEMMA OneAtMost ==
  ASSUME NEW S, \A x, y \in S : x = y
  PROVE  IsFiniteSet(S) /\ Cardinality(S) \in {0, 1} /\ (S # {} => Cardinality(S) = 1)
<1>1. CASE S = {}
  BY <1>1, FS_EmptySet
<1>2. CASE S # {}
  <2>1. PICK x : x \in S
    BY <1>2
  <2>2. S = {x}
    BY <2>1
  <2>3. IsFiniteSet({x}) /\ Cardinality({x}) = 1
    BY FS_Singleton
  <2> QED BY <2>2, <2>3
<1> QED BY <1>1, <1>2

(* The copies that SingleOwner counts, in terms of the invariant.          *)
LEMMA ReadyCounted ==
  ASSUME ReadyOK(ready), NEW id
  PROVE  /\ QueuedReady(id) # {} => InReady(ready, id)
         /\ SoleReady(ready, id) => \A x, y \in QueuedReady(id) : x = y
<1>1. \A p \in Priorities : DOMAIN ready[p] = 1..Len(ready[p])
  <2>1. SUFFICES ASSUME NEW p \in Priorities PROVE DOMAIN ready[p] = 1..Len(ready[p])
    OBVIOUS
  <2>2. ready[p] \in Seq(LiveCopy)
    BY DEF ReadyOK
  <2> QED BY <2>2, LenProperties
<1>2. \A x \in QueuedReady(id) :
        \E p \in Priorities : \E i \in 1..Len(ready[p]) :
          ready[p][i].id = id /\ x = <<"ready", p, i>>
  BY <1>1 DEF QueuedReady
<1>3. ASSUME QueuedReady(id) # {} PROVE InReady(ready, id)
  BY <1>2, <1>3 DEF InReady
<1>4. ASSUME SoleReady(ready, id), NEW x \in QueuedReady(id), NEW y \in QueuedReady(id)
      PROVE  x = y
  <2>1. PICK p \in Priorities : \E i \in 1..Len(ready[p]) :
               ready[p][i].id = id /\ x = <<"ready", p, i>>
    BY <1>2
  <2>2. PICK i \in 1..Len(ready[p]) : ready[p][i].id = id /\ x = <<"ready", p, i>>
    BY <2>1
  <2>3. PICK q \in Priorities : \E j \in 1..Len(ready[q]) :
               ready[q][j].id = id /\ y = <<"ready", q, j>>
    BY <1>2
  <2>4. PICK j \in 1..Len(ready[q]) : ready[q][j].id = id /\ y = <<"ready", q, j>>
    BY <2>3
  <2>5. p = q /\ i = j
    BY <1>4, <2>2, <2>4 DEF SoleReady
  <2> QED BY <2>2, <2>4, <2>5
<1> QED BY <1>3, <1>4

LEMMA RetryCounted ==
  ASSUME RetryOK(retry), NEW id
  PROVE  /\ QueuedRetry(id) # {} => InRetry(retry, id)
         /\ SoleRetry(retry, id) => \A x, y \in QueuedRetry(id) : x = y
<1>1. \A x \in QueuedRetry(id) :
        \E c \in DOMAIN retry : c.id = id /\ \E n \in 1..retry[c] : x = <<"retry", c, n>>
  BY DEF QueuedRetry
<1>2. ASSUME QueuedRetry(id) # {} PROVE InRetry(retry, id)
  BY <1>1, <1>2 DEF InRetry
<1>3. ASSUME SoleRetry(retry, id), NEW x \in QueuedRetry(id), NEW y \in QueuedRetry(id)
      PROVE  x = y
  <2>1. PICK c \in DOMAIN retry : c.id = id /\ \E n \in 1..retry[c] : x = <<"retry", c, n>>
    BY <1>1
  <2>2. PICK d \in DOMAIN retry : d.id = id /\ \E n \in 1..retry[d] : y = <<"retry", d, n>>
    BY <1>1
  <2>3. c = d /\ retry[c] = 1
    BY <1>3, <2>1, <2>2 DEF SoleRetry
  <2> QED BY <2>1, <2>2, <2>3
<1> QED BY <1>2, <1>3

LEMMA HoldersCounted ==
  ASSUME NEW id
  PROVE  /\ Holders(id) # {} => InHand(held, id)
         /\ SoleHand(held, id) => \A x, y \in Holders(id) : x = y
BY DEF Holders, Has, InHand, SoleHand

LEMMA SoleMeansSingleOwner == IInv /\ SoleInv => SingleOwner
<1> SUFFICES ASSUME IInv, SoleInv, NEW id \in Jobs, Untouched(id, {"rate", "reaped", "fault"})
             PROVE  /\ Cardinality(Queued(id)) + Cardinality(Holders(id)) <= 1
                    /\ Settled(id) => Queued(id) \union Holders(id) = {}
  BY DEF SingleOwner
<1>1. Sole(id)
  BY DEF SoleInv, Special, Untouched
<1>2. /\ QueuedReady(id) # {} => InReady(ready, id)
      /\ QueuedRetry(id) # {} => InRetry(retry, id)
      /\ Holders(id) # {} => InHand(held, id)
  BY ReadyCounted, RetryCounted, HoldersCounted DEF IInv
<1>3. /\ \A x, y \in QueuedReady(id) : x = y
      /\ \A x, y \in QueuedRetry(id) : x = y
      /\ \A x, y \in Holders(id) : x = y
  BY <1>1, ReadyCounted, RetryCounted, HoldersCounted DEF IInv, Sole
<1>4. \A x, y \in Queued(id) : x = y
  BY <1>1, <1>2, <1>3 DEF Queued, Sole
<1>5. Queued(id) = {} \/ Holders(id) = {}
  BY <1>1, <1>2 DEF Queued, Sole
<1>6. /\ Cardinality(Queued(id)) \in {0, 1} /\ Cardinality(Holders(id)) \in {0, 1}
      /\ Cardinality({}) = 0
  BY <1>3, <1>4, OneAtMost, FS_EmptySet
<1>7. Cardinality(Queued(id)) + Cardinality(Holders(id)) <= 1
  BY <1>5, <1>6
<1>8. ASSUME Settled(id) PROVE Queued(id) \union Holders(id) = {}
  <2>1. Gone(id)
    BY <1>1, <1>8 DEF Sole, Settled, Ended
  <2> QED BY <1>2, <2>1 DEF Gone, Queued
<1> QED BY <1>7, <1>8

LEMMA InitIsSole == Init => SoleInv
<1> SUFFICES ASSUME Init, NEW id \in Jobs PROVE Sole(id)
  BY DEF SoleInv
<1>1. \A p \in Priorities : ready[p] = <<>> /\ Len(ready[p]) = 0
  BY DEF Init
<1>2. DOMAIN retry = {}
  BY DEF Init, EmptyBag, SetToBag
<1> QED BY <1>1, <1>2 DEF Init, Sole, SoleReady, SoleRetry, SoleHand, Gone,
                            InReady, InRetry, InHand, Ended

(* The invariant behind the next theorems.                                 *)
THEOREM SoleHolds == Spec => []SoleInv
BY InitIsSole, IInvHolds, SoleNext, PTL DEF Spec

(* A job that was not rate limited, reaped or cut off has at most one copy *)
(* that waits or is held, and none once it has ended, whatever crashes,    *)
(* stops and restarts there were.                                          *)
THEOREM SingleOwnerHolds == Spec => []SingleOwner
<1> QED BY IInvHolds, SoleHolds, SoleMeansSingleOwner, PTL

-----------------------------------------------------------------------------
(* The books on the jobs at work: the processing list and the keys.        *)

LEMMA TouchedGrows == IInv /\ [Next]_vars => \A j \in Jobs : touched[j] \subseteq touched'[j]
<1> SUFFICES ASSUME IInv, [Next]_vars PROVE \A j \in Jobs : touched[j] \subseteq touched'[j]
  OBVIOUS
<1> DEFINE Grows == \A j \in Jobs : touched[j] \subseteq touched'[j]
<1> USE DEF Grows
<1>1. CASE UNCHANGED <<touched>>
  BY <1>1
<1>2. ASSUME NEW w \in Procs,
             \/ \E k \in 0..3 : Register(w, k)
             \/ \E k \in 0..3 : CompleteSuccess(w, k)
             \/ \E k \in 0..4 : CompleteFailure(w, k)
             \/ \E added \in BOOLEAN : Requeue(w, added)
      PROVE  Grows
  <2>1. held[w].id \in Jobs
    BY <1>2, HeldIsLive DEF IInv, Register, CompleteSuccess, CompleteFailure, Requeue, Busy
  <2> QED BY <1>2, <2>1, CutRemembers DEF Register, CompleteSuccess, CompleteFailure, Requeue
<1>3. ASSUME NEW w \in Procs, PopLost(w) PROVE Grows
  <2>1. PICK p \in Priorities : ready[p] # <<>> /\ Cut(TRUE, Head(ready[p]).id)
    BY <1>3 DEF PopLost, FirstNonEmpty
  <2>2. Head(ready[p]).id \in Jobs
    BY <2>1, PoppedIsOK, LiveCopyFields DEF IInv
  <2> QED BY <2>1, <2>2, CutRemembers
<1>4. ASSUME NEW c \in DOMAIN retry, NEW waited, NEW removed, MoveRetry(c, waited, removed)
      PROVE  Grows
  <2>1. c.id \in Jobs
    BY <1>4, LiveCopyFields DEF IInv, RetryOK
  <2> QED BY <1>4, <2>1, CutRemembers DEF MoveRetry
<1>5. ASSUME NEW k, ReapRequeue(k) PROVE Grows
  <2>1. reaping.id \in Jobs
    BY <1>5, LiveCopyFields DEF IInv, ReapOK, ReapRequeue
  <2> QED BY <1>5, <2>1, CutRemembers DEF ReapRequeue, Touch, IInv, HistoryOK
<1>6. ASSUME NEW w \in Procs, NEW x, ExecDone(w, x) PROVE Grows
  BY <1>6 DEF ExecDone, Touch, IInv, HistoryOK
<1>7. CASE Crash
  BY <1>7 DEF Crash, Touch, IInv, HistoryOK
<1>8. ASSUME NEW w \in Procs, Pop(w) \/ ExecTimeout(w) \/ WorkerExit(w) PROVE Grows
  BY <1>8 DEF Pop, ExecTimeout, WorkerExit, historyVars
<1>9. ASSUME NEW x, NEW y, Enqueue(x, y) \/ ReapScan(x) PROVE Grows
  BY <1>9 DEF Enqueue, ReapScan
<1>10. CASE Tick \/ Stop \/ Shutdown \/ Restart
  BY <1>10 DEF Tick, Stop, Shutdown, Restart, historyVars
<1>11. CASE UNCHANGED vars
  BY <1>11 DEF vars, historyVars
<1> QED BY <1>2, <1>3, <1>4, <1>5, <1>6, <1>7, <1>8, <1>9, <1>10, <1>11
        DEF Next, CompleteJob, ProcessRetryJobs

AtWork == {"running", "requeue", "fail", "succeed"}

(* A step in which no goroutine starts or ends its work on a job.          *)
SameWork == \A w \in Procs : /\ pc'[w] \in AtWork <=> pc[w] \in AtWork
                             /\ pc[w] \in AtWork => held'[w] = held[w]

LEMMA SameRegistered ==
  ASSUME SameWork, NEW id
  PROVE  Registered(id)' = Registered(id)
BY DEF SameWork, Registered, Holders, Has, AtWork

(* NoGhostEntries counts; the invariant adds that there is a count.        *)
GhostInv ==
  \A id \in Jobs :
    /\ IsFiniteSet(Registered(id))
    /\ Untouched(id, {"fault"}) => processing[id] <= Cardinality(Registered(id))

(* The key of a job describes a copy that is being worked on.              *)
KeyInv ==
  \A id \in Jobs :
    jobKey[id] # Null /\ Untouched(id, {"fault", "crash"})
      => \E w \in Registered(id) : held[w] = jobKey[id].copy

LEMMA SameWorkKeepsGhosts ==
  ASSUME IInv, GhostInv, SameWork, \A j \in Jobs : touched[j] \subseteq touched'[j],
         processing' \in [Jobs -> Nat],
         \A j \in Jobs : Untouched(j, {"fault"})' => processing'[j] <= processing[j]
  PROVE  GhostInv'
<1> SUFFICES ASSUME NEW id \in Jobs
             PROVE  /\ IsFiniteSet(Registered(id)')
                    /\ Untouched(id, {"fault"})'
                         => processing'[id] <= Cardinality(Registered(id)')
  BY DEF GhostInv
<1>1. Registered(id)' = Registered(id)
  BY SameRegistered
<1>2. IsFiniteSet(Registered(id)) /\ Cardinality(Registered(id)) \in Nat
  BY FS_CardinalityType DEF GhostInv
<1>3. processing[id] \in Nat /\ processing'[id] \in Nat
  BY DEF IInv, ListOK
<1>4. Untouched(id, {"fault"})' => Untouched(id, {"fault"})
  BY DEF Untouched
<1> QED BY <1>1, <1>2, <1>3, <1>4 DEF GhostInv

LEMMA SameWorkKeepsKeys ==
  ASSUME IInv, KeyInv, SameWork, \A j \in Jobs : touched[j] \subseteq touched'[j],
         \A j \in Jobs : Untouched(j, {"fault"})' /\ jobKey'[j] # Null
                           => jobKey[j] # Null /\ jobKey'[j].copy = jobKey[j].copy
  PROVE  KeyInv'
<1> SUFFICES ASSUME NEW id \in Jobs, jobKey'[id] # Null, Untouched(id, {"fault", "crash"})'
             PROVE  \E w \in Registered(id)' : held'[w] = jobKey'[id].copy
  BY DEF KeyInv
<1>1. Registered(id)' = Registered(id)
  BY SameRegistered
<1>2. jobKey[id] # Null /\ jobKey'[id].copy = jobKey[id].copy
  BY DEF Untouched
<1>3. PICK w \in Registered(id) : held[w] = jobKey[id].copy
  BY <1>2 DEF KeyInv, Untouched
<1>4. held'[w] = held[w]
  BY DEF SameWork, Registered, Holders, AtWork
<1> QED BY <1>1, <1>2, <1>3, <1>4

(* The pipeline of Dequeue adds the goroutine to those at work on the job, *)
(* and one name to the processing list.                                    *)
LEMMA RegisterRegisters ==
  ASSUME IInv, NEW w \in Procs, NEW k \in 0..3, Register(w, k)
  PROVE  /\ held[w].id \in Jobs /\ w \notin Registered(held[w].id)
         /\ \A id : Registered(id)' = IF id = held[w].id THEN Registered(id) \union {w}
                                                         ELSE Registered(id)
         /\ held' = held
         /\ k < 3 => "fault" \in touched'[held[w].id]
<1>1. held[w] \in LiveCopy /\ held[w] # Null /\ held[w].id \in Jobs
  BY HeldIsLive, LiveCopyFields DEF IInv, Register, Busy
<1>2. pc[w] = "popped" /\ pc' = [pc EXCEPT ![w] = "running"] /\ held' = held
  BY DEF Register
<1>3. \A v \in Procs : pc'[v] = IF v = w THEN "running" ELSE pc[v]
  BY <1>2 DEF IInv, ProcsOK
<1>4. k < 3 => "fault" \in touched'[held[w].id]
  BY <1>1, CutRemembers DEF Register
<1> QED BY <1>1, <1>2, <1>3, <1>4 DEF Registered, Holders, Has

LEMMA RegisterBooks ==
  ASSUME IInv, GhostInv, KeyInv, NEW w \in Procs, NEW k \in 0..3, Register(w, k),
         \A j \in Jobs : touched[j] \subseteq touched'[j]
  PROVE  GhostInv' /\ KeyInv'
<1> DEFINE cid == held[w].id
<1>1. /\ cid \in Jobs /\ w \notin Registered(cid)
      /\ \A id : Registered(id)' = IF id = cid THEN Registered(id) \union {w}
                                               ELSE Registered(id)
      /\ held' = held
      /\ k < 3 => "fault" \in touched'[cid]
  BY RegisterRegisters
<1>2. /\ processing'[cid] <= processing[cid] + 1
      /\ processing'[cid] \in Nat /\ processing[cid] \in Nat
      /\ \A j \in Jobs : j # cid => processing'[j] = processing[j]
  BY <1>1 DEF Register, IInv, ListOK
<1>3. /\ k >= 1 => jobKey'[cid].copy = held[w]
      /\ \A j \in Jobs : j # cid => jobKey'[j] = jobKey[j]
  BY <1>1 DEF Register, IInv, KeysOK
<1> HIDE DEF cid
<1>4. ASSUME NEW id \in Jobs
      PROVE  /\ IsFiniteSet(Registered(id)')
             /\ Untouched(id, {"fault"})' => processing'[id] <= Cardinality(Registered(id)')
  <2>1. IsFiniteSet(Registered(id))
        /\ (Untouched(id, {"fault"})' => processing[id] <= Cardinality(Registered(id)))
    BY DEF GhostInv, Untouched
  <2>2. CASE id # cid
    BY <1>1, <1>2, <2>1, <2>2
  <2>3. CASE id = cid
    <3>1. Registered(id)' = Registered(id) \union {w} /\ w \notin Registered(id)
      BY <1>1, <2>3
    <3>2. /\ IsFiniteSet(Registered(id)')
          /\ Cardinality(Registered(id)') = Cardinality(Registered(id)) + 1
          /\ Cardinality(Registered(id)) \in Nat
      BY <2>1, <3>1, FS_AddElement, FS_CardinalityType
    <3>3. processing'[id] <= processing[id] + 1
          /\ processing'[id] \in Nat /\ processing[id] \in Nat
      BY <1>2, <2>3
    <3> QED BY <2>1, <3>2, <3>3
  <2> QED BY <2>2, <2>3
<1>5. ASSUME NEW id \in Jobs, jobKey'[id] # Null, Untouched(id, {"fault", "crash"})'
      PROVE  \E v \in Registered(id)' : held'[v] = jobKey'[id].copy
  <2>1. CASE id = cid
    BY <1>1, <1>3, <1>5, <2>1 DEF Untouched, cid
  <2>2. CASE id # cid
    <3>1. jobKey'[id] = jobKey[id] /\ Registered(id)' = Registered(id)
      BY <1>1, <1>3, <2>2
    <3>2. Untouched(id, {"fault", "crash"})
      BY <1>5 DEF Untouched
    <3> QED BY <1>1, <1>5, <3>1, <3>2 DEF KeyInv
  <2> QED BY <2>1, <2>2
<1> QED BY <1>4, <1>5 DEF GhostInv, KeyInv

(* CompleteJob takes the goroutine from those at work on the job, and one  *)
(* name from the processing list.                                          *)
LEMMA CompleteBooks ==
  ASSUME IInv, GhostInv, KeyInv, NEW w \in Procs, pc[w] \in AtWork,
         NEW k \in 0..4, NEW result, Untrack(held[w].id, k, result), Finish(w),
         k < 3 => "fault" \in touched'[held[w].id],
         \A j \in Jobs : touched[j] \subseteq touched'[j]
  PROVE  GhostInv' /\ KeyInv'
<1> DEFINE cid == held[w].id
<1>1. cid \in Jobs /\ w \in Registered(cid)
  BY HeldIsLive, LiveCopyFields DEF IInv, Busy, AtWork, Registered, Holders, Has
<1>2. \A v \in Procs : /\ v # w => pc'[v] = pc[v] /\ held'[v] = held[v]
                       /\ v = w => held'[v] = Null
  BY DEF Finish, IInv, ProcsOK
<1>3. \A id : Registered(id)' = IF id = cid THEN Registered(id) \ {w} ELSE Registered(id)
  <2>1. \A id : \A v \in Procs : v # w => (Has(v, id)' <=> Has(v, id))
    BY <1>2 DEF Has
  <2>2. \A id : ~Has(w, id)' /\ (Has(w, id) => id = cid)
    BY <1>2 DEF Has
  <2> HIDE DEF cid
  <2> QED BY <1>2, <2>1, <2>2 DEF Registered, Holders
<1>4. /\ k >= 1 => processing'[cid] = IF processing[cid] > 0 THEN processing[cid] - 1 ELSE 0
      /\ k >= 2 => jobKey'[cid] = Null
      /\ processing[cid] \in Nat
      /\ \A j \in Jobs : j # cid => processing'[j] = processing[j] /\ jobKey'[j] = jobKey[j]
  BY <1>1 DEF Untrack, WithoutOne, IInv, ListOK, KeysOK
<1>5. k < 3 => "fault" \in touched'[cid]
  OBVIOUS
<1> HIDE DEF cid
<1>6. ASSUME NEW id \in Jobs
      PROVE  /\ IsFiniteSet(Registered(id)')
             /\ Untouched(id, {"fault"})' => processing'[id] <= Cardinality(Registered(id)')
  <2>1. IsFiniteSet(Registered(id))
        /\ (Untouched(id, {"fault"})' => processing[id] <= Cardinality(Registered(id)))
    BY DEF GhostInv, Untouched
  <2>2. CASE id # cid
    BY <1>3, <1>4, <2>1, <2>2
  <2>3. CASE id = cid
    <3>1. Registered(id)' = Registered(id) \ {w} /\ w \in Registered(id)
      BY <1>1, <1>3, <2>3
    <3>2. /\ IsFiniteSet(Registered(id)')
          /\ Cardinality(Registered(id)') = Cardinality(Registered(id)) - 1
          /\ Cardinality(Registered(id)') \in Nat
          /\ Cardinality(Registered(id)) \in Nat
      BY <2>1, <3>1, FS_RemoveElement, FS_CardinalityType
    <3>3. Untouched(id, {"fault"})' => k >= 1
      BY <1>5, <2>3 DEF Untouched
    <3>4. /\ processing[id] \in Nat
          /\ k >= 1 => processing'[id] = IF processing[id] > 0 THEN processing[id] - 1 ELSE 0
      BY <1>4, <2>3
    <3> QED BY <2>1, <3>2, <3>3, <3>4
  <2> QED BY <2>2, <2>3
<1>7. ASSUME NEW id \in Jobs, jobKey'[id] # Null, Untouched(id, {"fault", "crash"})'
      PROVE  \E v \in Registered(id)' : held'[v] = jobKey'[id].copy
  <2>1. id # cid
    BY <1>4, <1>5, <1>7 DEF Untouched
  <2>2. Untouched(id, {"fault", "crash"})
    BY <1>7 DEF Untouched
  <2>3. PICK v \in Registered(id) : held[v] = jobKey[id].copy
    BY <1>4, <1>7, <2>1, <2>2 DEF KeyInv
  <2>4. v # w /\ v \in Procs
    BY <2>1 DEF Registered, Holders, Has, cid
  <2> QED BY <1>2, <1>3, <1>4, <2>1, <2>3, <2>4
<1> QED BY <1>6, <1>7 DEF GhostInv, KeyInv

LEMMA ReapRequeueBooks ==
  ASSUME IInv, GhostInv, KeyInv, NEW k \in 0..3, ReapRequeue(k),
         \A j \in Jobs : touched[j] \subseteq touched'[j]
  PROVE  GhostInv' /\ KeyInv'
<1> DEFINE cid == reaping.id
<1>1. cid \in Jobs
  BY LiveCopyFields DEF IInv, ReapOK, ReapRequeue
<1>2. ASSUME k < 3 PROVE "fault" \in touched'[cid]
  <2>1. Cut(TRUE, cid)
    <3>1. k # 3
      BY <1>2
    <3> QED BY <3>1, Zenon DEF ReapRequeue
  <2> QED BY <1>1, <2>1, CutRemembers
<1>3. SameWork
  BY DEF SameWork, ReapRequeue
<1>4. processing' \in [Jobs -> Nat] /\ \A j \in Jobs : processing'[j] <= processing[j]
  BY <1>1 DEF ReapRequeue, WithoutOne, IInv, ListOK
<1>5. \A j \in Jobs : Untouched(j, {"fault"})' /\ jobKey'[j] # Null => jobKey'[j] = jobKey[j]
  BY <1>1, <1>2 DEF Untouched, ReapRequeue, IInv, KeysOK
<1>6. GhostInv'
  BY <1>3, <1>4, SameWorkKeepsGhosts
<1>7. KeyInv'
  BY <1>3, <1>5, SameWorkKeepsKeys
<1> QED BY <1>6, <1>7

LEMMA TickBooks ==
  ASSUME IInv, GhostInv, KeyInv, Tick
  PROVE  GhostInv' /\ KeyInv'
<1>1. SameWork /\ touched' = touched
  BY DEF Tick, SameWork, historyVars
<1>2. processing' \in [Jobs -> Nat] /\ \A j \in Jobs : processing'[j] <= processing[j]
  BY DEF Tick, NoEntries, IInv, ListOK
<1>3. \A j \in Jobs : jobKey'[j] # Null
                        => jobKey[j] # Null /\ jobKey'[j].copy = jobKey[j].copy
  <2>1. SUFFICES ASSUME NEW j \in Jobs, jobKey'[j] # Null
                 PROVE  jobKey[j] # Null /\ jobKey'[j].copy = jobKey[j].copy
    OBVIOUS
  <2>2. jobKey'[j] = KeyAfterTick(jobKey[j]) /\ jobKey[j] \in LiveKey \union {Null}
    BY DEF Tick, IInv, KeysOK
  <2>3. jobKey[j] # Null
    BY <2>1, <2>2 DEF KeyAfterTick
  <2> QED BY <2>1, <2>2, <2>3 DEF KeyAfterTick, LiveKey
<1>4. GhostInv'
  BY <1>1, <1>2, SameWorkKeepsGhosts
<1>5. KeyInv'
  BY <1>1, <1>3, SameWorkKeepsKeys
<1> QED BY <1>4, <1>5

(* The end of the process: the list has a new name, and who was at work is *)
(* remembered as hit by a crash.                                           *)
LEMMA DownBooks ==
  ASSUME IInv, GhostInv, KeyInv, Shutdown \/ Crash,
         \A j \in Jobs : touched[j] \subseteq touched'[j]
  PROVE  GhostInv' /\ KeyInv'
<1>1. \A id : Registered(id)' = {}
  <2>1. \A w \in Procs : pc'[w] = "exited"
    BY DEF Shutdown, Crash
  <2> QED BY <2>1 DEF Registered, Holders
<1>2. \A j \in Jobs : processing'[j] = 0
  BY DEF Shutdown, Crash, GoDown, NoEntries
<1>3. GhostInv'
  BY <1>1, <1>2, FS_EmptySet DEF GhostInv
<1>4. ASSUME NEW id \in Jobs, jobKey'[id] # Null, Untouched(id, {"fault", "crash"})'
      PROVE  FALSE
  <2>1. jobKey[id] # Null /\ Untouched(id, {"fault", "crash"})
    BY <1>4 DEF Shutdown, Crash, GoDown, Untouched
  <2>2. PICK w \in Registered(id) : TRUE
    BY <2>1 DEF KeyInv
  <2>3. CASE Shutdown
    BY <2>2, <2>3 DEF Shutdown, Registered, Holders
  <2>4. CASE Crash
    <3>1. id \in HeldJobs
      BY <2>2 DEF HeldJobs, Registered, Holders, Has
    <3> QED BY <1>4, <2>4, <3>1 DEF Crash, Touch, Untouched
  <2> QED BY <2>3, <2>4
<1> QED BY <1>3, <1>4 DEF KeyInv

BooksInv == GhostInv /\ KeyInv

LEMMA BooksNext == IInv /\ BooksInv /\ [Next]_vars => BooksInv'
<1> SUFFICES ASSUME IInv, GhostInv, KeyInv, [Next]_vars PROVE GhostInv' /\ KeyInv'
  BY DEF BooksInv
<1>1. \A j \in Jobs : touched[j] \subseteq touched'[j]
  BY TouchedGrows
<1>2. ASSUME SameWork, UNCHANGED <<processing, jobKey>> PROVE GhostInv' /\ KeyInv'
  BY <1>1, <1>2, SameWorkKeepsGhosts, SameWorkKeepsKeys DEF IInv, ListOK
<1>3. CASE UNCHANGED vars
  BY <1>2, <1>3 DEF vars, redisVars, processVars, SameWork
<1>4. ASSUME NEW w \in Procs, NEW k \in 0..3, Register(w, k) PROVE GhostInv' /\ KeyInv'
  BY <1>1, <1>4, RegisterBooks
<1>5. ASSUME NEW w \in Procs, NEW k \in 0..3, CompleteSuccess(w, k)
      PROVE  GhostInv' /\ KeyInv'
  <2>1. held[w].id \in Jobs
    BY <1>5, HeldIsLive DEF IInv, CompleteSuccess, Busy
  <2>2. k < 3 => "fault" \in touched'[held[w].id]
    BY <1>5, <2>1, CutRemembers DEF CompleteSuccess
  <2> QED BY <1>1, <1>5, <2>2, CompleteBooks DEF CompleteSuccess, AtWork
<1>6. ASSUME NEW w \in Procs, NEW k \in 0..4, CompleteFailure(w, k)
      PROVE  GhostInv' /\ KeyInv'
  <2>1. held[w].id \in Jobs
    BY <1>6, HeldIsLive DEF IInv, CompleteFailure, Busy
  <2>2. k < 4 => "fault" \in touched'[held[w].id]
    BY <1>6, <2>1, CutRemembers DEF CompleteFailure
  <2> QED BY <1>1, <1>6, <2>2, CompleteBooks DEF CompleteFailure, AtWork
<1>7. ASSUME NEW w \in Procs, Pop(w) PROVE GhostInv' /\ KeyInv'
  <2>1. SameWork
    BY <1>7 DEF Pop, SameWork, AtWork, IInv, ProcsOK
  <2> QED BY <1>2, <1>7, <2>1 DEF Pop
<1>8. ASSUME NEW w \in Procs, PopLost(w) PROVE GhostInv' /\ KeyInv'
  <2>1. SameWork
    BY <1>8 DEF PopLost, Finish, LoopTop, SameWork, AtWork, IInv, ProcsOK
  <2> QED BY <1>2, <1>8, <2>1 DEF PopLost
<1>9. ASSUME NEW w \in Procs, NEW x, ExecDone(w, x) PROVE GhostInv' /\ KeyInv'
  <2>1. SameWork
    BY <1>9 DEF ExecDone, SameWork, AtWork, IInv, ProcsOK
  <2> QED BY <1>2, <1>9, <2>1 DEF ExecDone, redisVars
<1>10. ASSUME NEW w \in Procs, ExecTimeout(w) \/ WorkerExit(w) PROVE GhostInv' /\ KeyInv'
  <2>1. SameWork
    BY <1>10 DEF ExecTimeout, WorkerExit, SameWork, AtWork, IInv, ProcsOK
  <2> QED BY <1>2, <1>10, <2>1 DEF ExecTimeout, WorkerExit, redisVars
<1>11. ASSUME NEW w \in Procs, NEW added, Requeue(w, added) PROVE GhostInv' /\ KeyInv'
  <2>1. SameWork
    BY <1>11 DEF Requeue, SameWork, AtWork, IInv, ProcsOK
  <2> QED BY <1>2, <1>11, <2>1 DEF Requeue
<1>12. ASSUME NEW x, NEW y, NEW z, \/ Enqueue(x, y) \/ ReapScan(x) \/ MoveRetry(x, y, z)
       PROVE  GhostInv' /\ KeyInv'
  BY <1>2, <1>12 DEF Enqueue, ReapScan, MoveRetry, redisVars, processVars, SameWork
<1>13. CASE Stop
  BY <1>2, <1>13 DEF Stop, redisVars, SameWork
<1>14. CASE Restart
  <2>1. SameWork
    BY <1>14 DEF Restart, SameWork, AtWork, IInv, DownOK
  <2> QED BY <1>2, <1>14, <2>1 DEF Restart, redisVars
<1>15. CASE Tick
  BY <1>15, TickBooks
<1>16. CASE \E k \in 0..3 : ReapRequeue(k)
  BY <1>1, <1>16, ReapRequeueBooks
<1>17. CASE Shutdown \/ Crash
  BY <1>1, <1>17, DownBooks
<1> QED
  BY <1>3, <1>4, <1>5, <1>6, <1>7, <1>8, <1>9, <1>10, <1>11, <1>12, <1>13, <1>14, <1>15,
     <1>16, <1>17
  DEF Next, CompleteJob, ProcessRetryJobs

(* The invariant behind the next two theorems.                             *)
THEOREM BooksHold == Spec => []BooksInv
<1>1. Init => BooksInv
  <2> SUFFICES ASSUME Init PROVE BooksInv
    OBVIOUS
  <2>1. \A id : Registered(id) = {}
    BY DEF Init, Registered, Holders
  <2>2. Cardinality({}) = 0 /\ IsFiniteSet({})
    BY FS_EmptySet
  <2>3. \A id : Cardinality(Registered(id)) = 0 /\ IsFiniteSet(Registered(id))
    BY <2>1, <2>2, Zenon
  <2> QED BY <2>3 DEF Init, BooksInv, GhostInv, KeyInv
<1> QED BY <1>1, IInvHolds, BooksNext, PTL DEF Spec

(* The processing list never names a job more often than goroutines are    *)
(* working on it, unless a pipeline of that job was cut.                   *)
THEOREM NoGhostEntriesHolds == Spec => []NoGhostEntries
<1>1. BooksInv => NoGhostEntries
  BY DEF BooksInv, GhostInv, NoGhostEntries
<1> QED BY <1>1, BooksHold, PTL

(* The key of a job is never the record of a run that is over.             *)
THEOREM KeyHasOwnerHolds == Spec => []KeyHasOwner
<1>1. BooksInv => KeyHasOwner
  BY DEF BooksInv, KeyInv, KeyHasOwner
<1> QED BY <1>1, BooksHold, PTL

-----------------------------------------------------------------------------
(* A run within its time is tracked.  The invariant adds the clocks: what  *)
(* the list and the key have left to live covers what is left of the run.  *)

InFlight(id, w) ==
  /\ ~Special(id)
  /\ Has(w, id) /\ pc[w] = "running" /\ timer[w] < TaskTimeout
  /\ TaskTimeout <= ProcessingTimeout

Tracked(id, w) ==
  /\ processing[id] >= 1
  /\ procTTL + timer[w] >= ProcessingTimeout
  /\ jobKey[id] # Null
  /\ jobKey[id].ttl + timer[w] >= ProcessingTimeout

TrackInv == \A id \in Jobs, w \in Procs : InFlight(id, w) => Tracked(id, w)

LEMMA TrackFrame ==
  ASSUME TrackInv, \A j \in Jobs : touched[j] \subseteq touched'[j],
         UNCHANGED <<processing, procTTL, jobKey>>,
         \A w \in Procs : pc'[w] = "running"
                            => pc[w] = "running" /\ held'[w] = held[w] /\ timer'[w] = timer[w]
  PROVE  TrackInv'
BY DEF TrackInv, InFlight, Tracked, Special, Has

LEMMA RegisterTracks ==
  ASSUME IInv, SoleInv', TrackInv, NEW w \in Procs, NEW k \in 0..3, Register(w, k),
         \A j \in Jobs : touched[j] \subseteq touched'[j]
  PROVE  TrackInv'
<1> SUFFICES ASSUME NEW id \in Jobs, NEW v \in Procs, InFlight(id, v)'
             PROVE  Tracked(id, v)'
  BY DEF TrackInv
<1> DEFINE cid == held[w].id
<1>1. /\ cid \in Jobs /\ held[w] # Null /\ held' = held
      /\ k < 3 => "fault" \in touched'[cid]
      /\ \A u \in Procs : u # w => pc'[u] = pc[u] /\ timer'[u] = timer[u]
      /\ timer'[w] = 0
  BY RegisterRegisters, HeldIsLive, LiveCopyFields DEF Register, Busy, IInv, ProcsOK
<1>2. /\ processing[cid] \in Nat /\ procTTL \in Nat
      /\ \A j \in Jobs : j # cid => processing'[j] = processing[j] /\ jobKey'[j] = jobKey[j]
  BY <1>1 DEF IInv, ListOK, KeysOK, Register
<1>3. SoleHand(held', id)
  BY DEF SoleInv, Sole, InFlight
<1>4. CASE v = w
  <2>1. id = cid
    BY <1>1, <1>4 DEF InFlight, Has
  <2>2. k = 3
    BY <1>1, <2>1 DEF InFlight, Special
  <2>3. /\ processing'[id] = processing[id] + 1
        /\ procTTL' = ProcessingTimeout
        /\ jobKey'[id] = [copy |-> held[w], age |-> timer[w], ttl |-> ProcessingTimeout]
    BY <1>1, <2>1, <2>2 DEF Register, RenewedTTL, IInv, ListOK, KeysOK
  <2>4. [copy |-> held[w], age |-> timer[w], ttl |-> ProcessingTimeout] # Null
    <3>1. held[w] \in Copy /\ timer[w] \in Nat /\ ProcessingTimeout \in Nat
      BY <1>1, TimeoutAssumption, LiveCopyFields DEF IInv, ProcsOK
    <3> QED BY <3>1, NullAssumption
  <2> QED BY <1>1, <1>2, <1>4, <2>1, <2>3, <2>4, TimeoutAssumption DEF Tracked
<1>5. CASE v # w
  <2>1. id # cid
    BY <1>1, <1>3, <1>5 DEF SoleHand, InFlight, Has
  <2>2. Tracked(id, v)
    BY <1>1, <1>5 DEF TrackInv, InFlight, Special, Has
  <2>3. procTTL' = procTTL \/ procTTL' = ProcessingTimeout
    BY DEF Register, RenewedTTL
  <2>4. timer[v] \in Nat
    BY DEF IInv, ProcsOK
  <2> QED BY <1>1, <1>2, <1>5, <2>1, <2>2, <2>3, <2>4, TimeoutAssumption DEF Tracked
<1> QED BY <1>4, <1>5

LEMMA CompleteTracks ==
  ASSUME IInv, SoleInv, TrackInv, NEW w \in Procs, held[w] # Null,
         NEW k, NEW result, Untrack(held[w].id, k, result), Finish(w),
         \A j \in Jobs : touched[j] \subseteq touched'[j]
  PROVE  TrackInv'
<1> SUFFICES ASSUME NEW id \in Jobs, NEW v \in Procs, InFlight(id, v)'
             PROVE  Tracked(id, v)'
  BY DEF TrackInv
<1>1. v # w /\ pc[v] = pc'[v] /\ held'[v] = held[v] /\ timer'[v] = timer[v]
  BY DEF Finish, InFlight, Has, IInv, ProcsOK
<1>2. InFlight(id, v)
  BY <1>1 DEF InFlight, Special, Has
<1>3. Tracked(id, v)
  BY <1>2 DEF TrackInv
<1>4. held[w].id # id
  BY <1>1, <1>2 DEF SoleInv, Sole, SoleHand, InFlight, Has
<1>5. processing'[id] = processing[id] /\ jobKey'[id] = jobKey[id]
  BY <1>4 DEF Untrack, WithoutOne, IInv, ListOK, KeysOK
<1>6. procTTL' = procTTL
  <2>1. processing'[id] # 0
    BY <1>3, <1>5 DEF Tracked
  <2> QED BY <2>1 DEF Untrack, TTLOf
<1> QED BY <1>1, <1>3, <1>5, <1>6 DEF Tracked

LEMMA ReapTracks ==
  ASSUME IInv, TrackInv, NEW k \in 0..3, ReapRequeue(k),
         \A j \in Jobs : touched[j] \subseteq touched'[j]
  PROVE  TrackInv'
<1> SUFFICES ASSUME NEW id \in Jobs, NEW v \in Procs, InFlight(id, v)'
             PROVE  Tracked(id, v)'
  BY DEF TrackInv
<1>1. InFlight(id, v) /\ UNCHANGED <<timer>>
  BY DEF ReapRequeue, InFlight, Special, Has
<1>2. Tracked(id, v)
  BY <1>1 DEF TrackInv
<1>3. reaping.id # id
  <2>1. touched'[reaping.id] \cap {"reaped", "fault"} # {}
    <3>1. reaping.id \in Jobs
      BY LiveCopyFields DEF IInv, ReapOK, ReapRequeue
    <3>2. CASE touched' = Touch({reaping.id}, "reaped")
      BY <3>1, <3>2 DEF Touch
    <3>3. CASE Cut(TRUE, reaping.id)
      BY <3>1, <3>3, CutRemembers
    <3> QED BY <3>2, <3>3 DEF ReapRequeue
  <2> QED BY <2>1 DEF InFlight, Special
<1>4. processing'[id] = processing[id] /\ jobKey'[id] = jobKey[id]
  BY <1>3 DEF ReapRequeue, WithoutOne, IInv, ListOK, KeysOK
<1>5. procTTL' = procTTL
  <2>1. processing'[id] # 0
    BY <1>2, <1>4 DEF Tracked
  <2> QED BY <2>1 DEF ReapRequeue, TTLOf
<1> QED BY <1>1, <1>2, <1>4, <1>5 DEF Tracked

(* A tick takes as much from the list and the key as it adds to the run.   *)
LEMMA TickTracks ==
  ASSUME IInv, TrackInv, Tick
  PROVE  TrackInv'
<1> SUFFICES ASSUME NEW id \in Jobs, NEW v \in Procs, InFlight(id, v)'
             PROVE  Tracked(id, v)'
  BY DEF TrackInv
<1>1. timer[v] \in Nat /\ procTTL \in Nat
  BY DEF IInv, ProcsOK, ListOK
<1>2. pc[v] = "running" /\ held'[v] = held[v] /\ timer'[v] < TaskTimeout
  BY DEF Tick, InFlight
<1>3. timer'[v] = timer[v] + 1
  BY <1>1, <1>2, TimeoutAssumption DEF Tick, TimerAfterTick
<1>4. InFlight(id, v)
  BY <1>1, <1>2, <1>3, TimeoutAssumption DEF Tick, InFlight, Special, Has, historyVars
<1>5. Tracked(id, v)
  BY <1>4 DEF TrackInv
<1>6. TaskTimeout <= ProcessingTimeout
  BY DEF InFlight
<1> DEFINE key == jobKey[id]
<1>7. key \in LiveKey /\ key.ttl \in Nat
  BY <1>5 DEF Tracked, IInv, KeysOK, LiveKey
<1>8. /\ procTTL + timer[v] >= ProcessingTimeout
      /\ key.ttl + timer[v] >= ProcessingTimeout
      /\ processing[id] >= 1
  BY <1>5 DEF Tracked
<1>9. procTTL >= 2 /\ key.ttl >= 2
  BY <1>1, <1>2, <1>3, <1>6, <1>7, <1>8, TimeoutAssumption
<1>10. procTTL' = procTTL - 1 /\ processing' = processing
  BY <1>1, <1>9 DEF Tick
<1>11. jobKey'[id] # Null /\ jobKey'[id].ttl = key.ttl - 1
  <2>1. jobKey'[id] = [key EXCEPT !.age = IF @ < ProcessingTimeout THEN @ + 1 ELSE @,
                                  !.ttl = @ - 1]
    <3>1. jobKey'[id] = KeyAfterTick(key)
      BY DEF Tick
    <3>2. ~(key = Null \/ key.ttl <= 1)
      BY <1>5, <1>7, <1>9 DEF Tracked
    <3> QED BY <3>1, <3>2 DEF KeyAfterTick
  <2>2. jobKey'[id] \in [copy : Copy, age : Nat, ttl : Nat] /\ jobKey'[id].ttl = key.ttl - 1
    <3>1. key.copy \in Copy /\ key.age \in Nat
      BY <1>7, LiveCopyFields DEF LiveKey
    <3>2. jobKey'[id] = [copy |-> key.copy,
                         age |-> IF key.age < ProcessingTimeout THEN key.age + 1 ELSE key.age,
                         ttl |-> key.ttl - 1]
      BY <1>7, <2>1 DEF LiveKey
    <3> HIDE DEF key
    <3> QED BY <1>7, <1>9, <3>1, <3>2
  <2> QED BY <2>2, NullAssumption
<1> HIDE DEF key
<1> QED BY <1>1, <1>3, <1>7, <1>8, <1>10, <1>11, TimeoutAssumption DEF Tracked

LEMMA TrackNext == IInv /\ SoleInv /\ SoleInv' /\ TrackInv /\ [Next]_vars => TrackInv'
<1> SUFFICES ASSUME IInv, SoleInv, SoleInv', TrackInv, [Next]_vars PROVE TrackInv'
  OBVIOUS
<1>1. \A j \in Jobs : touched[j] \subseteq touched'[j]
  BY TouchedGrows
<1> DEFINE SameRuns == \A w \in Procs :
             pc'[w] = "running" => pc[w] = "running" /\ held'[w] = held[w] /\ timer'[w] = timer[w]
<1>2. ASSUME SameRuns, UNCHANGED <<processing, procTTL, jobKey>> PROVE TrackInv'
  BY <1>1, <1>2, TrackFrame
<1>3. CASE UNCHANGED vars
  BY <1>2, <1>3 DEF vars, redisVars, processVars
<1>4. ASSUME NEW w \in Procs, NEW k \in 0..3, Register(w, k) PROVE TrackInv'
  BY <1>1, <1>4, RegisterTracks
<1>5. ASSUME NEW w \in Procs, NEW k, CompleteSuccess(w, k) \/ CompleteFailure(w, k)
      PROVE  TrackInv'
  <2>1. held[w] # Null
    BY <1>5 DEF IInv, ProcsOK, Busy, CompleteSuccess, CompleteFailure
  <2> QED BY <1>1, <1>5, <2>1, CompleteTracks DEF CompleteSuccess, CompleteFailure
<1>6. ASSUME NEW w \in Procs, Pop(w) PROVE TrackInv'
  <2>1. SameRuns
    BY <1>6 DEF Pop, IInv, ProcsOK
  <2> QED BY <1>2, <1>6, <2>1 DEF Pop
<1>7. ASSUME NEW w \in Procs, PopLost(w) PROVE TrackInv'
  <2>1. SameRuns
    BY <1>7 DEF PopLost, Finish, LoopTop, IInv, ProcsOK
  <2> QED BY <1>2, <1>7, <2>1 DEF PopLost
<1>8. ASSUME NEW w \in Procs, NEW x, ExecDone(w, x) PROVE TrackInv'
  <2>1. SameRuns
    BY <1>8 DEF ExecDone, IInv, ProcsOK
  <2> QED BY <1>2, <1>8, <2>1 DEF ExecDone, redisVars
<1>9. ASSUME NEW w \in Procs, ExecTimeout(w) \/ WorkerExit(w) PROVE TrackInv'
  <2>1. SameRuns
    BY <1>9 DEF ExecTimeout, WorkerExit, IInv, ProcsOK
  <2> QED BY <1>2, <1>9, <2>1 DEF ExecTimeout, WorkerExit, redisVars
<1>10. ASSUME NEW w \in Procs, NEW added, Requeue(w, added) PROVE TrackInv'
  <2>1. SameRuns
    BY <1>10 DEF Requeue, IInv, ProcsOK
  <2> QED BY <1>2, <1>10, <2>1 DEF Requeue
<1>11. ASSUME NEW x, NEW y, NEW z, Enqueue(x, y) \/ ReapScan(x) \/ MoveRetry(x, y, z)
       PROVE  TrackInv'
  BY <1>2, <1>11 DEF Enqueue, ReapScan, MoveRetry, redisVars, processVars
<1>12. CASE Stop \/ Restart
  BY <1>2, <1>12 DEF Stop, Restart, redisVars
<1>13. CASE Tick
  BY <1>13, TickTracks
<1>14. CASE \E k \in 0..3 : ReapRequeue(k)
  BY <1>1, <1>14, ReapTracks
<1>15. CASE Shutdown \/ Crash
  <2>1. \A w \in Procs : pc'[w] = "exited"
    BY <1>15 DEF Shutdown, Crash
  <2> QED BY <2>1 DEF TrackInv, InFlight
<1> QED
  BY <1>3, <1>4, <1>5, <1>6, <1>7, <1>8, <1>9, <1>10, <1>11, <1>12, <1>13, <1>14, <1>15
  DEF Next, CompleteJob, ProcessRetryJobs

(* As long as a run that nothing special happened to is within its time,   *)
(* the key and the list entry that could bring its job back are there.     *)
THEOREM InFlightIsTrackedHolds == Spec => []InFlightIsTracked
<1>1. Init => TrackInv
  BY DEF Init, TrackInv, InFlight
<1>2. IInv /\ TrackInv => InFlightIsTracked
  BY DEF InFlightIsTracked, TrackInv, InFlight, Tracked, Special, Untouched
<1> QED BY <1>1, <1>2, IInvHolds, SoleHolds, TrackNext, PTL DEF Spec

-----------------------------------------------------------------------------
(* The queue implements JobLifecycle in a run without special events:      *)
(* every job has one status and one count of failures, which the place and *)
(* the retries of its only copy show.                                      *)

Quiet == \A b \in Budgets : /\ b.fault = 0 /\ b.crash = 0 /\ b.rate = 0
                            /\ b.reap = 0 \/ MaxLag = 0

QuietInv == /\ \A j \in Jobs : touched[j] = {}
            /\ budget.fault = 0 /\ budget.crash = 0 /\ budget.rate = 0
            /\ budget.reap = 0 \/ MaxLag = 0
            /\ reaping = Null

LEMMA QuietNeverCut ==
  ASSUME QuietInv, NEW isCut, NEW id, Cut(isCut, id)
  PROVE  ~isCut /\ UNCHANGED <<touched, budget>>
BY DEF QuietInv, Cut

LEMMA QuietNext == IInv /\ IInv' /\ QuietInv /\ [Next]_vars => QuietInv'
<1> SUFFICES ASSUME IInv, IInv', QuietInv, [Next]_vars PROVE QuietInv'
  OBVIOUS
<1>1. CASE UNCHANGED <<touched, budget, reaping>>
  BY <1>1 DEF QuietInv
<1>2. ASSUME NEW w \in Procs, NEW k,
             Register(w, k) \/ CompleteSuccess(w, k) \/ CompleteFailure(w, k) \/ Requeue(w, k)
      PROVE  QuietInv'
  BY <1>1, <1>2, QuietNeverCut DEF Register, CompleteSuccess, CompleteFailure, Requeue
<1>3. ASSUME NEW w \in Procs, PopLost(w) PROVE FALSE
  BY <1>3, QuietNeverCut DEF PopLost
<1>4. ASSUME NEW w \in Procs, NEW x, ExecDone(w, x) PROVE QuietInv'
  BY <1>1, <1>4 DEF ExecDone, QuietInv
<1>5. ASSUME NEW w \in Procs, Pop(w) \/ ExecTimeout(w) \/ WorkerExit(w) PROVE QuietInv'
  BY <1>1, <1>5 DEF Pop, ExecTimeout, WorkerExit, historyVars
<1>6. ASSUME NEW x, NEW y, NEW z, MoveRetry(x, y, z) PROVE QuietInv'
  BY <1>1, <1>6, QuietNeverCut DEF MoveRetry, processVars
<1>7. ASSUME NEW x, NEW y, Enqueue(x, y) PROVE QuietInv'
  BY <1>1, <1>7 DEF Enqueue, processVars
<1>8. ASSUME NEW id \in Jobs, ReapScan(id) PROVE FALSE
  <2>1. MaxLag = 0
    BY <1>8 DEF ReapScan, QuietInv
  <2>2. reaping' = Null
    BY <2>1 DEF IInv, ReapOK
  <2>3. jobKey[id].copy \in LiveCopy
    BY <1>8 DEF ReapScan, IsStale, IInv, KeysOK, LiveKey
  <2> QED BY <1>8, <2>2, <2>3, LiveCopyFields DEF ReapScan
<1>9. ASSUME NEW k, ReapRequeue(k) PROVE FALSE
  BY <1>9 DEF ReapRequeue, QuietInv
<1>10. CASE Crash
  BY <1>10 DEF Crash, QuietInv
<1>11. CASE Tick \/ Restart \/ Shutdown
  BY <1>1, <1>11 DEF Tick, Restart, Shutdown, GoDown, QuietInv, historyVars
<1>12. CASE Stop
  BY <1>12 DEF Stop, QuietInv, IInv, HistoryOK, EventCount
<1>13. CASE UNCHANGED vars
  BY <1>1, <1>13 DEF vars, processVars, historyVars
<1> QED BY <1>2, <1>3, <1>4, <1>5, <1>6, <1>7, <1>8, <1>9, <1>10, <1>11, <1>12, <1>13
        DEF Next, CompleteJob, ProcessRetryJobs

(* A job that nothing special happened to ends in one way only.            *)
OneEnd(id) == ~(results[id] = "ok" /\ \E c \in failed : c.id = id)

EndInv == \A id \in Jobs : Special(id) \/ OneEnd(id)

LEMMA EndNext == IInv /\ SoleInv /\ EndInv /\ [Next]_vars => EndInv'
<1> SUFFICES ASSUME IInv, SoleInv, EndInv, [Next]_vars, NEW id \in Jobs, ~Special(id)'
             PROVE  OneEnd(id)'
  BY DEF EndInv
<1>1. \A j \in Jobs : touched[j] \subseteq touched'[j]
  BY TouchedGrows
<1>2. Sole(id) /\ OneEnd(id)
  BY <1>1 DEF SoleInv, EndInv, Special
<1>3. CASE UNCHANGED <<results, failed>>
  BY <1>2, <1>3 DEF OneEnd
<1>4. ASSUME NEW w \in Procs, NEW k, CompleteSuccess(w, k) PROVE OneEnd(id)'
  <2>1. held[w] # Null
    BY <1>4 DEF CompleteSuccess, IInv, ProcsOK, Busy
  <2>2. CASE held[w].id = id
    BY <1>2, <1>4, <2>1, <2>2 DEF CompleteSuccess, Sole, Gone, InHand, Ended, OneEnd
  <2>3. CASE held[w].id # id
    BY <1>2, <1>4, <2>3 DEF CompleteSuccess, Untrack, OneEnd, IInv
  <2> QED BY <2>2, <2>3
<1>5. ASSUME NEW w \in Procs, NEW k, CompleteFailure(w, k) PROVE OneEnd(id)'
  <2>1. held[w] \in LiveCopy /\ held[w] # Null
    BY <1>5, HeldIsLive, LiveCopyFields DEF CompleteFailure, IInv, Busy
  <2>2. AfterFailure(held[w]).id = held[w].id
    BY <2>1, FailureOfLive
  <2>3. results'[id] = "ok" => results[id] = "ok"
    BY <1>5 DEF CompleteFailure, Untrack, IInv
  <2>4. CASE held[w].id = id
    BY <1>2, <2>1, <2>3, <2>4 DEF Sole, Gone, InHand, Ended, OneEnd
  <2>5. CASE held[w].id # id
    BY <1>2, <1>5, <2>2, <2>3, <2>5 DEF CompleteFailure, FailedWith, OneEnd
  <2> QED BY <2>4, <2>5
<1>6. ASSUME NEW w \in Procs, NEW x,
             \/ Register(w, x) \/ Requeue(w, x) \/ ExecDone(w, x) \/ Pop(w) \/ PopLost(w)
             \/ ExecTimeout(w) \/ WorkerExit(w)
      PROVE  OneEnd(id)'
  BY <1>3, <1>6 DEF Register, Requeue, ExecDone, Pop, PopLost, ExecTimeout, WorkerExit, redisVars
<1>7. ASSUME NEW x, NEW y, NEW z,
             Enqueue(x, y) \/ MoveRetry(x, y, z) \/ ReapScan(x) \/ ReapRequeue(x)
      PROVE  OneEnd(id)'
  BY <1>3, <1>7 DEF Enqueue, MoveRetry, ReapScan, ReapRequeue, redisVars
<1>8. CASE Tick \/ Stop \/ Shutdown \/ Crash \/ Restart \/ UNCHANGED vars
  BY <1>3, <1>8 DEF Tick, Stop, Shutdown, Crash, Restart, GoDown, redisVars, vars
<1> QED BY <1>4, <1>5, <1>6, <1>7, <1>8 DEF Next, CompleteJob, ProcessRetryJobs

InList(r, c) == \E p \in Priorities : \E i \in 1..Len(r[p]) : r[p][i] = c

LEMMA PushedHas ==
  ASSUME ReadyOK(ready), NEW c \in LiveCopy
  PROVE  /\ InList(Pushed(c), c)
         /\ \A d : InList(ready, d) => InList(Pushed(c), d)
<1> DEFINE q == ready[c.prio]
<1>1. c.prio \in Priorities /\ q \in Seq(LiveCopy)
  BY LiveCopyFields DEF ReadyOK
<1>2. /\ Len(q) \in Nat
      /\ Len(Append(q, c)) = Len(q) + 1
      /\ \A i \in 1..Len(q) : Append(q, c)[i] = q[i]
      /\ Append(q, c)[Len(q) + 1] = c
  BY <1>1, AppendProperties, LenProperties
<1>3. /\ Pushed(c)[c.prio] = Append(q, c)
      /\ \A p \in Priorities : p # c.prio => Pushed(c)[p] = ready[p]
  BY <1>1 DEF Pushed, ReadyOK
<1> HIDE DEF q
<1>4. InList(Pushed(c), c)
  <2>1. Len(q) + 1 \in 1..Len(Pushed(c)[c.prio])
    BY <1>2, <1>3
  <2> QED BY <1>1, <1>2, <1>3, <2>1 DEF InList
<1>5. ASSUME NEW d, InList(ready, d) PROVE InList(Pushed(c), d)
  <2>1. PICK p \in Priorities : \E i \in 1..Len(ready[p]) : ready[p][i] = d
    BY <1>5 DEF InList
  <2>2. PICK i \in 1..Len(ready[p]) : ready[p][i] = d
    BY <2>1
  <2>3. i \in 1..Len(Pushed(c)[p]) /\ Pushed(c)[p][i] = d
    BY <1>2, <1>3, <2>2 DEF q
  <2> QED BY <2>3 DEF InList
<1> QED BY <1>4, <1>5

LEMMA PoppedHas ==
  ASSUME ReadyOK(ready), NEW b \in Priorities, ready[b] # <<>>,
         NEW d, InList(ready, d), d # Head(ready[b])
  PROVE  InList(Popped(b), d)
<1>1. ready[b] \in Seq(LiveCopy)
  BY DEF ReadyOK
<1>2. /\ Len(ready[b]) \in Nat
      /\ Len(Tail(ready[b])) = Len(ready[b]) - 1
      /\ \A i \in 1..Len(Tail(ready[b])) : Tail(ready[b])[i] = ready[b][i + 1]
      /\ Head(ready[b]) = ready[b][1]
  BY <1>1, HeadTailProperties, LenProperties
<1>3. Popped(b)[b] = Tail(ready[b]) /\ \A q \in Priorities : q # b => Popped(b)[q] = ready[q]
  BY DEF ReadyOK, Popped
<1>4. PICK q \in Priorities : \E i \in 1..Len(ready[q]) : ready[q][i] = d
  BY DEF InList
<1>5. PICK i \in 1..Len(ready[q]) : ready[q][i] = d
  BY <1>4
<1>6. CASE q = b
  <2>1. i # 1
    BY <1>2, <1>5, <1>6
  <2>2. i - 1 \in 1..Len(Popped(b)[b]) /\ Popped(b)[b][i - 1] = d
    BY <1>2, <1>3, <1>5, <1>6, <2>1
  <2> QED BY <2>2 DEF InList
<1>7. CASE q # b
  BY <1>3, <1>5, <1>7 DEF InList
<1> QED BY <1>6, <1>7

(* What the status and the failures of a job are, by the place of its copy.*)
Shown(id, s, n) == LifecycleStatus(id) = s /\ LifecycleFailures(id) = n

ViewOK ==
  \A id \in Jobs :
    /\ id \notin submitted => Shown(id, "absent", 0)
    /\ \A w \in Procs : Has(w, id) => Shown(id, "inflight", held[w].retries)
    /\ \A c : InList(ready, c) \/ c \in DOMAIN retry
                => (c.id = id => Shown(id, "ready", c.retries))
    /\ \A c \in failed : c.id = id => Shown(id, "dead", MAX_RETRIES)
    /\ results[id] = "ok" /\ (\A c \in failed : c.id # id) => Shown(id, "done", 0)

LEMMA LiveAt ==
  ASSUME IInv, NEW c
  PROVE  c \in LiveCopies <=> \/ InList(ready, c)
                              \/ c \in DOMAIN retry
                              \/ \E w \in Procs : held[w] = c /\ c # Null
<1>1. \A p \in Priorities : DOMAIN ready[p] = 1..Len(ready[p])
  <2>1. SUFFICES ASSUME NEW p \in Priorities PROVE DOMAIN ready[p] = 1..Len(ready[p])
    OBVIOUS
  <2>2. ready[p] \in Seq(LiveCopy)
    BY DEF IInv, ReadyOK
  <2> QED BY <2>2, LenProperties
<1>2. c \in ReadyCopies <=> InList(ready, c)
  BY <1>1 DEF ReadyCopies, InList
<1>3. c \in HeldCopies <=> \E w \in Procs : held[w] = c /\ c # Null
  BY DEF HeldCopies
<1> QED BY <1>2, <1>3 DEF LiveCopies

(* The copies of a single job are one value.                               *)
LEMMA OneCopy ==
  ASSUME IInv, NEW id, Sole(id),
         NEW c \in LiveCopies, c.id = id, NEW d \in LiveCopies, d.id = id
  PROVE  c = d
<1>1. /\ InList(ready, c) => InReady(ready, id)
      /\ InList(ready, d) => InReady(ready, id)
      /\ InList(ready, c) /\ InList(ready, d) => c = d
  BY DEF InList, InReady, Sole, SoleReady
<1>2. /\ c \in DOMAIN retry => InRetry(retry, id)
      /\ d \in DOMAIN retry => InRetry(retry, id)
      /\ c \in DOMAIN retry /\ d \in DOMAIN retry => c = d
  BY DEF InRetry, Sole, SoleRetry
<1>3. /\ (\E w \in Procs : held[w] = c /\ c # Null) => InHand(held, id)
      /\ (\E w \in Procs : held[w] = d /\ d # Null) => InHand(held, id)
      /\ (\E w \in Procs : held[w] = c /\ c # Null) /\ (\E w \in Procs : held[w] = d /\ d # Null)
           => c = d
  BY DEF InHand, Sole, SoleHand
<1>4. /\ \/ InList(ready, c) \/ c \in DOMAIN retry
         \/ \E w \in Procs : held[w] = c /\ c # Null
      /\ \/ InList(ready, d) \/ d \in DOMAIN retry
         \/ \E w \in Procs : held[w] = d /\ d # Null
  BY LiveAt
<1> QED BY <1>1, <1>2, <1>3, <1>4 DEF Sole

LEMMA NoCopyLeft ==
  ASSUME IInv, NEW id, Sole(id), Gone(id), NEW c \in LiveCopies
  PROVE  c.id # id
<1>1. \/ InList(ready, c) \/ c \in DOMAIN retry
      \/ \E w \in Procs : held[w] = c /\ c # Null
  BY LiveAt
<1> QED BY <1>1 DEF Gone, InList, InReady, InRetry, InHand

LEMMA FailuresOfLive ==
  ASSUME IInv, NEW id, Sole(id), NEW c \in LiveCopies, c.id = id,
         LifecycleStatus(id) \notin {"absent", "done"}
  PROVE  LifecycleFailures(id) = c.retries
<1> DEFINE T == LiveCopies \union failed
           d == CHOOSE x \in T : x.id = id
<1>1. d \in T /\ d.id = id
  <2>1. \E x \in T : x.id = id
    OBVIOUS
  <2> HIDE DEF T
  <2> QED BY <2>1
<1>2. LifecycleFailures(id) = d.retries
  BY DEF LifecycleFailures
<1> HIDE DEF d
<1>3. d \notin failed
  <2>1. ~Gone(id)
    BY NoCopyLeft
  <2> QED BY <1>1, <2>1 DEF Sole, Ended
<1>4. d = c
  BY <1>1, <1>3, OneCopy
<1> QED BY <1>2, <1>4

LEMMA FailuresOfDead ==
  ASSUME IInv, NEW id, Sole(id), NEW c \in failed, c.id = id,
         LifecycleStatus(id) \notin {"absent", "done"}
  PROVE  LifecycleFailures(id) = MAX_RETRIES
<1> DEFINE T == LiveCopies \union failed
           d == CHOOSE x \in T : x.id = id
<1>1. d \in T /\ d.id = id
  <2>1. \E x \in T : x.id = id
    OBVIOUS
  <2> HIDE DEF T
  <2> QED BY <2>1
<1>2. LifecycleFailures(id) = d.retries
  BY DEF LifecycleFailures
<1> HIDE DEF d
<1>3. d \in failed
  <2>1. Gone(id)
    BY DEF Sole, Ended
  <2> QED BY <1>1, <2>1, NoCopyLeft
<1> QED BY <1>2, <1>3 DEF IInv, DeadCopy

LEMMA ViewHolds ==
  IInv /\ (\A id \in Jobs : Sole(id) /\ OneEnd(id)) => ViewOK
<1> SUFFICES ASSUME IInv, NEW id \in Jobs, Sole(id), OneEnd(id)
             PROVE  /\ id \notin submitted => Shown(id, "absent", 0)
                    /\ \A w \in Procs : Has(w, id) => Shown(id, "inflight", held[w].retries)
                    /\ \A c : InList(ready, c) \/ c \in DOMAIN retry
                                => (c.id = id => Shown(id, "ready", c.retries))
                    /\ \A c \in failed : c.id = id => Shown(id, "dead", MAX_RETRIES)
                    /\ results[id] = "ok" /\ (\A c \in failed : c.id # id)
                         => Shown(id, "done", 0)
  BY DEF ViewOK
<1>1. ASSUME id \notin submitted PROVE Shown(id, "absent", 0)
  <2>1. ~Ended(results, failed, id) /\ ~InHand(held, id)
    BY <1>1 DEF Sole, Gone
  <2>2. LifecycleStatus(id) = "absent"
    BY <1>1, <2>1 DEF LifecycleStatus, Ended, Holders, Has, InHand
  <2> QED BY <2>2 DEF Shown, LifecycleFailures
<1>2. ASSUME NEW w \in Procs, Has(w, id) PROVE Shown(id, "inflight", held[w].retries)
  <2>1. id \in submitted /\ ~Ended(results, failed, id)
    BY <1>2 DEF Sole, Gone, InHand, Has
  <2>2. LifecycleStatus(id) = "inflight"
    BY <1>2, <2>1 DEF LifecycleStatus, Ended, Holders
  <2>3. held[w] \in LiveCopies /\ held[w].id = id
    BY <1>2, LiveAt DEF Has
  <2> QED BY <2>2, <2>3, FailuresOfLive DEF Shown
<1>3. ASSUME NEW c, InList(ready, c) \/ c \in DOMAIN retry, c.id = id
      PROVE  Shown(id, "ready", c.retries)
  <2>1. InReady(ready, id) \/ InRetry(retry, id)
    BY <1>3 DEF InList, InReady, InRetry
  <2>2. id \in submitted /\ ~Ended(results, failed, id) /\ ~InHand(held, id)
    BY <2>1 DEF Sole, Gone
  <2>3. LifecycleStatus(id) = "ready"
    BY <2>2 DEF LifecycleStatus, Ended, Holders, Has, InHand
  <2>4. c \in LiveCopies
    BY <1>3, LiveAt
  <2> QED BY <1>3, <2>3, <2>4, FailuresOfLive DEF Shown
<1>4. ASSUME NEW c \in failed, c.id = id PROVE Shown(id, "dead", MAX_RETRIES)
  <2>1. LifecycleStatus(id) = "dead"
    BY <1>4 DEF Sole, Ended, Gone, InHand, OneEnd, LifecycleStatus, Holders, Has
  <2> QED BY <1>4, <2>1, FailuresOfDead DEF Shown
<1>5. ASSUME results[id] = "ok", \A c \in failed : c.id # id PROVE Shown(id, "done", 0)
  <2>1. LifecycleStatus(id) = "done"
    BY <1>5 DEF Sole, Ended, Gone, InHand, LifecycleStatus, Holders, Has
  <2> QED BY <2>1 DEF Shown, LifecycleFailures
<1> QED BY <1>1, <1>2, <1>3, <1>4, <1>5

Plain == IInv /\ KeptInv /\ SoleInv /\ EndInv /\ QuietInv

LEMMA PlainView ==
  Plain => /\ ViewOK
           /\ \A id \in Jobs : Sole(id)
           /\ \A id \in submitted : Kept(id)
<1> SUFFICES ASSUME Plain PROVE ViewOK /\ (\A id \in Jobs : Sole(id)) /\ (\A id \in submitted : Kept(id))
  OBVIOUS
<1>1. \A id \in Jobs : ~Special(id) /\ ~Exempt(id)
  BY DEF Plain, QuietInv, Special, Exempt
<1>2. \A id \in Jobs : Sole(id) /\ OneEnd(id)
  BY <1>1 DEF Plain, SoleInv, EndInv
<1>3. \A id \in submitted : Kept(id)
  BY <1>1 DEF Plain, KeptInv, IInv, HistoryOK
<1> QED BY <1>2, <1>3, ViewHolds DEF Plain

SameShown(id) == /\ LifecycleStatus(id)' = LifecycleStatus(id)
                 /\ LifecycleFailures(id)' = LifecycleFailures(id)

Waiting(r, b, c) == InList(r, c) \/ c \in DOMAIN b

(* A step that leaves a job where it is, or moves its copy from one queue  *)
(* to another without a retry, changes neither its status nor its count.   *)
LEMMA StaysShown ==
  ASSUME Plain, Plain', NEW id \in Jobs,
         id \in submitted' <=> id \in submitted,
         \A c : c.id = id /\ Waiting(ready, retry, c)
                  => \E d : d.id = id /\ d.retries = c.retries /\ Waiting(ready', retry', d),
         \A w \in Procs : Has(w, id) => held'[w] = held[w],
         results[id] = "ok" => results'[id] = "ok",
         \A c : c.id = id => (c \in failed' <=> c \in failed)
  PROVE  SameShown(id)
<1>1. ViewOK
  BY PlainView
<1>2. ViewOK'
  BY PlainView, PTL
<1>3. CASE id \notin submitted
  BY <1>1, <1>2, <1>3 DEF ViewOK, Shown, SameShown
<1>4. CASE \E w \in Procs : Has(w, id)
  <2>1. PICK w \in Procs : Has(w, id)
    BY <1>4
  <2>2. Has(w, id)' /\ held'[w] = held[w]
    BY <2>1 DEF Has
  <2> QED BY <1>1, <1>2, <2>1, <2>2 DEF ViewOK, Shown, SameShown
<1>5. CASE \E c : c.id = id /\ Waiting(ready, retry, c)
  <2>1. PICK c : c.id = id /\ Waiting(ready, retry, c)
    BY <1>5
  <2>2. PICK d : d.id = id /\ d.retries = c.retries /\ Waiting(ready', retry', d)
    BY <2>1
  <2>3. Shown(id, "ready", c.retries)
    BY <1>1, <2>1 DEF ViewOK, Waiting
  <2>4. Shown(id, "ready", d.retries)'
    BY <1>2, <2>2 DEF ViewOK, Waiting
  <2> QED BY <2>2, <2>3, <2>4 DEF Shown, SameShown
<1>6. CASE \E c \in failed : c.id = id
  BY <1>1, <1>2, <1>6 DEF ViewOK, Shown, SameShown
<1>7. CASE results[id] = "ok" /\ \A c \in failed : c.id # id
  BY <1>1, <1>2, <1>7 DEF ViewOK, Shown, SameShown
<1>8. id \in submitted => Kept(id)
  BY PlainView
<1> QED BY <1>3, <1>4, <1>5, <1>6, <1>7, <1>8
        DEF Kept, InReady, InRetry, InHand, Ended, Has, Waiting, InList

St == [j \in Jobs |-> LifecycleStatus(j)]
Fl == [j \in Jobs |-> LifecycleFailures(j)]

LEMMA OneJobChanges ==
  ASSUME NEW j \in Jobs, NEW s, NEW n, Shown(j, s, n)',
         \A i \in Jobs : i # j => SameShown(i)
  PROVE  St' = [St EXCEPT ![j] = s] /\ Fl' = [Fl EXCEPT ![j] = n]
BY DEF St, Fl, Shown, SameShown

LEMMA NoJobChanges ==
  ASSUME \A i \in Jobs : SameShown(i)
  PROVE  UNCHANGED <<St, Fl>>
BY DEF St, Fl, SameShown

(* A step that moves no copy and ends nothing.                             *)
LEMMA FrameStutters ==
  ASSUME Plain, Plain', UNCHANGED <<ready, retry, failed, results, held, submitted>>
  PROVE  UNCHANGED <<St, Fl>>
<1>1. ASSUME NEW id \in Jobs PROVE SameShown(id)
  BY StaysShown
<1> QED BY <1>1, NoJobChanges

LEMMA EnqueueSubmits ==
  ASSUME Plain, Plain', NEW jid \in Jobs, NEW score \in Scores, Enqueue(jid, score)
  PROVE  Lifecycle!Submit(jid)
<1> DEFINE c == NewCopy(jid, score)
<1>1. c \in LiveCopy /\ c.id = jid /\ c.retries = 0 /\ ready' = Pushed(c)
  BY NewCopyIsLive, InputAssumption DEF NewCopy, Enqueue
<1>2. /\ UNCHANGED <<retry, failed, results, held>>
      /\ jid \notin submitted /\ submitted' = submitted \union {jid}
  BY DEF Enqueue, processVars
<1> HIDE DEF c
<1>3. InList(ready', c) /\ \A d : InList(ready, d) => InList(ready', d)
  BY <1>1, PushedHas DEF Plain, IInv
<1>4. Shown(jid, "absent", 0)
  BY <1>2, PlainView DEF ViewOK
<1>5. Shown(jid, "ready", 0)'
  <2>1. ViewOK'
    BY PlainView, PTL
  <2> QED BY <1>1, <1>3, <2>1 DEF ViewOK
<1>6. ASSUME NEW i \in Jobs, i # jid PROVE SameShown(i)
  BY <1>2, <1>3, <1>6, StaysShown DEF Waiting
<1>7. St' = [St EXCEPT ![jid] = "ready"] /\ Fl' = [Fl EXCEPT ![jid] = 0]
  BY <1>5, <1>6, OneJobChanges
<1>8. St[jid] = "absent" /\ Fl' = Fl
  BY <1>4, <1>7 DEF St, Fl, Shown
<1> QED BY <1>7, <1>8 DEF Lifecycle!Submit, St, Fl

LEMMA PopStarts ==
  ASSUME Plain, Plain', NEW w \in Procs, Pop(w)
  PROVE  \E j \in Jobs : Lifecycle!Start(j)
<1>1. PICK b \in Priorities : /\ ready[b] # <<>>
                              /\ ready' = Popped(b)
                              /\ held' = [held EXCEPT ![w] = Head(ready[b])]
  BY DEF Pop, FirstNonEmpty, Popped
<1>2. /\ UNCHANGED <<retry, failed, results, submitted>>
      /\ pc[w] = "polling"
  BY DEF Pop, historyVars
<1>0. ready[b] \in Seq(LiveCopy) /\ Head(ready[b]) \in LiveCopy
  BY <1>1, PoppedIsOK DEF Plain, IInv, ReadyOK
<1> PICK c \in LiveCopy : c = Head(ready[b])
  BY <1>0
<1> PICK j \in Jobs : j = c.id
  BY LiveCopyFields
<1>3. c # Null
  BY LiveCopyFields
<1>4. InList(ready, c)
  <2>1. c = ready[b][1] /\ 1 \in 1..Len(ready[b])
    BY <1>0, <1>1, HeadTailProperties, LenProperties, EmptySeq
  <2> QED BY <2>1 DEF InList
<1>5. held'[w] = c /\ held[w] = Null /\ \A v \in Procs : v # w => held'[v] = held[v]
  BY <1>1, <1>2 DEF Plain, IInv, ProcsOK, Busy
<1>6. \A d : InList(ready, d) /\ d # c => InList(ready', d)
  BY <1>1, PoppedHas DEF Plain, IInv
<1>7. Shown(j, "ready", c.retries)
  BY <1>4, PlainView DEF ViewOK
<1>8. Shown(j, "inflight", c.retries)'
  <2>1. ViewOK'
    BY PlainView, PTL
  <2>2. Has(w, j)'
    BY <1>3, <1>5 DEF Has
  <2> QED BY <1>3, <1>5, <2>1, <2>2 DEF ViewOK
<1>9. ASSUME NEW i \in Jobs, i # j PROVE SameShown(i)
  <2>1. \A v \in Procs : Has(v, i) => held'[v] = held[v]
    BY <1>5 DEF Has
  <2>2. \A d : d.id = i /\ Waiting(ready, retry, d) => Waiting(ready', retry', d)
    BY <1>2, <1>6, <1>9 DEF Waiting
  <2> QED BY <1>2, <2>1, <2>2, StaysShown
<1>10. St' = [St EXCEPT ![j] = "inflight"] /\ Fl' = [Fl EXCEPT ![j] = c.retries]
  BY <1>8, <1>9, OneJobChanges
<1>11. St[j] = "ready" /\ Fl' = Fl
  BY <1>7, <1>10 DEF St, Fl, Shown
<1> QED BY <1>10, <1>11 DEF Lifecycle!Start, St, Fl

LEMMA SuccessSucceeds ==
  ASSUME Plain, Plain', NEW w \in Procs, NEW k \in 0..3, CompleteSuccess(w, k)
  PROVE  \E j \in Jobs : Lifecycle!Succeed(j)
<1>1. held[w] \in LiveCopy
  BY HeldIsLive DEF Plain, IInv, CompleteSuccess, Busy
<1> PICK c \in LiveCopy : c = held[w]
  BY <1>1
<1> PICK j \in Jobs : j = c.id
  BY LiveCopyFields
<1>2. Has(w, j) /\ c # Null
  BY LiveCopyFields DEF Has
<1>3. ViewOK /\ ViewOK'
  BY PlainView, PTL
<1>4. UNCHANGED <<ready, retry, failed, submitted>> /\ Finish(w)
  BY DEF CompleteSuccess
<1>5. results'[j] = "ok" /\ \A i \in Jobs : i # j => results'[i] = results[i]
  <2>1. ~(k < 3)
    BY QuietNeverCut DEF CompleteSuccess, Plain
  <2> QED BY <2>1 DEF CompleteSuccess, Untrack, Plain, IInv
<1>6. \A d \in failed' : d.id # j
  <2>1. Sole(j)
    BY PlainView
  <2> QED BY <1>2, <1>4, <2>1 DEF Sole, Gone, Ended, InHand, Has
<1>7. Shown(j, "inflight", c.retries)
  BY <1>2, <1>3 DEF ViewOK
<1>8. Shown(j, "done", 0)'
  BY <1>3, <1>5, <1>6 DEF ViewOK
<1>9. ASSUME NEW i \in Jobs, i # j PROVE SameShown(i)
  <2>1. \A v \in Procs : Has(v, i) => held'[v] = held[v]
    BY <1>4, <1>9 DEF Has, Finish, Plain, IInv, ProcsOK
  <2> QED BY <1>4, <1>5, <1>9, <2>1, StaysShown
<1>10. St' = [St EXCEPT ![j] = "done"] /\ Fl' = [Fl EXCEPT ![j] = 0]
  BY <1>8, <1>9, OneJobChanges
<1>11. St[j] = "inflight"
  BY <1>7 DEF St, Shown
<1> QED BY <1>10, <1>11 DEF Lifecycle!Succeed, St, Fl

LEMMA FailureFails ==
  ASSUME Plain, Plain', NEW w \in Procs, NEW k \in 0..4, CompleteFailure(w, k)
  PROVE  \E j \in Jobs : Lifecycle!Fail(j)
<1>1. held[w] \in LiveCopy
  BY HeldIsLive DEF Plain, IInv, CompleteFailure, Busy
<1> PICK c \in LiveCopy : c = held[w]
  BY <1>1
<1> PICK j \in Jobs : j = c.id
  BY LiveCopyFields
<1> PICK d : d = AfterFailure(c)
  OBVIOUS
<1>2. Has(w, j) /\ c # Null /\ c.retries \in Nat /\ c.retries < MAX_RETRIES
  BY LiveCopyFields DEF Has
<1>3. ViewOK /\ ViewOK'
  BY PlainView, PTL
<1>4. UNCHANGED <<ready, submitted>> /\ Finish(w)
  BY DEF CompleteFailure
<1>5. d.id = j /\ d.retries = c.retries + 1
  BY FailureOfLive
<1>6. ~(k < 4)
  BY QuietNeverCut DEF CompleteFailure, Plain
<1>7. failed' = FailedWith(d) /\ retry' = RetryWith(d)
  BY <1>6 DEF CompleteFailure
<1>8. \A i \in Jobs : i # j => results'[i] = results[i]
  BY DEF CompleteFailure, Untrack, Plain, IInv
<1>9. Shown(j, "inflight", c.retries)
  BY <1>2, <1>3 DEF ViewOK
<1> DEFINE s == IF c.retries + 1 = MAX_RETRIES THEN "dead" ELSE "ready"
<1>10. Shown(j, s, c.retries + 1)'
  <2>1. CASE c.retries + 1 = MAX_RETRIES
    <3>1. d \in failed'
      BY <1>5, <1>7, <2>1, MaxRetriesAssumption DEF FailedWith, IsDead
    <3>2. Shown(j, "dead", MAX_RETRIES)'
      BY <1>3, <1>5, <3>1 DEF ViewOK
    <3> QED BY <2>1, <3>2
  <2>2. CASE c.retries + 1 # MAX_RETRIES
    <3>1. ~IsDead(d)
      BY <1>2, <1>5, <2>2, MaxRetriesAssumption DEF IsDead
    <3>2. d \in DOMAIN retry'
      BY <1>7, <3>1 DEF RetryWith, BagAdd
    <3>3. Shown(j, "ready", d.retries)'
      BY <1>3, <1>5, <3>2 DEF ViewOK
    <3> QED BY <1>5, <2>2, <3>3
  <2> QED BY <2>1, <2>2
<1> HIDE DEF s
<1>11. ASSUME NEW i \in Jobs, i # j PROVE SameShown(i)
  <2>1. \A v \in Procs : Has(v, i) => held'[v] = held[v]
    BY <1>4, <1>11 DEF Has, Finish, Plain, IInv, ProcsOK
  <2>2. \A x : x.id = i => (x \in failed' <=> x \in failed)
    BY <1>5, <1>7, <1>11 DEF FailedWith
  <2>3. \A x : Waiting(ready, retry, x) => Waiting(ready', retry', x)
    BY <1>4, <1>7 DEF RetryWith, BagAdd, Waiting
  <2> QED BY <1>4, <1>8, <1>11, <2>1, <2>2, <2>3, StaysShown
<1>12. St' = [St EXCEPT ![j] = s] /\ Fl' = [Fl EXCEPT ![j] = c.retries + 1]
  BY <1>10, <1>11, OneJobChanges
<1>13. St[j] = "inflight" /\ Fl[j] = c.retries
  BY <1>9 DEF St, Fl, Shown
<1> QED BY <1>2, <1>12, <1>13 DEF Lifecycle!Fail, St, Fl, s

(* The retry ticker moves a copy between two queues.                       *)
LEMMA MoveStutters ==
  ASSUME Plain, Plain', NEW c \in DOMAIN retry, NEW waited \in Waits,
         NEW removed \in BOOLEAN, MoveRetry(c, waited, removed)
  PROVE  UNCHANGED <<St, Fl>>
<1> PICK d : d = Aged(c, waited)
  OBVIOUS
<1>1. c \in LiveCopy
  BY DEF Plain, IInv, RetryOK
<1>2. d \in LiveCopy /\ d.id = c.id /\ d.retries = c.retries
  <2>1. d \in LiveCopy /\ d.id = c.id
    BY <1>1, AgedIsLive, InputAssumption
  <2>2. d.retries = c.retries
    BY <1>1, LiveCopyFields DEF Aged, Copy
  <2> QED BY <2>1, <2>2
<1>3. /\ ready' = Pushed(d)
      /\ retry' = retry \/ retry' = BagRemove(retry, c)
      /\ UNCHANGED <<failed, results, held, submitted>>
  BY DEF MoveRetry, RetryAfterMove, processVars
<1>4. InList(ready', d) /\ \A x : InList(ready, x) => InList(ready', x)
  BY <1>2, <1>3, PushedHas DEF Plain, IInv
<1>5. \A x : x \in DOMAIN retry /\ x # c => x \in DOMAIN retry'
  BY <1>3 DEF BagRemove
<1>6. ASSUME NEW i \in Jobs PROVE SameShown(i)
  <2>1. \A x : x.id = i /\ Waiting(ready, retry, x)
                 => \E y : y.id = i /\ y.retries = x.retries /\ Waiting(ready', retry', y)
    BY <1>2, <1>4, <1>5 DEF Waiting
  <2> QED BY <1>3, <2>1, StaysShown
<1> QED BY <1>6, NoJobChanges

LEMMA LifecycleStep == Plain /\ Plain' /\ [Next]_vars => [Lifecycle!Next]_<<St, Fl>>
<1> SUFFICES ASSUME Plain, Plain', [Next]_vars
             PROVE  Lifecycle!Next \/ UNCHANGED <<St, Fl>>
  OBVIOUS
<1>1. CASE UNCHANGED vars
  BY <1>1, FrameStutters DEF vars, redisVars, processVars, historyVars
<1>2. ASSUME NEW w \in Procs, NEW x,
             Register(w, x) \/ ExecDone(w, x) \/ ExecTimeout(w) \/ WorkerExit(w)
      PROVE  UNCHANGED <<St, Fl>>
  BY <1>2, FrameStutters DEF Register, ExecDone, ExecTimeout, WorkerExit, redisVars, historyVars
<1>3. CASE Tick \/ Stop \/ Shutdown \/ Restart
  BY <1>3, FrameStutters DEF Tick, Stop, Shutdown, Restart, GoDown, redisVars, historyVars
<1>4. ASSUME NEW id \in Jobs, ReapScan(id) PROVE UNCHANGED <<St, Fl>>
  BY <1>4, FrameStutters DEF ReapScan, redisVars
<1>5. ASSUME NEW w \in Procs, NEW added, Requeue(w, added) PROVE FALSE
  <2>1. held[w].id \in Jobs
    BY <1>5, HeldIsLive DEF Plain, IInv, Requeue, Busy
  <2>2. Sole(held[w].id)
    BY <2>1, PlainView
  <2> QED BY <1>5, <2>2 DEF Sole, Requeue
<1>6. ASSUME NEW w \in Procs, PopLost(w) PROVE FALSE
  BY <1>6, QuietNeverCut DEF PopLost, Plain
<1>7. ASSUME NEW k, ReapRequeue(k) PROVE FALSE
  BY <1>7 DEF ReapRequeue, Plain, QuietInv
<1>8. ~Crash
  BY DEF Crash, Plain, QuietInv
<1>9. ASSUME NEW id \in Jobs, NEW score \in Scores, Enqueue(id, score) PROVE Lifecycle!Next
  BY <1>9, EnqueueSubmits DEF Lifecycle!Next
<1>10. ASSUME NEW w \in Procs, Pop(w) PROVE Lifecycle!Next
  BY <1>10, PopStarts DEF Lifecycle!Next
<1>11. ASSUME NEW w \in Procs, CompleteJob(w) PROVE Lifecycle!Next
  BY <1>11, SuccessSucceeds, FailureFails DEF CompleteJob, Lifecycle!Next
<1>12. CASE ProcessRetryJobs
  BY <1>12, MoveStutters DEF ProcessRetryJobs
<1> QED BY <1>1, <1>2, <1>3, <1>4, <1>5, <1>6, <1>7, <1>8, <1>9, <1>10, <1>11, <1>12
        DEF Next

(* With no cut connection, crash, rate-limited run or reap in the budget,  *)
(* every behaviour of the queue is one of JobLifecycle: the copies that go *)
(* through the lists are one job with one status.                          *)
THEOREM ImplementsLifecycleHolds ==
  ASSUME Quiet
  PROVE  Spec => ImplementsLifecycle
<1>1. Init => Plain
  <2> SUFFICES ASSUME Init PROVE Plain
    OBVIOUS
  <2>1. QuietInv
    BY DEF Quiet, Init, QuietInv
  <2>2. KeptInv /\ EndInv
    BY DEF Init, KeptInv, EndInv, OneEnd
  <2> QED BY <2>1, <2>2, InitIsOK, InitIsSole DEF Plain
<1>2. Plain /\ [Next]_vars => Plain'
  BY NextIsOK, KeptNext, SoleNext, EndNext, QuietNext DEF Plain
<1>3. Init => Lifecycle!Init
  <2> SUFFICES ASSUME Init PROVE Lifecycle!Init
    OBVIOUS
  <2>1. Plain /\ submitted = {}
    BY <1>1 DEF Init
  <2>2. \A j \in Jobs : Shown(j, "absent", 0)
    BY <2>1, PlainView DEF ViewOK
  <2> QED BY <2>2 DEF Lifecycle!Init, Shown
<1>4. Plain /\ Plain' /\ [Next]_vars => [Lifecycle!Next]_Lifecycle!vars
  BY LifecycleStep DEF Lifecycle!vars, St, Fl
<1> QED BY <1>1, <1>2, <1>3, <1>4, PTL DEF Spec, ImplementsLifecycle, Lifecycle!Spec
=============================================================================
