---------------------------- MODULE IndexerProofs ----------------------------
(***************************************************************************)
(* Safety of IndexerStream, for any number of messages, goroutines, reads, *)
(* retries and failures.  The argument: an entry handed out is in the      *)
(* batch of a goroutine until it is acknowledged (PendingIsHeld), a        *)
(* goroutine that is about to add a message again has acknowledged its     *)
(* entry and has a retry left (WorkerOK), and no goroutine is at work in a *)
(* process that has ended (DownIsQuiet).  How copies multiply is counted   *)
(* with the pairs of an entry and a goroutine that are spent: each of them *)
(* pays for one copy at most (EachIsPaidFor).                              *)
(***************************************************************************)
EXTENDS IndexerStream, FiniteSetTheorems, WellFoundedInduction, TLAPS

Resting == {"reading", "rereading", "exited"}

WorkerOK(w) ==
  /\ pc[w] \in Resting <=> batch[w] = {}
  /\ pc[w] = "readd" => /\ Retries(w) < MAX_RETRIES
                        /\ \A p \in pending : p[2] # Current(w)

DownIsQuiet == mode = "down" => \A w \in Procs : pc[w] = "exited"

(* An entry with r retries is preceded by one for each smaller count.      *)
EarlierTried ==
  \A e \in Entries : \A r \in 0..stream[e].retries :
    [msg |-> stream[e].msg, retries |-> r] \in {stream[f] : f \in Entries}

IInv ==
  /\ TypeOK
  /\ \A w \in Procs : WorkerOK(w)
  /\ DownIsQuiet
  /\ EarlierTried
  /\ DeadWasRetried
  /\ PendingIsHeld
  /\ NoMsgLost

(* What every step keeps: entries stay, failures are remembered.           *)
HistoryKept ==
  /\ \A e \in Entries : e \in Entries' /\ stream'[e] = stream[e]
  /\ \A m \in Msgs : touched[m] \subseteq touched'[m]
  /\ succeeded \subseteq succeeded' /\ dead \subseteq dead'

-----------------------------------------------------------------------------
(* A non-empty set of naturals has a least element.                        *)
LEMMA LeastExists ==
  ASSUME NEW S, S \subseteq Nat, S # {}
  PROVE  \E x \in S : \A y \in S : x <= y
<1> DEFINE R == {ss \in Nat \X Nat : ss[1] < ss[2]}
<1>1. IsWellFoundedOn(R, Nat)
  BY NatLessThanWellFounded DEF OpToRel
<1>2. PICK x \in S : \A y \in S : ~ (<<y, x>> \in R)
  BY <1>1, WFMin
<1>3. ASSUME NEW y \in S
      PROVE  x <= y
  <2>1. x \in Nat /\ y \in Nat
    OBVIOUS
  <2>2. <<y, x>> \in Nat \X Nat
    BY <2>1
  <2>3. ~ (<<y, x>>[1] < <<y, x>>[2])
    BY <1>2, <2>2
  <2> QED
    BY <2>1, <2>3
<1> QED
  BY <1>3

(* The message in hand is an entry of the stream that was handed out.      *)
LEMMA InHandIsEntry ==
  ASSUME TypeOK, NEW w \in Procs, batch[w] # {}
  PROVE  /\ Current(w) \in batch[w]
         /\ Current(w) \in 1..delivered
         /\ Current(w) \in Entries
         /\ stream[Current(w)] \in Entry
         /\ Msg(w) \in Msgs
         /\ Msg(w) \in Published
         /\ Retries(w) \in 0..MAX_RETRIES
<1>1. batch[w] \subseteq 1..delivered /\ batch[w] \subseteq Nat
  BY DEF TypeOK
<1>2. \E e \in batch[w] : \A f \in batch[w] : e <= f
  BY <1>1, LeastExists
<1>3. Current(w) \in batch[w]
  BY <1>2 DEF Current
<1>4. Current(w) \in 1..delivered /\ Current(w) \in Entries
  BY <1>1, <1>3 DEF TypeOK, Entries
<1>5. stream[Current(w)] \in Entry
  BY <1>4 DEF TypeOK, Entries
<1> QED
  BY <1>3, <1>4, <1>5 DEF Msg, Retries, Entry, Published

(* The oldest entries among those not delivered: a prefix of them.         *)
LEMMA FirstFewUndelivered ==
  ASSUME TypeOK, NEW read, read = FirstFew(Undelivered)
  PROVE  /\ read \subseteq Undelivered
         /\ Cardinality(read) \in Nat
         /\ delivered + Cardinality(read) \in delivered..Len(stream)
         /\ read = (delivered + 1)..(delivered + Cardinality(read))
<1> DEFINE d == delivered
           n == Len(stream)
           last == IF d + Count <= n THEN d + Count ELSE n
<1>1. d \in Nat /\ n \in Nat /\ d <= n /\ Count \in Nat /\ Count > 0
  BY ReadAssumption DEF TypeOK
<1>2. \A a, b \in Int : a <= b + 1 => Cardinality(a..b) = b - a + 1
  <2> TAKE a, b \in Int
  <2>1. Cardinality(a..b) = IF a > b THEN 0 ELSE b - a + 1
    BY FS_Interval
  <2> QED
    BY <2>1
<1>3. \A e \in (d + 1)..n : Cardinality({f \in (d + 1)..n : f <= e}) = e - d
  <2> TAKE e \in (d + 1)..n
  <2> DEFINE upTo == {f \in (d + 1)..n : f <= e}
             first == d + 1
  <2>1. upTo = first..e
    BY <1>1
  <2>2. first \in Int /\ e \in Int /\ first <= e + 1 /\ e - first + 1 = e - d
    BY <1>1
  <2> HIDE DEF upTo, first
  <2>3. Cardinality(upTo) = e - d
    BY <1>2, <2>1, <2>2
  <2> QED
    BY <2>3 DEF upTo
<1>4. read = {e \in (d + 1)..n : e - d <= Count}
  BY <1>3 DEF FirstFew, Undelivered
<1>5. read = (d + 1)..last
  BY <1>1, <1>4
<1>6. last \in d..n
  BY <1>1
<1>7. Cardinality(read) = last - d
  <2> DEFINE first == d + 1
  <2>1. first \in Int /\ last \in Int /\ first <= last + 1 /\ last - first + 1 = last - d
    BY <1>1, <1>6
  <2>2. read = first..last
    BY <1>5
  <2> HIDE DEF first, last
  <2> QED
    BY <1>2, <2>1, <2>2
<1> HIDE DEF last
<1> QED
  BY <1>1, <1>5, <1>6, <1>7 DEF Undelivered

(* A failure uses up its budget and marks the messages it hits.            *)
LEMMA FaultKept ==
  ASSUME TypeOK, NEW event \in Events, NEW msgs, Fault(event, msgs)
  PROVE  /\ budget' \in EventCount
         /\ touched' \in [Msgs -> SUBSET Events]
         /\ \A m \in Msgs : touched[m] \subseteq touched'[m]
         /\ \A m \in Msgs : m \in msgs => touched'[m] \cap Events # {}
<1>1. budget' \in EventCount
  <2> DEFINE left == budget[event] - 1
  <2>1. left \in Nat
    BY DEF Fault, TypeOK, EventCount, Events
  <2>2. budget' = [budget EXCEPT ![event] = left]
    BY DEF Fault
  <2> HIDE DEF left
  <2> QED
    BY <2>1, <2>2 DEF TypeOK, EventCount, Events
<1>2. touched' = [m \in Msgs |-> IF m \in msgs THEN touched[m] \union {event} ELSE touched[m]]
  BY DEF Fault, Touch
<1> QED
  BY <1>1, <1>2 DEF TypeOK, Untouched

(* A goroutine that takes no step keeps what it relies on.                 *)
LEMMA OtherWorkerKept ==
  ASSUME IInv, HistoryKept, NEW v \in Procs, pc'[v] = pc[v], batch'[v] = batch[v],
         \A p \in pending' : p \in pending \/ p[2] \notin batch[v]
  PROVE  /\ WorkerOK(v)'
         /\ batch[v] # {} => Current(v)' = Current(v) /\ Msg(v)' = Msg(v)
<1>1. WorkerOK(v) /\ TypeOK
  BY DEF IInv
<1>2. Current(v)' = Current(v)
  BY DEF Current
<1>3. ASSUME batch[v] # {}
      PROVE  /\ Current(v) \in batch[v]
             /\ Msg(v)' = Msg(v) /\ Retries(v)' = Retries(v)
  BY <1>1, <1>2, <1>3, InHandIsEntry DEF HistoryKept, Msg, Retries
<1>4. pc[v] = "readd" => batch[v] # {}
  BY <1>1 DEF WorkerOK, Resting
<1> QED
  BY <1>1, <1>2, <1>3, <1>4 DEF WorkerOK

(* A history only grows: what no failure has hit had not been hit before.  *)
LEMMA UntouchedBefore ==
  ASSUME HistoryKept, NEW m \in Msgs, touched'[m] \cap Events = {}
  PROVE  Untouched(m, Events)
BY DEF HistoryKept, Untouched

LEMMA PublishedAreMsgs ==
  ASSUME TypeOK
  PROVE  /\ Published \subseteq Msgs
         /\ \A e \in Entries : stream[e] \in Entry /\ stream[e].msg \in Msgs
         /\ \A p \in pending : p[2] \in 1..delivered /\ p[2] \in Entries
         /\ \A e \in Own : e \in 1..delivered /\ e \in Entries
         /\ \A e \in Undelivered : e \in Entries
<1>0. \A e \in Entries : stream[e] \in Entry
  BY DEF TypeOK, Entries
<1>1. \A e \in Entries : stream[e].msg \in Msgs
  BY <1>0 DEF Entry
<1>2. \A e \in 1..delivered : e \in Entries
  BY DEF TypeOK, Entries
<1>3. \A p \in pending : p[2] \in 1..delivered
  BY DEF TypeOK
<1>4. \A e \in Undelivered : e \in Entries
  BY DEF TypeOK, Entries, Undelivered
<1> QED
  BY <1>0, <1>1, <1>2, <1>3, <1>4 DEF Published, Own

(* Steps that move no entry.                                               *)
LEMMA QuietStep ==
  ASSUME IInv, TypeOK',
         UNCHANGED <<stream, delivered, pending, process, batch, succeeded, dead, touched>>,
         \A v \in Procs : WorkerOK(v)',
         \A v \in Procs : pc[v] = "readd" => pc'[v] = "readd",
         DownIsQuiet'
  PROVE  IInv'
<1>1. /\ Entries' = Entries /\ Published' = Published
      /\ Undelivered' = Undelivered /\ Own' = Own
      /\ \A v \in Procs : Msg(v)' = Msg(v)
  BY DEF Entries, Published, Undelivered, Own, Msg, Current
<1>2. EarlierTried' /\ DeadWasRetried'
  BY <1>1 DEF IInv, EarlierTried, DeadWasRetried
<1>3. PendingIsHeld'
  BY <1>1 DEF IInv, PendingIsHeld, Untouched
<1>4. NoMsgLost'
  BY <1>1, PublishedAreMsgs DEF IInv, NoMsgLost, Untouched
<1> QED
  BY <1>2, <1>3, <1>4 DEF IInv

(* The end of the work on one entry.                                       *)
LEMMA GoOnTypes ==
  ASSUME IInv, NEW w \in Procs, GoOn(w), batch[w] # {}
  PROVE  /\ pc' \in [Procs -> Stages]
         /\ batch' \in [Procs -> SUBSET (1..delivered)]
         /\ batch'[w] = batch[w] \ {Current(w)}
         /\ pc'[w] \in Resting <=> batch'[w] = {}
         /\ pc'[w] # "readd"
         /\ \A v \in Procs \ {w} : pc'[v] = pc[v] /\ batch'[v] = batch[v]
<1>1. LoopTop \in Resting /\ LoopTop \in Stages /\ LoopTop # "readd"
  BY DEF LoopTop, Resting, Stages
<1>2. "next" \in Stages /\ "next" \notin Resting
  BY DEF Stages, Resting
<1> QED
  BY <1>1, <1>2 DEF GoOn, Take, IInv, TypeOK

LEMMA GoOnStep ==
  ASSUME IInv, TypeOK', HistoryKept, NEW w \in Procs,
         pc[w] \in {"done", "failed", "readd"}, GoOn(w),
         process' = process, mode' = mode, delivered' = delivered,
         Published' \subseteq Published, EarlierTried', DeadWasRetried',
         pending' \subseteq pending,
         \A p \in pending : p[2] # Current(w) => p \in pending',
         \/ \A p \in pending' : p[2] # Current(w)
         \/ touched'[Msg(w)] \cap Events # {},
         \/ Msg(w) \in succeeded' \union dead'
         \/ touched'[Msg(w)] \cap Events # {}
         \/ \E e \in Undelivered' : stream'[e].msg = Msg(w)
  PROVE  IInv'
<1>1. TypeOK /\ WorkerOK(w) /\ batch[w] # {}
  BY DEF IInv, WorkerOK, Resting
<1>2. Current(w) \in batch[w] /\ Msg(w) \in Msgs /\ Msg(w) = stream[Current(w)].msg
  BY <1>1, InHandIsEntry DEF Msg
<1>3. \A v \in Procs \ {w} : WorkerOK(v)' /\ (batch[v] # {} => Msg(v)' = Msg(v))
  BY <1>1, GoOnTypes, OtherWorkerKept
<1>4. WorkerOK(w)'
  BY <1>1, GoOnTypes DEF WorkerOK
<1>5. DownIsQuiet'
  BY DEF IInv, DownIsQuiet
<1>6. PendingIsHeld'
  <2> SUFFICES ASSUME NEW p \in pending', touched'[stream'[p[2]].msg] \cap Events = {}
               PROVE  p[1] = process' /\ \E v \in Procs : p[2] \in batch'[v]
    BY DEF PendingIsHeld, Untouched
  <2>1. p \in pending /\ p[2] \in Entries /\ stream'[p[2]] = stream[p[2]]
    BY <1>1, PublishedAreMsgs DEF HistoryKept
  <2>2. stream[p[2]].msg \in Msgs
    BY <1>1, <2>1, PublishedAreMsgs
  <2>3. Untouched(stream[p[2]].msg, Events)
    BY <2>1, <2>2, UntouchedBefore
  <2>4. PICK v \in Procs : p[1] = process /\ p[2] \in batch[v]
    BY <2>1, <2>3 DEF IInv, PendingIsHeld
  <2>5. p[2] # Current(w)
    BY <1>2, <2>1
  <2> QED
    BY <1>1, <2>4, <2>5, GoOnTypes
<1>7. NoMsgLost'
  <2> SUFFICES ASSUME NEW m \in Published', touched'[m] \cap Events = {}, m # Msg(w)
               PROVE  \/ m \in succeeded' \union dead'
                      \/ \E e \in Undelivered' \union Own' : stream'[e].msg = m
                      \/ \E v \in Procs : pc'[v] = "readd" /\ Msg(v)' = m
    BY DEF NoMsgLost, Untouched
  <2>1. m \in Msgs /\ m \in Published
    BY <1>1, PublishedAreMsgs
  <2>2. Untouched(m, Events)
    BY <2>1, UntouchedBefore
  <2>3. CASE m \in succeeded \union dead
    BY <2>3 DEF HistoryKept
  <2>4. CASE \E e \in Undelivered : stream[e].msg = m
    <3>1. PICK e \in Undelivered : stream[e].msg = m
      BY <2>4
    <3>2. e \in Entries' /\ stream'[e] = stream[e]
      BY <1>1, <3>1, PublishedAreMsgs DEF HistoryKept
    <3>3. e \in Undelivered'
      BY <1>1, <3>1, <3>2 DEF Undelivered, Entries, TypeOK
    <3> QED
      BY <3>1, <3>2, <3>3
  <2>5. CASE \E e \in Own : stream[e].msg = m
    <3>1. PICK p \in pending : p[1] = process /\ stream[p[2]].msg = m
      BY <2>5 DEF Own
    <3>2. p \in pending'
      BY <1>2, <3>1
    <3>3. stream'[p[2]] = stream[p[2]]
      BY <1>1, <3>1, PublishedAreMsgs DEF HistoryKept
    <3>4. p[2] \in Own'
      BY <3>1, <3>2 DEF Own
    <3> QED
      BY <3>1, <3>3, <3>4
  <2>6. CASE \E v \in Procs : pc[v] = "readd" /\ Msg(v) = m
    <3>1. PICK v \in Procs \ {w} : pc[v] = "readd" /\ Msg(v) = m
      BY <2>6
    <3>2. batch[v] # {}
      BY <3>1 DEF IInv, WorkerOK, Resting
    <3> QED
      BY <1>1, <1>3, <3>1, <3>2, GoOnTypes
  <2> QED
    BY <2>1, <2>2, <2>3, <2>4, <2>5, <2>6 DEF IInv, NoMsgLost
<1> QED
  BY <1>3, <1>4, <1>5, <1>6, <1>7 DEF IInv

(* A stream with one entry more.                                           *)
LEMMA AppendKeeps ==
  ASSUME TypeOK, NEW entry \in Entry, stream' = Append(stream, entry)
  PROVE  /\ stream' \in Seq(Entry)
         /\ Len(stream') = Len(stream) + 1
         /\ Entries' = Entries \union {Len(stream')}
         /\ stream'[Len(stream')] = entry
         /\ \A e \in Entries : e \in Entries' /\ stream'[e] = stream[e]
         /\ {stream[e] : e \in Entries} \subseteq {stream'[e] : e \in Entries'}
<1>1. /\ stream' \in Seq(Entry)
      /\ Len(stream') = Len(stream) + 1
      /\ Entries' = Entries \union {Len(stream')}
      /\ stream'[Len(stream')] = entry
      /\ \A e \in Entries : stream'[e] = stream[e]
  BY DEF TypeOK, Entries
<1> QED
  BY <1>1

(* Every count was tried before the new entry's.                           *)
LEMMA EarlierTriedKept ==
  ASSUME IInv, NEW entry \in Entry, stream' = Append(stream, entry), dead' = dead,
         \A r \in 0..entry.retries :
           \/ r = entry.retries
           \/ [msg |-> entry.msg, retries |-> r] \in {stream[f] : f \in Entries}
  PROVE  EarlierTried' /\ DeadWasRetried'
<1>1. TypeOK
  BY DEF IInv
<1>2. {stream[e] : e \in Entries} \subseteq {stream'[e] : e \in Entries'}
  BY <1>1, AppendKeeps
<1>3. entry = [msg |-> entry.msg, retries |-> entry.retries]
  BY DEF Entry
<1>4. entry \in {stream'[e] : e \in Entries'}
  BY <1>1, AppendKeeps
<1>5. ASSUME NEW e \in Entries', NEW r \in 0..stream'[e].retries
      PROVE  [msg |-> stream'[e].msg, retries |-> r] \in {stream'[f] : f \in Entries'}
  <2>1. CASE e \in Entries
    <3>1. stream'[e] = stream[e]
      BY <1>1, <2>1, AppendKeeps
    <3>2. [msg |-> stream[e].msg, retries |-> r] \in {stream[f] : f \in Entries}
      BY <1>5, <2>1, <3>1 DEF IInv, EarlierTried
    <3> QED
      BY <1>2, <3>1, <3>2
  <2>2. CASE stream'[e] = entry
    BY <1>2, <1>3, <1>4, <1>5, <2>2
  <2> QED
    BY <1>1, <2>1, <2>2, AppendKeeps
<1>6. EarlierTried'
  BY <1>5 DEF EarlierTried
<1>7. DeadWasRetried'
  BY <1>2 DEF IInv, DeadWasRetried
<1> QED
  BY <1>6, <1>7

-----------------------------------------------------------------------------
(* Each action preserves IInv.                                             *)
LEMMA AddMsgStep ==
  ASSUME IInv, NEW m \in Msgs, AddMsg(m)
  PROVE  IInv'
<1> DEFINE entry == [msg |-> m, retries |-> 0]
<1>1. TypeOK /\ entry \in Entry
  BY RetriesAssumption DEF IInv, Entry
<1>2. stream' = Append(stream, entry)
  BY DEF AddMsg
<1>3. /\ HistoryKept
      /\ UNCHANGED <<delivered, pending, process, mode, pc, batch, touched, succeeded, dead>>
  BY <1>1, <1>2, AppendKeeps DEF AddMsg, HistoryKept, processVars, historyVars
<1>4. TypeOK'
  <2>1. stream' \in Seq(Entry) /\ Len(stream') = Len(stream) + 1
    BY <1>1, <1>2, AppendKeeps
  <2>2. delivered \in 0..Len(stream')
    BY <1>1, <2>1 DEF TypeOK
  <2> QED
    BY <1>1, <1>3, <2>1, <2>2 DEF AddMsg, tableVars, historyVars, TypeOK
<1>5. \A v \in Procs : WorkerOK(v)' /\ (batch[v] # {} => Msg(v)' = Msg(v))
  BY <1>3, OtherWorkerKept
<1>6. DownIsQuiet'
  BY <1>3 DEF IInv, DownIsQuiet
<1>7. EarlierTried' /\ DeadWasRetried'
  <2>1. entry.msg = m /\ entry.retries = 0
    OBVIOUS
  <2> QED
    BY <1>1, <1>2, <1>3, <2>1, EarlierTriedKept
<1>8. PendingIsHeld'
  <2>1. \A p \in pending : stream'[p[2]] = stream[p[2]]
    BY <1>1, <1>3, PublishedAreMsgs DEF HistoryKept
  <2> QED
    BY <1>3, <2>1 DEF IInv, PendingIsHeld, Untouched
<1>9. NoMsgLost'
  <2>1. Own' = Own /\ Undelivered' = Undelivered \union {Len(stream')}
    BY <1>1, <1>2, <1>3, AppendKeeps DEF Own, Undelivered, TypeOK, Entries
  <2>2. stream'[Len(stream')].msg = m
    BY <1>1, <1>2, AppendKeeps
  <2>3. Published' \subseteq Published \union {m}
    <3>1. \A e \in Entries' : (e \in Entries /\ stream'[e] = stream[e]) \/ stream'[e].msg = m
      BY <1>1, <1>2, <2>2, AppendKeeps
    <3> QED
      BY <3>1 DEF Published
  <2>4. \A e \in Undelivered \union Own : stream'[e] = stream[e]
    BY <1>1, <1>3, PublishedAreMsgs DEF HistoryKept
  <2>5. \A v \in Procs : pc[v] = "readd" => Msg(v)' = Msg(v)
    BY <1>5 DEF IInv, WorkerOK, Resting
  <2> QED
    BY <1>3, <2>1, <2>2, <2>3, <2>4, <2>5 DEF IInv, NoMsgLost, Untouched
<1> QED
  BY <1>4, <1>5, <1>6, <1>7, <1>8, <1>9 DEF IInv

(* The steps that only move goroutines or the mode.                        *)
LEMMA NothingNewStep ==
  ASSUME IInv, NEW w \in Procs, NothingNew(w)
  PROVE  IInv'
<1>1. /\ pc' = [pc EXCEPT ![w] = "rereading"] /\ pc[w] = "reading" /\ mode # "down"
      /\ UNCHANGED <<stream, delivered, pending, process, mode, batch, docs, rows,
                     succeeded, dead, touched, budget>>
  BY DEF NothingNew, streamVars, processVars, tableVars, historyVars
<1>2. TypeOK' /\ HistoryKept
  BY <1>1 DEF IInv, TypeOK, Stages, Entries, HistoryKept
<1>3. \A v \in Procs : WorkerOK(v)'
  BY <1>1, <1>2, OtherWorkerKept DEF IInv, TypeOK, WorkerOK, Resting
<1>4. DownIsQuiet'
  BY <1>1 DEF DownIsQuiet
<1> QED
  BY <1>1, <1>2, <1>3, <1>4, QuietStep DEF IInv, TypeOK

LEMMA BeginStep ==
  ASSUME IInv, NEW w \in Procs, Begin(w)
  PROVE  IInv'
<1>1. PICK stage \in {"exec", "cancelled"} :
        /\ pc' = [pc EXCEPT ![w] = stage] /\ pc[w] = "next" /\ mode # "down"
        /\ UNCHANGED <<stream, delivered, pending, process, mode, batch, docs, rows,
                       succeeded, dead, touched, budget>>
  BY DEF Begin, streamVars, processVars, tableVars, historyVars
<1>2. TypeOK' /\ HistoryKept
  BY <1>1 DEF IInv, TypeOK, Stages, Entries, HistoryKept
<1>3. \A v \in Procs : WorkerOK(v)'
  BY <1>1, <1>2, OtherWorkerKept DEF IInv, TypeOK, WorkerOK, Resting
<1>4. DownIsQuiet'
  BY <1>1 DEF DownIsQuiet
<1> QED
  BY <1>1, <1>2, <1>3, <1>4, QuietStep DEF IInv, TypeOK

LEMMA ExecStep ==
  ASSUME IInv, NEW w \in Procs, NEW outcome, Exec(w, outcome)
  PROVE  IInv'
<1>1. PICK stage \in {"done", "failed"} :
        /\ pc' = [pc EXCEPT ![w] = stage] /\ pc[w] \in {"exec", "cancelled"}
        /\ mode # "down"
        /\ UNCHANGED <<stream, delivered, pending, process, mode, batch,
                       succeeded, dead, touched, budget>>
  BY DEF Exec, streamVars, processVars, historyVars
<1>2. TypeOK /\ Msg(w) \in Msgs
  BY <1>1, InHandIsEntry DEF IInv, WorkerOK, Resting
<1>3. docs' \subseteq {Document(m) : m \in Msgs} /\ rows' \subseteq {HashOf[m] : m \in Msgs}
  BY <1>2 DEF Exec, Inserted, tableVars, TypeOK
<1>4. TypeOK' /\ HistoryKept
  BY <1>1, <1>2, <1>3 DEF TypeOK, Stages, Entries, HistoryKept
<1>5. \A v \in Procs : WorkerOK(v)'
  BY <1>1, <1>4, OtherWorkerKept DEF IInv, TypeOK, WorkerOK, Resting
<1>6. DownIsQuiet'
  BY <1>1 DEF DownIsQuiet
<1> QED
  BY <1>1, <1>2, <1>4, <1>5, <1>6, QuietStep DEF TypeOK

LEMMA StopStep ==
  ASSUME IInv, Stop \/ Shutdown
  PROVE  IInv'
<1>1. UNCHANGED <<stream, delivered, pending, process, pc, batch, docs, rows,
                  succeeded, dead, touched>>
  BY DEF Stop, Shutdown, streamVars, tableVars, historyVars
<1>2. mode' \in {"up", "stopping", "down"} /\ budget' \in EventCount
  <2>1. CASE Stop
    <3> DEFINE left == budget.stop - 1
    <3>1. left \in Nat /\ budget' = [budget EXCEPT !.stop = left]
      BY <2>1 DEF Stop, IInv, TypeOK, EventCount
    <3> HIDE DEF left
    <3> QED
      BY <2>1, <3>1 DEF Stop, IInv, TypeOK, EventCount
  <2>2. CASE Shutdown
    BY <2>2 DEF Shutdown, historyVars, IInv, TypeOK
  <2> QED
    BY <2>1, <2>2
<1>3. TypeOK' /\ HistoryKept
  BY <1>1, <1>2 DEF IInv, TypeOK, Entries, HistoryKept
<1>4. \A v \in Procs : WorkerOK(v)'
  BY <1>1, <1>3, OtherWorkerKept
<1>5. DownIsQuiet'
  BY <1>1 DEF Stop, Shutdown, DownIsQuiet
<1> QED
  BY <1>1, <1>3, <1>4, <1>5, QuietStep

(* XREADGROUP ">" gives entries to the running process.                    *)
LEMMA ReadNewStep ==
  ASSUME IInv, NEW w \in Procs, NEW lost \in BOOLEAN, ReadNew(w, lost)
  PROVE  IInv'
<1> DEFINE read == FirstFew(Undelivered)
           taken == IF lost THEN {} ELSE read
<1>1. /\ TypeOK /\ WorkerOK(w) /\ pc[w] = "reading" /\ batch[w] = {} /\ mode # "down"
      /\ delivered' = delivered + Cardinality(read)
      /\ pending' = pending \union ({process} \X read)
      /\ Take(w, taken)
      /\ UNCHANGED <<stream, process, mode, docs, rows, succeeded, dead>>
  BY DEF ReadNew, Noted, NoFault, processVars, tableVars, IInv, WorkerOK, Resting
<1>2. /\ read \subseteq Undelivered
      /\ delivered' \in delivered..Len(stream)
      /\ read = (delivered + 1)..delivered'
  BY <1>1, FirstFewUndelivered
<1>3. taken \subseteq read
  OBVIOUS
<1>4. /\ budget' \in EventCount
      /\ touched' \in [Msgs -> SUBSET Events]
      /\ \A m \in Msgs : touched[m] \subseteq touched'[m]
      /\ lost => \A e \in read : touched'[stream[e].msg] \cap Events # {}
  <2>1. CASE lost
    <3>1. Fault("read", {stream[e].msg : e \in read})
      BY <2>1 DEF ReadNew
    <3>2. \A e \in read : stream[e].msg \in Msgs
      BY <1>1, <1>2, PublishedAreMsgs
    <3> QED
      BY <1>1, <3>1, <3>2, FaultKept DEF Events
  <2>2. CASE ~lost
    BY <1>1, <2>2 DEF ReadNew, NoFault, TypeOK
  <2> QED
    BY <2>1, <2>2
<1> HIDE DEF read, taken
<1>5. /\ pc' = [pc EXCEPT ![w] = IF taken = {} THEN LoopTop ELSE "next"]
      /\ batch' = [batch EXCEPT ![w] = taken]
  BY <1>1 DEF Take
<1>6. LoopTop \in Resting /\ LoopTop \in Stages /\ LoopTop # "readd"
  BY DEF LoopTop, Resting, Stages
<1>7. HistoryKept
  BY <1>1, <1>4 DEF HistoryKept, Entries
<1>8. TypeOK'
  <2>1. delivered \in Nat /\ delivered' \in Nat /\ delivered <= delivered' /\ process \in Nat
    BY <1>1, <1>2 DEF TypeOK
  <2>2. delivered' \in 0..Len(stream)
    BY <1>1, <1>2, <2>1 DEF TypeOK
  <2>3. 1..delivered \subseteq 1..delivered' /\ read \subseteq 1..delivered'
    BY <1>2, <2>1
  <2>4. pending' \subseteq Nat \X (1..delivered')
    BY <1>1, <2>1, <2>3 DEF TypeOK
  <2>5. batch' \in [Procs -> SUBSET (1..delivered')]
    BY <1>1, <1>3, <1>5, <2>3 DEF TypeOK
  <2>6. pc' \in [Procs -> Stages]
    BY <1>1, <1>5, <1>6 DEF TypeOK, Stages
  <2> QED
    BY <1>1, <1>4, <2>2, <2>4, <2>5, <2>6 DEF TypeOK
<1>9. \A v \in Procs \ {w} : WorkerOK(v)' /\ (batch[v] # {} => Msg(v)' = Msg(v))
  <2> SUFFICES ASSUME NEW v \in Procs \ {w}
               PROVE  WorkerOK(v)' /\ (batch[v] # {} => Msg(v)' = Msg(v))
    OBVIOUS
  <2>1. pc'[v] = pc[v] /\ batch'[v] = batch[v]
    BY <1>1, <1>5 DEF TypeOK
  <2>2. \A e \in read : e \notin batch[v]
    BY <1>1, <1>2 DEF TypeOK
  <2>3. \A p \in pending' : p \in pending \/ p[2] \notin batch[v]
    BY <1>1, <2>2
  <2> QED
    BY <1>7, <2>1, <2>3, OtherWorkerKept
<1>10. WorkerOK(w)'
  BY <1>1, <1>5, <1>6 DEF WorkerOK, TypeOK, Resting
<1>11. DownIsQuiet'
  BY <1>1 DEF DownIsQuiet
<1>12. EarlierTried' /\ DeadWasRetried'
  BY <1>1 DEF IInv, EarlierTried, DeadWasRetried, Entries
<1>13. PendingIsHeld'
  <2> SUFFICES ASSUME NEW p \in pending', touched'[stream[p[2]].msg] \cap Events = {}
               PROVE  p[1] = process /\ \E v \in Procs : p[2] \in batch'[v]
    BY <1>1 DEF PendingIsHeld, Untouched
  <2>1. CASE p \in pending
    <3>1. stream[p[2]].msg \in Msgs
      BY <1>1, <2>1, PublishedAreMsgs
    <3>2. PICK v \in Procs : p[1] = process /\ p[2] \in batch[v]
      BY <1>7, <2>1, <3>1, UntouchedBefore DEF IInv, PendingIsHeld
    <3> QED
      BY <1>1, <1>5, <3>2 DEF TypeOK
  <2>2. CASE p[1] = process /\ p[2] \in read
    <3>1. ~lost
      BY <1>4, <2>2
    <3>2. taken = read
      BY <3>1 DEF taken
    <3> QED
      BY <1>1, <1>5, <2>2, <3>2 DEF TypeOK
  <2> QED
    BY <1>1, <2>1, <2>2
<1>14. NoMsgLost'
  <2>1. Published' = Published /\ Published \subseteq Msgs
    BY <1>1, PublishedAreMsgs DEF Published, Entries
  <2>2. Undelivered \union Own \subseteq Undelivered' \union Own'
    <3>1. Own \subseteq Own'
      BY <1>1 DEF Own
    <3>2. read \subseteq Own'
      <4> SUFFICES ASSUME NEW e \in read
                   PROVE  e \in Own'
        OBVIOUS
      <4> DEFINE p == <<process, e>>
      <4>1. p \in pending' /\ p[1] = process' /\ p[2] = e
        BY <1>1
      <4> HIDE DEF p
      <4> QED
        BY <4>1 DEF Own
    <3>3. Undelivered \subseteq Undelivered' \union read
      <4>1. delivered \in Nat /\ delivered' \in Nat /\ Len(stream) \in Nat
        BY <1>1, <1>2 DEF TypeOK
      <4>2. \A a, b, c \in Nat : (a + 1)..c \subseteq ((b + 1)..c) \union ((a + 1)..b)
        OBVIOUS
      <4>3. Undelivered' = (delivered' + 1)..Len(stream)
        BY <1>1 DEF Undelivered
      <4> QED
        BY <1>2, <4>1, <4>2, <4>3 DEF Undelivered
    <3> QED
      BY <3>1, <3>2, <3>3
  <2>3. \A v \in Procs : pc[v] = "readd" => pc'[v] = "readd" /\ Msg(v)' = Msg(v)
    BY <1>1, <1>5, <1>9 DEF IInv, WorkerOK, Resting, TypeOK
  <2>4. \A m \in Published' : touched'[m] \cap Events = {} => touched[m] \cap Events = {}
    BY <1>7, <2>1, UntouchedBefore DEF Untouched
  <2> QED
    BY <1>1, <2>1, <2>2, <2>3, <2>4 DEF IInv, NoMsgLost, Untouched
<1> QED
  BY <1>8, <1>9, <1>10, <1>11, <1>12, <1>13, <1>14 DEF IInv

(* XREADGROUP "0" hands the process its entries once more.                 *)
LEMMA ReadOwnStep ==
  ASSUME IInv, NEW w \in Procs, NEW lost \in BOOLEAN, ReadOwn(w, lost)
  PROVE  IInv'
<1> DEFINE taken == IF lost THEN {} ELSE FirstFew(Own)
<1>1. /\ TypeOK /\ WorkerOK(w) /\ batch[w] = {} /\ mode # "down" /\ pc[w] = "rereading"
      /\ Take(w, taken)
      /\ UNCHANGED <<stream, delivered, pending, process, mode, docs, rows, succeeded, dead>>
  BY DEF ReadOwn, NoFault, streamVars, processVars, tableVars, IInv, WorkerOK, Resting
<1>2. taken \subseteq 1..delivered
  BY <1>1, PublishedAreMsgs DEF FirstFew
<1>3. /\ budget' \in EventCount
      /\ touched' \in [Msgs -> SUBSET Events]
      /\ \A m \in Msgs : touched[m] \subseteq touched'[m]
  BY <1>1, FaultKept DEF ReadOwn, NoFault, TypeOK, Events
<1> HIDE DEF taken
<1>4. /\ pc' = [pc EXCEPT ![w] = IF taken = {} THEN LoopTop ELSE "next"]
      /\ batch' = [batch EXCEPT ![w] = taken]
  BY <1>1 DEF Take
<1>5. LoopTop \in Resting /\ LoopTop \in Stages /\ LoopTop # "readd"
  BY DEF LoopTop, Resting, Stages
<1>6. HistoryKept
  BY <1>1, <1>3 DEF HistoryKept, Entries
<1>7. TypeOK'
  <2>1. pc' \in [Procs -> Stages] /\ batch' \in [Procs -> SUBSET (1..delivered)]
    BY <1>1, <1>2, <1>4, <1>5 DEF TypeOK, Stages
  <2> QED
    BY <1>1, <1>3, <2>1 DEF TypeOK
<1>8. \A v \in Procs \ {w} : WorkerOK(v)' /\ (batch[v] # {} => Msg(v)' = Msg(v))
  BY <1>1, <1>4, <1>6, OtherWorkerKept DEF TypeOK
<1>9. WorkerOK(w)'
  BY <1>1, <1>4, <1>5 DEF WorkerOK, TypeOK, Resting
<1>10. DownIsQuiet'
  BY <1>1 DEF DownIsQuiet
<1>11. EarlierTried' /\ DeadWasRetried'
  BY <1>1 DEF IInv, EarlierTried, DeadWasRetried, Entries
<1>12. \A v \in Procs : batch[v] \subseteq batch'[v]
  BY <1>1, <1>4 DEF TypeOK
<1>13. \A m \in Msgs : touched'[m] \cap Events = {} => touched[m] \cap Events = {}
  BY <1>6, UntouchedBefore DEF Untouched
<1>14. PendingIsHeld'
  <2>1. \A p \in pending : stream[p[2]].msg \in Msgs
    BY <1>1, PublishedAreMsgs
  <2> QED
    BY <1>1, <1>12, <1>13, <2>1 DEF IInv, PendingIsHeld, Untouched
<1>15. NoMsgLost'
  <2>1. /\ Published' = Published /\ Published \subseteq Msgs
        /\ Undelivered' = Undelivered /\ Own' = Own
    BY <1>1, PublishedAreMsgs DEF Published, Entries, Undelivered, Own
  <2>2. \A v \in Procs : pc[v] = "readd" => pc'[v] = "readd" /\ Msg(v)' = Msg(v)
    BY <1>1, <1>4, <1>8 DEF IInv, WorkerOK, Resting, TypeOK
  <2> QED
    BY <1>1, <1>13, <2>1, <2>2 DEF IInv, NoMsgLost, Untouched
<1> QED
  BY <1>7, <1>8, <1>9, <1>10, <1>11, <1>14, <1>15 DEF IInv

(* CompleteMessage.                                                        *)
LEMMA AckSuccessStep ==
  ASSUME IInv, NEW w \in Procs, AckSuccess(w)
  PROVE  IInv'
<1>1. /\ TypeOK /\ batch[w] # {} /\ pc[w] = "done" /\ GoOn(w)
      /\ pending' = {p \in pending : p[2] # Current(w)}
      /\ succeeded' = succeeded \union {Msg(w)}
      /\ UNCHANGED <<stream, delivered, process, mode, docs, rows, dead, touched, budget>>
  BY DEF AckSuccess, Acked, processVars, tableVars, IInv, WorkerOK, Resting
<1>2. HistoryKept
  BY <1>1 DEF HistoryKept, Entries
<1>3. Msg(w) \in Msgs
  BY <1>1, InHandIsEntry
<1>4. TypeOK'
  BY <1>1, <1>3, GoOnTypes DEF TypeOK
<1>5. EarlierTried' /\ DeadWasRetried' /\ Published' = Published
  BY <1>1 DEF IInv, EarlierTried, DeadWasRetried, Entries, Published
<1> QED
  BY <1>1, <1>2, <1>4, <1>5, GoOnStep

LEMMA AckFailsStep ==
  ASSUME IInv, NEW w \in Procs, NEW done \in BOOLEAN, AckFails(w, done)
  PROVE  IInv'
<1>1. /\ TypeOK /\ batch[w] # {} /\ pc[w] \in {"done", "failed"} /\ GoOn(w)
      /\ pending' \in {pending, {p \in pending : p[2] # Current(w)}}
      /\ Fault("ack", {Msg(w)})
      /\ UNCHANGED <<stream, delivered, process, mode, docs, rows, succeeded, dead>>
  BY DEF AckFails, Acked, processVars, tableVars, IInv, WorkerOK, Resting
<1>2. Msg(w) \in Msgs
  BY <1>1, InHandIsEntry
<1>3. /\ budget' \in EventCount
      /\ touched' \in [Msgs -> SUBSET Events]
      /\ \A m \in Msgs : touched[m] \subseteq touched'[m]
      /\ touched'[Msg(w)] \cap Events # {}
  BY <1>1, <1>2, FaultKept DEF Events
<1>4. HistoryKept
  BY <1>1, <1>3 DEF HistoryKept, Entries
<1>5. TypeOK'
  BY <1>1, <1>3, GoOnTypes DEF TypeOK
<1>6. EarlierTried' /\ DeadWasRetried' /\ Published' = Published
  BY <1>1 DEF IInv, EarlierTried, DeadWasRetried, Entries, Published
<1> QED
  BY <1>1, <1>3, <1>4, <1>5, <1>6, GoOnStep

LEMMA AckFailureStep ==
  ASSUME IInv, NEW w \in Procs, AckFailure(w)
  PROVE  IInv'
<1>1. /\ TypeOK /\ batch[w] # {} /\ pc[w] = "failed"
      /\ pending' = {p \in pending : p[2] # Current(w)}
      /\ UNCHANGED <<stream, delivered, process, mode, docs, rows, succeeded, touched, budget>>
  BY DEF AckFailure, Acked, processVars, tableVars, IInv, WorkerOK, Resting
<1>2. /\ Current(w) \in batch[w] /\ Current(w) \in Entries
      /\ Msg(w) \in Msgs /\ Retries(w) \in 0..MAX_RETRIES
      /\ Msg(w) = stream[Current(w)].msg /\ Retries(w) = stream[Current(w)].retries
  BY <1>1, InHandIsEntry DEF Msg, Retries
<1>3. CASE GivesUp(Retries(w)) /\ dead' = dead \union {Msg(w)} /\ GoOn(w)
  <2>1. HistoryKept
    BY <1>1, <1>3 DEF HistoryKept, Entries
  <2>2. TypeOK'
    BY <1>1, <1>2, <1>3, GoOnTypes DEF TypeOK
  <2>3. EarlierTried' /\ Published' = Published
    BY <1>1 DEF IInv, EarlierTried, Entries, Published
  <2>4. Retries(w) = MAX_RETRIES
    BY <1>2, <1>3, RetriesAssumption DEF GivesUp
  <2>5. \A r \in 0..MAX_RETRIES :
          [msg |-> Msg(w), retries |-> r] \in {stream[e] : e \in Entries}
    BY <1>2, <2>4 DEF IInv, EarlierTried
  <2>6. DeadWasRetried'
    BY <1>1, <1>3, <2>5 DEF IInv, DeadWasRetried, Entries
  <2> QED
    BY <1>1, <1>3, <2>1, <2>2, <2>3, <2>6, GoOnStep
<1>4. CASE ~GivesUp(Retries(w)) /\ pc' = [pc EXCEPT ![w] = "readd"]
           /\ batch' = batch /\ dead' = dead
  <2>1. HistoryKept
    BY <1>1, <1>4 DEF HistoryKept, Entries
  <2>2. TypeOK'
    BY <1>1, <1>4 DEF TypeOK, Stages
  <2>3. \A v \in Procs \ {w} : WorkerOK(v)' /\ (batch[v] # {} => Msg(v)' = Msg(v))
    BY <1>1, <1>4, <2>1, OtherWorkerKept DEF TypeOK
  <2>4. /\ Current(w)' = Current(w) /\ Msg(w)' = Msg(w) /\ Retries(w)' = Retries(w)
    BY <1>1, <1>4 DEF Current, Msg, Retries
  <2>5. Retries(w) < MAX_RETRIES
    BY <1>2, <1>4, RetriesAssumption DEF GivesUp
  <2>6. WorkerOK(w)' /\ pc'[w] = "readd"
    BY <1>1, <1>4, <2>4, <2>5 DEF WorkerOK, Resting, TypeOK
  <2>7. DownIsQuiet'
    BY <1>1 DEF IInv, DownIsQuiet
  <2>8. EarlierTried' /\ DeadWasRetried'
    BY <1>1, <1>4 DEF IInv, EarlierTried, DeadWasRetried, Entries
  <2>9. PendingIsHeld'
    BY <1>1, <1>4 DEF IInv, PendingIsHeld, Untouched
  <2>10. NoMsgLost'
    <3> SUFFICES ASSUME NEW m \in Published, m # Msg(w), Untouched(m, Events),
                        m \notin succeeded \union dead
                 PROVE  \/ \E e \in Undelivered' \union Own' : stream[e].msg = m
                        \/ \E v \in Procs : pc'[v] = "readd" /\ Msg(v)' = m
      BY <1>1, <1>4, <2>4, <2>6 DEF NoMsgLost, Untouched, Published, Entries
    <3>1. CASE \E e \in Undelivered : stream[e].msg = m
      BY <1>1, <3>1 DEF Undelivered
    <3>2. CASE \E e \in Own : stream[e].msg = m
      <4>1. PICK p \in pending : p[1] = process /\ stream[p[2]].msg = m
        BY <3>2 DEF Own
      <4>2. p \in pending'
        BY <1>1, <1>2, <4>1
      <4>3. p[2] \in Own'
        BY <1>1, <4>1, <4>2 DEF Own
      <4> QED
        BY <4>1, <4>3
    <3>3. CASE \E v \in Procs : pc[v] = "readd" /\ Msg(v) = m
      BY <1>1, <1>4, <2>3, <3>3 DEF IInv, WorkerOK, Resting, TypeOK
    <3> QED
      BY <3>1, <3>2, <3>3 DEF IInv, NoMsgLost
  <2> QED
    BY <2>2, <2>3, <2>6, <2>7, <2>8, <2>9, <2>10 DEF IInv
<1> QED
  BY <1>3, <1>4 DEF AckFailure

LEMMA ReaddStep ==
  ASSUME IInv, NEW w \in Procs, NEW added \in BOOLEAN, Readd(w, added)
  PROVE  IInv'
<1> DEFINE entry == [msg |-> Msg(w), retries |-> Retries(w) + 1]
<1>1. /\ TypeOK /\ WorkerOK(w) /\ batch[w] # {} /\ pc[w] = "readd" /\ GoOn(w)
      /\ UNCHANGED <<delivered, pending, process, mode, docs, rows, succeeded, dead>>
  BY DEF Readd, processVars, tableVars, IInv, WorkerOK, Resting
<1>2. /\ Msg(w) \in Msgs /\ Msg(w) \in Published /\ Retries(w) \in 0..MAX_RETRIES
      /\ Current(w) \in Entries
      /\ Msg(w) = stream[Current(w)].msg /\ Retries(w) = stream[Current(w)].retries
  BY <1>1, InHandIsEntry DEF Msg, Retries
<1>3. entry \in Entry /\ entry.msg = Msg(w) /\ entry.retries = Retries(w) + 1
  BY <1>1, <1>2, RetriesAssumption DEF WorkerOK, Entry
<1>4. /\ budget' \in EventCount
      /\ touched' \in [Msgs -> SUBSET Events]
      /\ \A m \in Msgs : touched[m] \subseteq touched'[m]
      /\ ~added => touched'[Msg(w)] \cap Events # {}
  <2>1. CASE added
    BY <1>1, <2>1 DEF Readd, NoFault, TypeOK
  <2>2. CASE ~added
    <3>1. Fault("add", {Msg(w)})
      BY <2>2 DEF Readd
    <3> QED
      BY <1>1, <1>2, <3>1, FaultKept DEF Events
  <2> QED
    BY <2>1, <2>2
<1>5. /\ stream' = stream \/ stream' = Append(stream, entry)
      /\ added => stream' = Append(stream, entry)
  BY DEF Readd, Readded
<1> HIDE DEF entry
<1>6. /\ \A e \in Entries : e \in Entries' /\ stream'[e] = stream[e]
      /\ stream' \in Seq(Entry) /\ delivered \in 0..Len(stream')
      /\ EarlierTried' /\ DeadWasRetried'
      /\ Published' \subseteq Published
  <2>1. CASE stream' = stream
    BY <1>1, <2>1 DEF IInv, EarlierTried, DeadWasRetried, Entries, Published, TypeOK
  <2>2. CASE stream' = Append(stream, entry)
    <3>1. /\ stream' \in Seq(Entry) /\ Len(stream') = Len(stream) + 1
          /\ \A e \in Entries : e \in Entries' /\ stream'[e] = stream[e]
          /\ \A e \in Entries' : e \in Entries \/ stream'[e] = entry
      BY <1>1, <1>3, <2>2, AppendKeeps
    <3>2. delivered \in 0..Len(stream')
      BY <1>1, <3>1 DEF TypeOK
    <3>3. \A r \in 0..entry.retries :
            \/ r = entry.retries
            \/ [msg |-> entry.msg, retries |-> r] \in {stream[f] : f \in Entries}
      <4> TAKE r \in 0..entry.retries
      <4>1. r = entry.retries \/ r \in 0..stream[Current(w)].retries
        BY <1>2, <1>3
      <4> QED
        BY <1>2, <1>3, <4>1 DEF IInv, EarlierTried
    <3>4. EarlierTried' /\ DeadWasRetried'
      BY <1>1, <1>3, <2>2, <3>3, EarlierTriedKept
    <3>5. Published' \subseteq Published
      BY <1>2, <1>3, <3>1 DEF Published
    <3> QED
      BY <3>1, <3>2, <3>4, <3>5
  <2> QED
    BY <1>5, <2>1, <2>2
<1>7. HistoryKept
  BY <1>1, <1>4, <1>6 DEF HistoryKept
<1>8. TypeOK'
  BY <1>1, <1>4, <1>6, GoOnTypes DEF TypeOK
<1>9. \A p \in pending : p[2] # Current(w)
  BY <1>1 DEF WorkerOK
<1>10. added => \E e \in Undelivered' : stream'[e].msg = Msg(w)
  <2> SUFFICES ASSUME added
               PROVE  \E e \in Undelivered' : stream'[e].msg = Msg(w)
    OBVIOUS
  <2>1. Len(stream') = Len(stream) + 1 /\ stream'[Len(stream')] = entry
    BY <1>1, <1>3, <1>5, AppendKeeps
  <2>2. Len(stream') \in Undelivered'
    BY <1>1, <2>1 DEF Undelivered, TypeOK
  <2> QED
    BY <1>3, <2>1, <2>2
<1> QED
  BY <1>1, <1>4, <1>6, <1>7, <1>8, <1>9, <1>10, GoOnStep

(* A crash hits every message a goroutine has in hand.                     *)
LEMMA CrashStep ==
  ASSUME IInv, Crash
  PROVE  IInv'
<1> DEFINE hit == {stream[e].msg : e \in UNION {batch[w] : w \in Procs}}
<1>1. /\ TypeOK /\ Fault("crash", hit)
      /\ mode' = "down"
      /\ pc' = [w \in Procs |-> "exited"] /\ batch' = [w \in Procs |-> {}]
      /\ UNCHANGED <<stream, delivered, pending, process, docs, rows, succeeded, dead>>
  BY DEF Crash, streamVars, tableVars, IInv
<1>2. /\ budget' \in EventCount
      /\ touched' \in [Msgs -> SUBSET Events]
      /\ \A m \in Msgs : touched[m] \subseteq touched'[m]
      /\ \A m \in Msgs : m \in hit => touched'[m] \cap Events # {}
  BY <1>1, FaultKept DEF Events
<1>3. \A v \in Procs : \A e \in batch[v] : stream[e].msg \in hit /\ stream[e].msg \in Msgs
  <2>1. \A v \in Procs : \A e \in batch[v] : e \in Entries
    BY <1>1 DEF TypeOK, Entries
  <2> QED
    BY <1>1, <2>1, PublishedAreMsgs
<1> HIDE DEF hit
<1>4. HistoryKept
  BY <1>1, <1>2 DEF HistoryKept, Entries
<1>5. TypeOK'
  BY <1>1, <1>2 DEF TypeOK, Stages
<1>6. (\A v \in Procs : WorkerOK(v)') /\ DownIsQuiet'
  BY <1>1 DEF WorkerOK, DownIsQuiet, Resting
<1>7. EarlierTried' /\ DeadWasRetried'
  BY <1>1 DEF IInv, EarlierTried, DeadWasRetried, Entries
<1>8. \A m \in Msgs : touched'[m] \cap Events = {} => Untouched(m, Events)
  BY <1>4, UntouchedBefore
<1>9. PendingIsHeld'
  <2> SUFFICES ASSUME NEW p \in pending, touched'[stream[p[2]].msg] \cap Events = {}
               PROVE  FALSE
    BY <1>1 DEF PendingIsHeld, Untouched
  <2>1. stream[p[2]].msg \in Msgs
    BY <1>1, PublishedAreMsgs
  <2>2. PICK v \in Procs : p[2] \in batch[v]
    BY <1>8, <2>1 DEF IInv, PendingIsHeld
  <2> QED
    BY <1>2, <1>3, <2>2
<1>10. NoMsgLost'
  <2> SUFFICES ASSUME NEW m \in Published, touched'[m] \cap Events = {},
                      m \notin succeeded \union dead
               PROVE  \E e \in Undelivered \union Own : stream[e].msg = m
    BY <1>1 DEF NoMsgLost, Untouched, Published, Entries, Undelivered, Own
  <2>1. m \in Msgs /\ Untouched(m, Events)
    BY <1>1, <1>8, PublishedAreMsgs
  <2>2. ~ \E v \in Procs : pc[v] = "readd" /\ Msg(v) = m
    <3> SUFFICES ASSUME NEW v \in Procs, pc[v] = "readd", Msg(v) = m
                 PROVE  FALSE
      OBVIOUS
    <3>1. Current(v) \in batch[v]
      BY <1>1, InHandIsEntry DEF IInv, WorkerOK, Resting
    <3> QED
      BY <1>2, <1>3, <2>1, <3>1 DEF Msg
  <2> QED
    BY <2>1, <2>2 DEF IInv, NoMsgLost
<1> QED
  BY <1>5, <1>6, <1>7, <1>9, <1>10 DEF IInv

(* The new process owns nothing, and nothing untouched was left pending.   *)
LEMMA RestartStep ==
  ASSUME IInv, Restart
  PROVE  IInv'
<1>1. /\ TypeOK /\ mode = "down" /\ mode' = "up" /\ process' = process + 1
      /\ pc' = [w \in Procs |-> "reading"]
      /\ UNCHANGED <<stream, delivered, pending, batch, docs, rows,
                     succeeded, dead, touched, budget>>
  BY DEF Restart, streamVars, tableVars, historyVars, IInv
<1>2. \A v \in Procs : pc[v] = "exited" /\ batch[v] = {}
  BY <1>1 DEF IInv, DownIsQuiet, WorkerOK, Resting
<1>3. TypeOK'
  BY <1>1 DEF TypeOK, Stages
<1>4. (\A v \in Procs : WorkerOK(v)') /\ DownIsQuiet'
  BY <1>1, <1>2 DEF WorkerOK, DownIsQuiet, Resting
<1>5. EarlierTried' /\ DeadWasRetried'
  BY <1>1 DEF IInv, EarlierTried, DeadWasRetried, Entries
<1>6. \A p \in pending : ~Untouched(stream[p[2]].msg, Events)
  BY <1>2 DEF IInv, PendingIsHeld
<1>7. PendingIsHeld'
  BY <1>1, <1>6 DEF PendingIsHeld, Untouched
<1>8. NoMsgLost'
  <2> SUFFICES ASSUME NEW m \in Published, Untouched(m, Events),
                      m \notin succeeded \union dead
               PROVE  \E e \in Undelivered : stream[e].msg = m
    BY <1>1 DEF NoMsgLost, Untouched, Published, Entries, Undelivered
  <2>1. ~ \E e \in Own : stream[e].msg = m
    BY <1>6 DEF Own
  <2>2. ~ \E v \in Procs : pc[v] = "readd"
    BY <1>2
  <2> QED
    BY <2>1, <2>2 DEF IInv, NoMsgLost
<1> QED
  BY <1>3, <1>4, <1>5, <1>7, <1>8 DEF IInv

LEMMA StutterStep ==
  ASSUME IInv, UNCHANGED vars
  PROVE  IInv'
<1>1. UNCHANGED <<stream, delivered, pending, process, mode, pc, batch, docs, rows,
                  succeeded, dead, touched, budget>>
  BY DEF vars, streamVars, processVars, tableVars, historyVars
<1>2. TypeOK' /\ HistoryKept
  BY <1>1 DEF IInv, TypeOK, HistoryKept, Entries
<1>3. \A v \in Procs : WorkerOK(v)'
  BY <1>1, <1>2, OtherWorkerKept
<1>4. DownIsQuiet'
  BY <1>1 DEF IInv, DownIsQuiet
<1> QED
  BY <1>1, <1>2, <1>3, <1>4, QuietStep

LEMMA InitIInv ==
  ASSUME Init
  PROVE  IInv
<1>1. stream = <<>> /\ Entries = {} /\ Published = {}
  BY DEF Init, Entries, Published
<1>2. TypeOK
  BY <1>1, BudgetAssumption DEF Init, TypeOK, Stages
<1>3. \A w \in Procs : WorkerOK(w)
  BY DEF Init, WorkerOK, Resting
<1> QED
  BY <1>1, <1>2, <1>3 DEF Init, IInv, DownIsQuiet, EarlierTried, DeadWasRetried,
                         PendingIsHeld, NoMsgLost

LEMMA EveryStep ==
  ASSUME IInv, [Next]_vars
  PROVE  IInv'
<1>1. CASE UNCHANGED vars
  BY <1>1, StutterStep
<1>2. ASSUME NEW m \in Msgs, AddMsg(m) PROVE IInv'
  BY <1>2, AddMsgStep
<1>3. ASSUME NEW w \in Procs, GetMsg(w) PROVE IInv'
  <2>1. CASE \E lost \in BOOLEAN : ReadNew(w, lost)
    BY <2>1, ReadNewStep
  <2>2. CASE \E lost \in BOOLEAN : ReadOwn(w, lost)
    BY <2>2, ReadOwnStep
  <2>3. CASE NothingNew(w)
    BY <2>3, NothingNewStep
  <2> QED
    BY <1>3, <2>1, <2>2, <2>3 DEF GetMsg
<1>4. ASSUME NEW w \in Procs, ProcessMessage(w) PROVE IInv'
  <2>1. CASE Begin(w)
    BY <2>1, BeginStep
  <2>2. CASE \E outcome \in {"ok", "late", "error"} : Exec(w, outcome)
    BY <2>2, ExecStep
  <2>3. CASE AckSuccess(w)
    BY <2>3, AckSuccessStep
  <2>4. CASE AckFailure(w)
    BY <2>4, AckFailureStep
  <2>5. CASE \E done \in BOOLEAN : AckFails(w, done)
    BY <2>5, AckFailsStep
  <2>6. CASE \E added \in BOOLEAN : Readd(w, added)
    BY <2>6, ReaddStep
  <2> QED
    BY <1>4, <2>1, <2>2, <2>3, <2>4, <2>5, <2>6 DEF ProcessMessage
<1>5. CASE Stop \/ Shutdown
  BY <1>5, StopStep
<1>6. CASE Crash
  BY <1>6, CrashStep
<1>7. CASE Restart
  BY <1>7, RestartStep
<1> QED
  BY <1>1, <1>2, <1>3, <1>4, <1>5, <1>6, <1>7 DEF Next

(* IInv holds in every reachable state.                                    *)
THEOREM IInvHolds == Spec => []IInv
<1>1. Init => IInv
  BY InitIInv
<1>2. IInv /\ [Next]_vars => IInv'
  BY EveryStep
<1> QED
  BY <1>1, <1>2, PTL DEF Spec

(* The variables keep their types; in particular no entry of the stream    *)
(* has a RetryCount beyond MAX_RETRIES.                                    *)
THEOREM TypeCorrect == Spec => []TypeOK
<1>1. IInv => TypeOK
  BY DEF IInv
<1> QED
  BY <1>1, IInvHolds, PTL

(* A message no failure has hit is on its way or has ended, through stops  *)
(* and restarts of the indexer.                                            *)
THEOREM NoMsgLostHolds == Spec => []NoMsgLost
<1>1. IInv => NoMsgLost
  BY DEF IInv
<1> QED
  BY <1>1, IInvHolds, PTL

(* What is pending without a failure is being worked on, so the second     *)
(* read of GetMsg can only return work that another goroutine has begun.   *)
THEOREM PendingIsHeldHolds == Spec => []PendingIsHeld
<1>1. IInv => PendingIsHeld
  BY DEF IInv
<1> QED
  BY <1>1, IInvHolds, PTL

(* No message is declared dead before every one of its retries was added.  *)
THEOREM DeadWasRetriedHolds == Spec => []DeadWasRetried
<1>1. IInv => DeadWasRetried
  BY DEF IInv
<1> QED
  BY <1>1, IInvHolds, PTL

-----------------------------------------------------------------------------
(* An entry is pending with one process at most, and what a goroutine has  *)
(* in its batch is pending with its own process if at all.                 *)
OneOwner == \A p, q \in pending : p[2] = q[2] => p = q

OwnInHand == \A p \in pending, w \in Procs : p[2] \in batch[w] => p[1] = process

SInv == IInv /\ OneOwner /\ OwnInHand

(* Between reads entries only leave the batches and the pending list, and  *)
(* only what is in a batch leaves the list.                                *)
Acknowledging ==
  /\ process' = process
  /\ pending' \subseteq pending
  /\ \A w \in Procs : batch'[w] \subseteq batch[w]
  /\ \A p \in pending : p \in pending' \/ \E w \in Procs : p[2] \in batch[w]

LEMMA AckedKeeps ==
  ASSUME IInv, NEW w \in Procs, batch[w] # {}, pending' = Acked(Current(w))
  PROVE  /\ pending' \subseteq pending
         /\ \A p \in pending : p \in pending' \/ \E v \in Procs : p[2] \in batch[v]
<1>1. Current(w) \in batch[w]
  BY InHandIsEntry DEF IInv
<1> QED
  BY <1>1 DEF Acked

LEMMA GoOnShrinks ==
  ASSUME IInv, NEW w \in Procs, GoOn(w)
  PROVE  \A v \in Procs : batch'[v] \subseteq batch[v]
BY DEF GoOn, Take, IInv, TypeOK

LEMMA ProcessMessageAcknowledges ==
  ASSUME IInv, NEW w \in Procs, ProcessMessage(w)
  PROVE  Acknowledging
<1>1. CASE Begin(w)
  BY <1>1 DEF Begin, Acknowledging, streamVars, processVars
<1>2. CASE \E outcome \in {"ok", "late", "error"} : Exec(w, outcome)
  BY <1>2 DEF Exec, Acknowledging, streamVars, processVars
<1>3. CASE AckSuccess(w)
  <2>1. batch[w] # {} /\ process' = process
    BY <1>3 DEF AckSuccess, IInv, WorkerOK, Resting, processVars
  <2> QED
    BY <1>3, <2>1, AckedKeeps, GoOnShrinks DEF AckSuccess, Acknowledging
<1>4. CASE AckFailure(w)
  <2>1. batch[w] # {} /\ process' = process
    BY <1>4 DEF AckFailure, IInv, WorkerOK, Resting, processVars
  <2>2. \A v \in Procs : batch'[v] \subseteq batch[v]
    BY <1>4, GoOnShrinks DEF AckFailure
  <2> QED
    BY <1>4, <2>1, <2>2, AckedKeeps DEF AckFailure, Acknowledging
<1>5. CASE \E done \in BOOLEAN : AckFails(w, done)
  <2>1. batch[w] # {} /\ process' = process
    BY <1>5 DEF AckFails, IInv, WorkerOK, Resting, processVars
  <2>2. pending' = Acked(Current(w)) \/ pending' = pending
    BY <1>5 DEF AckFails
  <2>3. \A v \in Procs : batch'[v] \subseteq batch[v]
    BY <1>5, GoOnShrinks DEF AckFails
  <2> QED
    BY <2>1, <2>2, <2>3, AckedKeeps DEF Acknowledging
<1>6. CASE \E added \in BOOLEAN : Readd(w, added)
  BY <1>6, GoOnShrinks DEF Readd, Acknowledging, processVars
<1> QED
  BY <1>1, <1>2, <1>3, <1>4, <1>5, <1>6 DEF ProcessMessage

(* What ReadNew and ReadOwn do to the pending list and the batches.        *)
LEMMA ReadNewOwns ==
  ASSUME SInv, NEW w \in Procs, NEW lost \in BOOLEAN, ReadNew(w, lost)
  PROVE  OneOwner' /\ OwnInHand' /\ pending \subseteq pending'
<1> DEFINE read == FirstFew(Undelivered)
<1>1. /\ pending' = pending \union ({process} \X read)
      /\ process' = process
      /\ \A v \in Procs : batch'[v] \subseteq batch[v] \union read
  BY DEF ReadNew, Noted, Take, SInv, IInv, TypeOK, processVars
<1>2. /\ \A e \in read : e > delivered
      /\ \A p \in pending : p \in Nat \X (1..delivered) /\ p[2] <= delivered
      /\ \A v \in Procs : \A e \in batch[v] : e \in 1..delivered /\ e <= delivered
  <2>1. read \subseteq Undelivered
    BY DEF FirstFew
  <2>2. delivered \in Nat /\ Len(stream) \in Nat
    BY DEF SInv, IInv, TypeOK
  <2>3. \A e \in Undelivered : e > delivered
    BY <2>2 DEF Undelivered
  <2> QED
    BY <2>1, <2>2, <2>3 DEF SInv, IInv, TypeOK
<1>3. \A p \in {process} \X read : p = <<process, p[2]>> /\ p[2] \in read /\ p[1] = process
  OBVIOUS
<1>4. \A e \in read : e \notin 1..delivered
  BY <1>2 DEF SInv, IInv, TypeOK
<1> HIDE DEF read
<1>5. ASSUME NEW p \in pending', NEW q \in pending', p[2] = q[2]
      PROVE  p = q
  <2>1. CASE p \in pending /\ q \in pending
    BY <1>5, <2>1 DEF SInv, OneOwner
  <2>2. CASE p \in {process} \X read /\ q \in {process} \X read
    BY <1>3, <1>5, <2>2
  <2>3. CASE p \in pending /\ q \in {process} \X read
    BY <1>2, <1>3, <1>4, <1>5, <2>3
  <2>4. CASE p \in {process} \X read /\ q \in pending
    BY <1>2, <1>3, <1>4, <1>5, <2>4
  <2> QED
    BY <1>1, <1>5, <2>1, <2>2, <2>3, <2>4
<1>6. ASSUME NEW p \in pending', NEW v \in Procs, p[2] \in batch'[v]
      PROVE  p[1] = process
  <2>1. CASE p \in {process} \X read
    BY <1>3, <2>1
  <2>2. CASE p \in pending
    <3>1. p[2] \in batch[v]
      BY <1>1, <1>2, <1>4, <1>6, <2>2
    <3> QED
      BY <2>2, <3>1 DEF SInv, OwnInHand
  <2> QED
    BY <1>1, <1>6, <2>1, <2>2
<1> QED
  BY <1>1, <1>5, <1>6 DEF OneOwner, OwnInHand

LEMMA ReadOwnOwns ==
  ASSUME SInv, NEW w \in Procs, NEW lost \in BOOLEAN, ReadOwn(w, lost)
  PROVE  OneOwner' /\ OwnInHand' /\ pending' = pending
<1>1. /\ pending' = pending /\ process' = process
      /\ \A v \in Procs : batch'[v] \subseteq batch[v] \union Own
  BY DEF ReadOwn, FirstFew, Take, SInv, IInv, TypeOK, processVars, streamVars
<1>2. ASSUME NEW p \in pending, p[2] \in Own
      PROVE  p[1] = process
  <2>1. PICK q \in pending : q[1] = process /\ p[2] = q[2]
    BY <1>2 DEF Own
  <2> QED
    BY <2>1 DEF SInv, OneOwner
<1> QED
  BY <1>1, <1>2 DEF SInv, OneOwner, OwnInHand

(* A crash and a restart leave every batch empty.                          *)
LEMMA EmptyBatches ==
  ASSUME SInv, Crash \/ Restart
  PROVE  OneOwner' /\ OwnInHand' /\ pending' = pending
<1>1. pending' = pending
  BY DEF Crash, Restart, streamVars
<1>2. \A w \in Procs : batch'[w] = {}
  <2>1. CASE Crash
    BY <2>1 DEF Crash
  <2>2. CASE Restart
    BY <2>2 DEF Restart, SInv, IInv, DownIsQuiet, WorkerOK, Resting
  <2> QED
    BY <2>1, <2>2
<1> QED
  BY <1>1, <1>2 DEF SInv, OneOwner, OwnInHand

LEMMA OwnersKept ==
  ASSUME SInv, [Next]_vars
  PROVE  /\ OneOwner' /\ OwnInHand'
         /\ \A p \in pending : p[1] # process => p \in pending'
<1>1. CASE Acknowledging
  BY <1>1 DEF Acknowledging, SInv, OneOwner, OwnInHand
<1>2. CASE \E w \in Procs : ProcessMessage(w)
  BY <1>1, <1>2, ProcessMessageAcknowledges DEF SInv
<1>3. ASSUME NEW w \in Procs, GetMsg(w)
      PROVE  /\ OneOwner' /\ OwnInHand'
             /\ \A p \in pending : p[1] # process => p \in pending'
  <2>1. CASE \E lost \in BOOLEAN : ReadNew(w, lost)
    BY <2>1, ReadNewOwns
  <2>2. CASE \E lost \in BOOLEAN : ReadOwn(w, lost)
    BY <2>2, ReadOwnOwns
  <2>3. CASE NothingNew(w)
    <3>1. Acknowledging
      BY <2>3 DEF NothingNew, Acknowledging, streamVars, processVars
    <3> QED
      BY <1>1, <3>1
  <2> QED
    BY <1>3, <2>1, <2>2, <2>3 DEF GetMsg
<1>4. CASE (\E m \in Msgs : AddMsg(m)) \/ Stop \/ Shutdown \/ UNCHANGED vars
  <2>1. Acknowledging
    BY <1>4 DEF AddMsg, Stop, Shutdown, Acknowledging, vars, streamVars, processVars
  <2> QED
    BY <1>1, <2>1
<1>5. CASE Crash \/ Restart
  BY <1>5, EmptyBatches
<1> QED
  BY <1>2, <1>3, <1>4, <1>5 DEF Next

(* What a process leaves pending at its end stays pending for ever: the    *)
(* claim that the comment of GetMsg announces never happens.               *)
THEOREM StrandedStaysHolds == Spec => StrandedStays
<1>1. Init => SInv
  BY InitIInv DEF SInv, OneOwner, OwnInHand, Init
<1>2. SInv /\ [Next]_vars => SInv'
  BY EveryStep, OwnersKept DEF SInv
<1>3. SInv /\ [Next]_vars => [\A p \in pending : p[1] # process => p \in pending']_vars
  BY OwnersKept
<1> QED
  BY <1>1, <1>2, <1>3, PTL DEF Spec, StrandedStays

-----------------------------------------------------------------------------
(* An entry that is not delivered yet, or that is pending, can come to any *)
(* goroutine.  A copy is spent for a goroutine when it cannot come to it   *)
(* any more and is not in its batch: that goroutine has added at most one  *)
(* copy for it.                                                            *)
Unread(e) == e \in Undelivered \/ \E p \in pending : p[2] = e

Spent(m, r) ==
  {c \in Copies(m, r) \X Procs : ~Unread(c[1]) /\ c[1] \notin batch[c[2]]}

(* The parser names a message by the order of publication, so that it adds *)
(* each only once.                                                         *)
PublishedInOrder == \E n \in Nat : Published = 1..n

(* A copy with one more retry was paid for by a spent one.                 *)
EachIsPaidFor ==
  \A m \in Msgs :
    /\ Cardinality(Copies(m, 0)) <= 1
    /\ \A r \in 1..MAX_RETRIES :
         Cardinality(Copies(m, r)) <= Cardinality(Spent(m, r - 1))

CInv == IInv /\ PublishedInOrder /\ EachIsPaidFor

(* What is spent stays spent.                                              *)
SpentStays ==
  \A e \in Entries, w \in Procs :
    ~Unread(e) /\ e \notin batch[w] => ~Unread(e)' /\ e \notin batch'[w]

LEMMA SpentFinite ==
  ASSUME NEW n \in Nat, NEW copies \in SUBSET (1..n), NEW spent \in SUBSET (copies \X Procs)
  PROVE  /\ IsFiniteSet(copies) /\ Cardinality(copies) \in Nat
         /\ IsFiniteSet(spent) /\ Cardinality(spent) \in Nat
         /\ Cardinality(spent) <= Cardinality(Procs) * Cardinality(copies)
<1>1. IsFiniteSet(copies) /\ Cardinality(copies) \in Nat
  <2>1. IsFiniteSet(1..n)
    BY FS_Interval
  <2> QED
    BY <2>1, FS_Subset, FS_CardinalityType
<1>2. IsFiniteSet(Procs) /\ Cardinality(Procs) \in Nat
  BY ProcsAssumption, FS_CardinalityType
<1>3. /\ IsFiniteSet(copies \X Procs)
      /\ Cardinality(copies \X Procs) = Cardinality(copies) * Cardinality(Procs)
  BY <1>1, <1>2, FS_Product
<1>4. /\ IsFiniteSet(spent) /\ Cardinality(spent) \in Nat
      /\ Cardinality(spent) <= Cardinality(copies) * Cardinality(Procs)
  BY <1>3, FS_Subset, FS_CardinalityType
<1>5. \A a, b \in Nat : a * b = b * a
  OBVIOUS
<1> QED
  BY <1>1, <1>2, <1>4, <1>5

LEMMA CopiesFinite ==
  ASSUME TypeOK, NEW m, NEW r
  PROVE  /\ IsFiniteSet(Copies(m, r)) /\ Cardinality(Copies(m, r)) \in Nat
         /\ IsFiniteSet(Spent(m, r)) /\ Cardinality(Spent(m, r)) \in Nat
         /\ Cardinality(Spent(m, r)) <= Cardinality(Procs) * Cardinality(Copies(m, r))
<1>1. Len(stream) \in Nat /\ Copies(m, r) \in SUBSET (1..Len(stream))
  BY DEF TypeOK, Entries, Copies
<1>2. Spent(m, r) \in SUBSET (Copies(m, r) \X Procs)
  BY DEF Spent
<1> HIDE DEF Copies, Spent
<1> QED
  BY <1>1, <1>2, SpentFinite

LEMMA SpentGrows ==
  ASSUME TypeOK, TypeOK', NEW m, NEW r, Spent(m, r) \subseteq Spent(m, r)'
  PROVE  /\ Cardinality(Spent(m, r)) \in Nat
         /\ Cardinality(Spent(m, r)') \in Nat
         /\ Cardinality(Spent(m, r)) <= Cardinality(Spent(m, r)')
         /\ \A c : c \notin Spent(m, r) /\ c \in Spent(m, r)'
                     => Cardinality(Spent(m, r)) < Cardinality(Spent(m, r)')
<1>1. Len(stream') \in Nat /\ Copies(m, r)' \in SUBSET (1..Len(stream'))
  BY DEF TypeOK, Entries, Copies
<1>2. Spent(m, r)' \in SUBSET (Copies(m, r)' \X Procs)
  BY DEF Spent
<1>3. IsFiniteSet(Spent(m, r)') /\ Cardinality(Spent(m, r)') \in Nat
  BY <1>1, <1>2, SpentFinite
<1>4. /\ Cardinality(Spent(m, r)) <= Cardinality(Spent(m, r)')
      /\ Cardinality(Spent(m, r)) = Cardinality(Spent(m, r)') => Spent(m, r) = Spent(m, r)'
  BY <1>3, FS_Subset
<1>5. Cardinality(Spent(m, r)) \in Nat
  BY CopiesFinite
<1> QED
  BY <1>3, <1>4, <1>5

(* Only what was unread comes into a batch, and only what was not          *)
(* delivered becomes pending.                                              *)
LEMMA SpentStaysWhen ==
  ASSUME TypeOK, TypeOK', delivered <= delivered',
         \A p \in pending' : p \in pending \/ p[2] \in Undelivered,
         \A w \in Procs : \A e \in batch'[w] : e \in batch[w] \/ Unread(e)
  PROVE  SpentStays
<1> SUFFICES ASSUME NEW e \in Entries, NEW w \in Procs, ~Unread(e), e \notin batch[w]
             PROVE  ~Unread(e)' /\ e \notin batch'[w]
  BY DEF SpentStays
<1>1. e \notin batch'[w]
  OBVIOUS
<1>2. e \notin Undelivered'
  <2>1. e \in 1..Len(stream) /\ e \notin (delivered + 1)..Len(stream)
    BY DEF Unread, Undelivered, Entries, TypeOK
  <2>2. delivered \in Nat /\ Len(stream) \in Nat
    BY DEF TypeOK
  <2>3. e \in Nat /\ e <= delivered
    BY <2>1, <2>2
  <2>4. delivered' \in Nat /\ Len(stream') \in Nat
    BY DEF TypeOK
  <2>5. Undelivered' = (delivered' + 1)..Len(stream')
    BY DEF Undelivered
  <2>6. \A a, b, c, f \in Nat : f <= a /\ a <= b => f \notin (b + 1)..c
    OBVIOUS
  <2> QED
    BY <2>2, <2>3, <2>4, <2>5, <2>6
<1>3. \A p \in pending' : p[2] # e
  BY DEF Unread
<1> QED
  BY <1>1, <1>2, <1>3 DEF Unread

LEMMA SpentStaysAlways ==
  ASSUME IInv, [Next]_vars
  PROVE  SpentStays
<1>1. TypeOK /\ TypeOK' /\ delivered \in Nat
  BY EveryStep DEF IInv, TypeOK
<1>2. ASSUME Acknowledging, delivered' = delivered
      PROVE  SpentStays
  BY <1>1, <1>2, SpentStaysWhen DEF Acknowledging
<1>3. ASSUME NEW w \in Procs, ProcessMessage(w)
      PROVE  SpentStays
  <2>1. delivered' = delivered
    BY <1>3 DEF ProcessMessage, Begin, Exec, AckSuccess, AckFailure, AckFails, Readd,
                streamVars
  <2> QED
    BY <1>2, <1>3, <2>1, ProcessMessageAcknowledges
<1>4. ASSUME NEW w \in Procs, NEW lost \in BOOLEAN, ReadNew(w, lost)
      PROVE  SpentStays
  <2> DEFINE read == FirstFew(Undelivered)
  <2>1. /\ delivered' = delivered + Cardinality(read)
        /\ pending' = pending \union ({process} \X read)
        /\ \A v \in Procs : batch'[v] \subseteq batch[v] \union read
    BY <1>1, <1>4 DEF ReadNew, Noted, Take, TypeOK
  <2>2. read \subseteq Undelivered /\ Cardinality(read) \in Nat
    BY <1>1, FirstFewUndelivered
  <2> HIDE DEF read
  <2>3. delivered' \in Nat /\ delivered <= delivered'
    BY <1>1, <2>1, <2>2
  <2>4. \A p \in pending' : p \in pending \/ p[2] \in Undelivered
    BY <2>1, <2>2
  <2>5. \A v \in Procs : \A e \in batch'[v] : e \in batch[v] \/ Unread(e)
    BY <2>1, <2>2 DEF Unread
  <2> QED
    BY <1>1, <2>3, <2>4, <2>5, SpentStaysWhen
<1>5. ASSUME NEW w \in Procs, NEW lost \in BOOLEAN, ReadOwn(w, lost)
      PROVE  SpentStays
  <2>1. /\ delivered' = delivered /\ pending' = pending
        /\ \A v \in Procs : batch'[v] \subseteq batch[v] \union Own
    BY <1>1, <1>5 DEF ReadOwn, FirstFew, Take, TypeOK, streamVars
  <2>2. \A v \in Procs : \A e \in batch'[v] : e \in batch[v] \/ Unread(e)
    BY <2>1 DEF Unread, Own
  <2> QED
    BY <1>1, <2>1, <2>2, SpentStaysWhen
<1>6. ASSUME NEW w \in Procs, NothingNew(w)
      PROVE  SpentStays
  BY <1>1, <1>6, SpentStaysWhen DEF NothingNew, streamVars
<1>7. CASE (\E m \in Msgs : AddMsg(m)) \/ Stop \/ Shutdown \/ UNCHANGED vars
  <2>1. UNCHANGED <<delivered, pending, batch>>
    BY <1>7 DEF AddMsg, Stop, Shutdown, vars, streamVars, processVars
  <2> QED
    BY <1>1, <2>1, SpentStaysWhen
<1>8. CASE Crash \/ Restart
  <2>1. UNCHANGED <<delivered, pending>> /\ \A v \in Procs : batch'[v] \subseteq batch[v]
    BY <1>8 DEF Crash, Restart, streamVars
  <2> QED
    BY <1>1, <2>1, SpentStaysWhen
<1> QED
  BY <1>3, <1>4, <1>5, <1>6, <1>7, <1>8 DEF Next, GetMsg

(* The stream grows by one entry at most: a new message, or a copy that a  *)
(* goroutine adds.                                                         *)
NewMessage ==
  \E m \in Msgs : /\ m = Cardinality(Published) + 1
                  /\ stream' = Append(stream, [msg |-> m, retries |-> 0])

NewCopy(w) ==
  /\ pc[w] = "readd" /\ GoOn(w)
  /\ UNCHANGED <<delivered, pending>>
  /\ stream' = Append(stream, [msg |-> Msg(w), retries |-> Retries(w) + 1])

LEMMA StreamGrows ==
  ASSUME IInv, [Next]_vars
  PROVE  stream' = stream \/ NewMessage \/ \E w \in Procs : NewCopy(w)
<1>1. CASE \E m \in Msgs : AddMsg(m)
  BY <1>1 DEF AddMsg, NewMessage
<1>2. ASSUME NEW w \in Procs, GetMsg(w)
      PROVE  stream' = stream
  BY <1>2 DEF GetMsg, ReadNew, ReadOwn, NothingNew, streamVars
<1>3. ASSUME NEW w \in Procs, ProcessMessage(w)
      PROVE  stream' = stream \/ NewCopy(w)
  <2>1. CASE \E added \in BOOLEAN : Readd(w, added)
    BY <2>1 DEF Readd, Readded, NewCopy
  <2> QED
    BY <1>3, <2>1 DEF ProcessMessage, Begin, Exec, AckSuccess, AckFailure, AckFails,
                      streamVars
<1>4. CASE Stop \/ Shutdown \/ Crash \/ Restart \/ UNCHANGED vars
  BY <1>4 DEF Stop, Shutdown, Crash, Restart, vars, streamVars
<1> QED
  BY <1>1, <1>2, <1>3, <1>4 DEF Next

(* One entry more is a copy more of its message and its count, and of none *)
(* other; what was spent stays spent.                                      *)
LEMMA CopiesGrow ==
  ASSUME TypeOK, TypeOK', SpentStays, NEW entry \in Entry, stream' = Append(stream, entry)
  PROVE  /\ Published' = Published \union {entry.msg}
         /\ \A m \in Msgs, r \in Nat :
              /\ Spent(m, r) \subseteq Spent(m, r)'
              /\ \/ Cardinality(Copies(m, r)') = Cardinality(Copies(m, r))
                 \/ /\ m = entry.msg /\ r = entry.retries
                    /\ Cardinality(Copies(m, r)') = Cardinality(Copies(m, r)) + 1
<1>1. /\ Entries' = Entries \union {Len(stream')}
      /\ Len(stream') \notin Entries
      /\ stream'[Len(stream')] = entry
      /\ \A e \in Entries : stream'[e] = stream[e]
  <2>1. Len(stream') = Len(stream) + 1 /\ Len(stream) \in Nat /\ Entries = 1..Len(stream)
    BY AppendKeeps DEF TypeOK, Entries
  <2> QED
    BY <2>1, AppendKeeps
<1>2. Published' = Published \union {entry.msg}
  BY <1>1 DEF Published
<1>3. ASSUME NEW m \in Msgs, NEW r \in Nat
      PROVE  /\ Spent(m, r) \subseteq Spent(m, r)'
             /\ \/ Cardinality(Copies(m, r)') = Cardinality(Copies(m, r))
                \/ /\ m = entry.msg /\ r = entry.retries
                   /\ Cardinality(Copies(m, r)') = Cardinality(Copies(m, r)) + 1
  <2>1. Copies(m, r) \subseteq Copies(m, r)'
    BY <1>1 DEF Copies
  <2>2. Spent(m, r) \subseteq Spent(m, r)'
    <3> SUFFICES ASSUME NEW c \in Spent(m, r)
                 PROVE  c \in Spent(m, r)'
      OBVIOUS
    <3>1. /\ c \in Copies(m, r) \X Procs /\ c[1] \in Entries /\ c[2] \in Procs
          /\ ~Unread(c[1]) /\ c[1] \notin batch[c[2]]
      BY DEF Spent, Copies
    <3>2. ~Unread(c[1])' /\ c[1] \notin batch'[c[2]]
      BY <3>1 DEF SpentStays
    <3>3. c \in Copies(m, r)' \X Procs
      BY <2>1, <3>1
    <3> QED
      BY <3>2, <3>3 DEF Spent
  <2>3. CASE entry = [msg |-> m, retries |-> r]
    <3>1. Copies(m, r)' = Copies(m, r) \union {Len(stream')}
      BY <1>1, <2>3 DEF Copies
    <3>2. Len(stream') \notin Copies(m, r)
      BY <1>1 DEF Copies
    <3>3. Cardinality(Copies(m, r)') = Cardinality(Copies(m, r)) + 1
      BY <3>1, <3>2, CopiesFinite, FS_AddElement
    <3>4. m = entry.msg /\ r = entry.retries
      BY <2>3
    <3> QED
      BY <2>2, <3>3, <3>4
  <2>4. CASE entry # [msg |-> m, retries |-> r]
    <3>1. Copies(m, r)' = Copies(m, r)
      BY <1>1, <2>4 DEF Copies
    <3> QED
      BY <2>2, <3>1
  <2> QED
    BY <2>3, <2>4
<1> QED
  BY <1>2, <1>3

LEMMA NewMessageIsPaidFor ==
  ASSUME CInv, IInv', SpentStays, NewMessage
  PROVE  PublishedInOrder' /\ EachIsPaidFor'
<1>1. PICK m \in Msgs : /\ m = Cardinality(Published) + 1
                        /\ stream' = Append(stream, [msg |-> m, retries |-> 0])
  BY DEF NewMessage
<1> DEFINE entry == [msg |-> m, retries |-> 0]
<1>2. TypeOK /\ TypeOK' /\ entry \in Entry /\ entry.msg = m /\ entry.retries = 0
  BY RetriesAssumption DEF CInv, IInv, Entry
<1>3. stream' = Append(stream, entry)
  BY <1>1
<1> HIDE DEF entry
<1>4. PICK n \in Nat : Published = 1..n
  BY DEF CInv, PublishedInOrder
<1>5. m = n + 1
  <2>1. Cardinality(1..n) = n
    BY FS_Interval
  <2> QED
    BY <1>1, <1>4, <2>1
<1>6. Published' = Published \union {m}
  BY <1>2, <1>3, CopiesGrow
<1>7. PublishedInOrder'
  <2>1. Published' = 1..(n + 1) /\ n + 1 \in Nat
    BY <1>4, <1>5, <1>6
  <2> QED
    BY <2>1 DEF PublishedInOrder
<1>8. ASSUME NEW k \in Msgs
      PROVE  Cardinality(Copies(k, 0)') <= 1
  <2>1. CASE k = m
    <3>1. m \notin Published
      BY <1>4, <1>5
    <3>2. Copies(m, 0) = {}
      BY <3>1 DEF Copies, Published
    <3>3. Cardinality(Copies(m, 0)) = 0
      BY <3>2, FS_EmptySet
    <3>4. Cardinality(Copies(m, 0)') \in {0, 1}
      BY <1>1, <1>2, <1>3, <3>3, CopiesGrow
    <3> QED
      BY <2>1, <3>4
  <2>2. CASE k # m
    <3>1. Cardinality(Copies(k, 0)') = Cardinality(Copies(k, 0))
      BY <1>2, <1>3, <2>2, CopiesGrow
    <3> QED
      BY <3>1 DEF CInv, EachIsPaidFor
  <2> QED
    BY <2>1, <2>2
<1>9. ASSUME NEW k \in Msgs, NEW r \in 1..MAX_RETRIES
      PROVE  Cardinality(Copies(k, r)') <= Cardinality(Spent(k, r - 1)')
  <2>1. r \in Nat /\ r - 1 \in Nat /\ r # 0
    BY RetriesAssumption
  <2>2. Cardinality(Copies(k, r)') = Cardinality(Copies(k, r))
    BY <1>2, <1>3, <2>1, CopiesGrow
  <2>3. Spent(k, r - 1) \subseteq Spent(k, r - 1)'
    BY <1>2, <1>3, <2>1, CopiesGrow
  <2>4. /\ Cardinality(Spent(k, r - 1)) <= Cardinality(Spent(k, r - 1)')
        /\ Cardinality(Spent(k, r - 1)) \in Nat
        /\ Cardinality(Spent(k, r - 1)') \in Nat
    BY <1>2, <2>3, SpentGrows
  <2>5. Cardinality(Copies(k, r)) <= Cardinality(Spent(k, r - 1))
    BY DEF CInv, EachIsPaidFor
  <2>6. Cardinality(Copies(k, r)) \in Nat
    BY <1>2, CopiesFinite
  <2> QED
    BY <2>2, <2>4, <2>5, <2>6
<1> QED
  BY <1>7, <1>8, <1>9 DEF EachIsPaidFor

(* The goroutine that adds a copy has the entry it was made from in its    *)
(* batch, acknowledged, and drops it: that entry is spent for it now.      *)
LEMMA NewCopyIsPaidFor ==
  ASSUME CInv, IInv', SpentStays, NEW w \in Procs, NewCopy(w)
  PROVE  PublishedInOrder' /\ EachIsPaidFor'
<1> DEFINE entry == [msg |-> Msg(w), retries |-> Retries(w) + 1]
<1>0. PICK msg, retries, e :
       msg = Msg(w) /\ retries = Retries(w) /\ e = Current(w)
  OBVIOUS
<1>1. IInv /\ TypeOK /\ TypeOK' /\ WorkerOK(w) /\ batch[w] # {}
  BY DEF CInv, IInv, NewCopy, WorkerOK, Resting
<1>2. /\ Current(w) \in batch[w] /\ Current(w) \in 1..delivered
      /\ Current(w) \in Entries /\ stream[Current(w)] \in Entry
      /\ Msg(w) \in Msgs /\ Msg(w) \in Published /\ Retries(w) \in 0..MAX_RETRIES
      /\ Msg(w) = stream[Current(w)].msg /\ Retries(w) = stream[Current(w)].retries
  BY <1>1, InHandIsEntry DEF Msg, Retries
<1>3. /\ entry \in Entry /\ entry.msg = Msg(w)
      /\ entry.retries \in Nat /\ entry.retries - 1 = Retries(w) /\ entry.retries # 0
  BY <1>1, <1>2, RetriesAssumption DEF WorkerOK, NewCopy, Entry
<1>4. stream' = Append(stream, entry)
  BY DEF NewCopy
<1> HIDE DEF entry
<1>5. Published' = Published
  <2>1. Published' = Published \union {Msg(w)}
    BY <1>1, <1>3, <1>4, CopiesGrow
  <2> QED
    BY <1>2, <2>1
<1>6. <<e, w>> \notin Spent(msg, retries)
  BY <1>0, <1>2 DEF Spent
<1>7. <<e, w>> \in Spent(msg, retries)'
  <2>1. stream[e] = [msg |-> msg, retries |-> retries]
    BY <1>0, <1>2 DEF Entry
  <2>2. e \in Entries' /\ stream'[e] = stream[e]
    BY <1>0, <1>1, <1>2, <1>3, <1>4, AppendKeeps
  <2>3. e \in Copies(msg, retries)'
    BY <2>1, <2>2 DEF Copies
  <2>4. e \notin batch'[w]
    BY <1>0, <1>1, GoOnTypes DEF NewCopy
  <2>5. \A p \in pending' : p[2] # e
    BY <1>0, <1>1 DEF WorkerOK, NewCopy
  <2>6. e \notin Undelivered'
    <3>1. delivered \in Nat /\ delivered' = delivered /\ Len(stream') \in Nat
      BY <1>1 DEF TypeOK, NewCopy
    <3> QED
      BY <1>0, <1>2, <3>1 DEF Undelivered
  <2> QED
    BY <2>3, <2>4, <2>5, <2>6 DEF Spent, Unread
<1>8. ASSUME NEW m \in Msgs
      PROVE  Cardinality(Copies(m, 0)') <= 1
  <2>1. Cardinality(Copies(m, 0)') = Cardinality(Copies(m, 0))
    BY <1>1, <1>3, <1>4, CopiesGrow
  <2> QED
    BY <2>1 DEF CInv, EachIsPaidFor
<1>9. ASSUME NEW m \in Msgs, NEW r \in 1..MAX_RETRIES
      PROVE  Cardinality(Copies(m, r)') <= Cardinality(Spent(m, r - 1)')
  <2>1. r \in Nat /\ r - 1 \in Nat
    BY RetriesAssumption
  <2>2. /\ Spent(m, r - 1) \subseteq Spent(m, r - 1)'
        /\ \/ Cardinality(Copies(m, r)') = Cardinality(Copies(m, r))
           \/ /\ m = entry.msg /\ r = entry.retries
              /\ Cardinality(Copies(m, r)') = Cardinality(Copies(m, r)) + 1
    BY <1>1, <1>3, <1>4, <2>1, CopiesGrow
  <2>3. /\ Cardinality(Spent(m, r - 1)) <= Cardinality(Spent(m, r - 1)')
        /\ Cardinality(Spent(m, r - 1)) \in Nat
        /\ Cardinality(Spent(m, r - 1)') \in Nat
    BY <1>1, <2>2, SpentGrows
  <2>4. Cardinality(Copies(m, r)) <= Cardinality(Spent(m, r - 1))
    BY DEF CInv, EachIsPaidFor
  <2>5. Cardinality(Copies(m, r)) \in Nat
    BY <1>1, CopiesFinite
  <2>6. CASE Cardinality(Copies(m, r)') = Cardinality(Copies(m, r))
    BY <2>3, <2>4, <2>5, <2>6
  <2>7. CASE /\ m = entry.msg /\ r = entry.retries
             /\ Cardinality(Copies(m, r)') = Cardinality(Copies(m, r)) + 1
    <3>1. m = msg /\ r - 1 = retries
      BY <1>0, <1>3, <2>7
    <3>2. <<e, w>> \notin Spent(m, r - 1) /\ <<e, w>> \in Spent(m, r - 1)'
      BY <1>6, <1>7, <3>1
    <3>3. Cardinality(Spent(m, r - 1)) < Cardinality(Spent(m, r - 1)')
      BY <1>1, <2>2, <3>2, SpentGrows
    <3> QED
      BY <2>3, <2>4, <2>5, <2>7, <3>3
  <2> QED
    BY <2>2, <2>6, <2>7
<1>10. PublishedInOrder'
  BY <1>5 DEF CInv, PublishedInOrder
<1> QED
  BY <1>8, <1>9, <1>10 DEF EachIsPaidFor

LEMMA EveryStepIsPaidFor ==
  ASSUME CInv, [Next]_vars
  PROVE  CInv'
<1>1. IInv /\ IInv' /\ SpentStays
  BY EveryStep, SpentStaysAlways DEF CInv
<1>2. CASE stream' = stream
  <2>1. Entries' = Entries /\ Published' = Published
        /\ \A m, r : Copies(m, r)' = Copies(m, r)
    BY <1>2 DEF Entries, Published, Copies
  <2>2. \A m, r : Spent(m, r) \subseteq Spent(m, r)'
    BY <1>1, <2>1 DEF Spent, Copies, SpentStays
  <2>3. ASSUME NEW m \in Msgs, NEW r \in 1..MAX_RETRIES
        PROVE  Cardinality(Copies(m, r)') <= Cardinality(Spent(m, r - 1)')
    <3>1. /\ Cardinality(Spent(m, r - 1)) <= Cardinality(Spent(m, r - 1)')
          /\ Cardinality(Spent(m, r - 1)) \in Nat
          /\ Cardinality(Spent(m, r - 1)') \in Nat
      BY <1>1, <2>2, SpentGrows DEF IInv
    <3>2. Cardinality(Copies(m, r)) <= Cardinality(Spent(m, r - 1))
      BY DEF CInv, EachIsPaidFor
    <3>3. Cardinality(Copies(m, r)) \in Nat
      BY <1>1, CopiesFinite DEF IInv
    <3> QED
      BY <2>1, <3>1, <3>2, <3>3
  <2>4. PublishedInOrder'
    BY <2>1 DEF CInv, PublishedInOrder
  <2>5. \A m \in Msgs : Cardinality(Copies(m, 0)') <= 1
    BY <2>1 DEF CInv, EachIsPaidFor
  <2> QED
    BY <1>1, <2>3, <2>4, <2>5 DEF CInv, EachIsPaidFor
<1>3. CASE NewMessage
  BY <1>1, <1>3, NewMessageIsPaidFor DEF CInv
<1>4. CASE \E w \in Procs : NewCopy(w)
  BY <1>1, <1>4, NewCopyIsPaidFor DEF CInv
<1> QED
  BY <1>1, <1>2, <1>3, <1>4, StreamGrows

LEMMA InitCInv ==
  ASSUME Init
  PROVE  CInv
<1>1. Entries = {} /\ Published = {} /\ IInv
  BY InitIInv DEF Init, Entries, Published
<1>2. PublishedInOrder
  BY <1>1 DEF PublishedInOrder
<1>3. \A m, r : Copies(m, r) = {} /\ Spent(m, r) = {}
  BY <1>1 DEF Copies, Spent
<1>4. EachIsPaidFor
  BY <1>3, FS_EmptySet DEF EachIsPaidFor
<1> QED
  BY <1>1, <1>2, <1>4 DEF CInv

(* Whatever fails and whenever the indexer is started again, the copies of *)
(* a message multiply with each retry by the number of goroutines at most. *)
THEOREM CopiesBoundedHolds == Spec => []CopiesBounded
<1>1. CInv => CopiesBounded
  <2> SUFFICES ASSUME CInv, NEW m \in Msgs, NEW r \in 1..MAX_RETRIES
               PROVE  Cardinality(Copies(m, r))
                        <= Cardinality(Procs) * Cardinality(Copies(m, r - 1))
    BY DEF CInv, EachIsPaidFor, CopiesBounded
  <2>1. /\ Cardinality(Copies(m, r)) \in Nat
        /\ Cardinality(Copies(m, r - 1)) \in Nat
        /\ Cardinality(Spent(m, r - 1)) \in Nat
        /\ Cardinality(Spent(m, r - 1))
             <= Cardinality(Procs) * Cardinality(Copies(m, r - 1))
    BY CopiesFinite DEF CInv, IInv
  <2>2. Cardinality(Copies(m, r)) <= Cardinality(Spent(m, r - 1))
    BY DEF CInv, EachIsPaidFor
  <2>3. Cardinality(Procs) * Cardinality(Copies(m, r - 1)) \in Nat
    BY <2>1, ProcsAssumption, FS_CardinalityType
  <2> QED
    BY <2>1, <2>2, <2>3
<1>2. Init => CInv
  BY InitCInv
<1>3. CInv /\ [Next]_vars => CInv'
  BY EveryStepIsPaidFor
<1> QED
  BY <1>1, <1>2, <1>3, PTL DEF Spec
=============================================================================
