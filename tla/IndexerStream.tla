---------------------------- MODULE IndexerStream ----------------------------
(***************************************************************************)
(* The road of a parsed page into the search index: the Redis stream       *)
(* between the two programs (internal/streams/stream.go), the goroutines   *)
(* of the indexer that read it (internal/indexer/worker/worker.go) and the *)
(* transaction that stores a document (internal/indexer/indexDocument.go). *)
(*                                                                         *)
(* All goroutines of a process are ONE consumer of the group: they share   *)
(* the worker ID.  A process that is started again has another one.  An    *)
(* entry of the stream is named by its position.  Entries are never        *)
(* deleted.  Left out: the payload beyond its hash and URL, the statistics *)
(* and Msg.Status (written, never read).                                   *)
(***************************************************************************)
EXTENDS Integers, Sequences, FiniteSets

CONSTANTS
  MaxMsgs,      \* bound: how many messages the parser publishes
  HashOf,       \* content_hash of the record a message carries
  UrlOf,        \* its URL
  Wordless,     \* hashes of texts without a single term to index
  Procs,        \* the goroutines of the indexer worker
  Count,        \* stream.go: 10 entries are read at a time
  MAX_RETRIES,  \* stream.go: 5
  Budgets       \* how many calls may fail, stops and crashes may come: the alternatives

ASSUME MsgsAssumption == MaxMsgs \in Nat
ASSUME ReadAssumption == Count \in Nat \ {0}
ASSUME RetriesAssumption == MAX_RETRIES \in Nat
ASSUME ProcsAssumption == IsFiniteSet(Procs)

(* A message is named by the order in which it is published.               *)
Msgs == 1..MaxMsgs

Events == {"read", "ack", "add", "crash"}
EventCount == [read : Nat, ack : Nat, add : Nat, crash : Nat, stop : Nat]

ASSUME BudgetAssumption == Budgets \subseteq EventCount

VARIABLES
  stream,     \* Seq of [msg, retries]: the stream "parser-events"
  delivered,  \* the last entry the group "indexer-group" has handed out
  pending,    \* the entries not acknowledged, as <<process, entry>>: whose they are
  process,    \* the number of the indexer process, which gives its worker ID
  mode,       \* "up", "stopping" or "down"
  pc,         \* where each goroutine is
  batch,      \* [Procs -> set of entries]: what is left of its last read, first entry first
  docs,       \* the table documents: set of [hash, url]
  rows,       \* the table inverted_index: the hashes it has rows of
  succeeded,  \* history: the messages logged as successfully processed
  dead,       \* history: the messages logged as dead
  touched,    \* [Msgs -> SUBSET Events]: history, the failures that hit a message
  budget      \* bound: what is left of the budget chosen at the start

streamVars  == <<stream, delivered, pending>>
processVars == <<process, mode>>
tableVars   == <<docs, rows>>
historyVars == <<succeeded, dead, touched, budget>>
vars == <<streamVars, processVars, pc, batch, tableVars, historyVars>>

Stages == {"reading", "rereading", "next", "exec", "cancelled", "done", "failed",
           "readd", "exited"}

Entry == [msg : Msgs, retries : 0..MAX_RETRIES]
Entries == DOMAIN stream
Document(m) == [hash |-> HashOf[m], url |-> UrlOf[m]]

TypeOK ==
  /\ stream \in Seq(Entry)
  /\ delivered \in 0..Len(stream)
  /\ pending \subseteq Nat \X (1..delivered)
  /\ process \in Nat
  /\ mode \in {"up", "stopping", "down"}
  /\ pc \in [Procs -> Stages]
  /\ batch \in [Procs -> SUBSET (1..delivered)]
  /\ docs \subseteq {Document(m) : m \in Msgs}
  /\ rows \subseteq {HashOf[m] : m \in Msgs}
  /\ succeeded \subseteq Msgs /\ dead \subseteq Msgs
  /\ touched \in [Msgs -> SUBSET Events]
  /\ budget \in EventCount
Init ==
  /\ stream = <<>> /\ delivered = 0 /\ pending = {}
  /\ process = 1 /\ mode = "up"
  /\ pc = [w \in Procs |-> "reading"]
  /\ batch = [w \in Procs |-> {}]
  /\ docs = {} /\ rows = {}
  /\ succeeded = {} /\ dead = {}
  /\ touched = [m \in Msgs |-> {}]
  /\ budget \in Budgets

-----------------------------------------------------------------------------
Published == {stream[e].msg : e \in Entries}

(* A read hands out at most Count entries, the oldest first.               *)
FirstFew(entries) == {e \in entries : Cardinality({f \in entries : f <= e}) <= Count}

Undelivered == (delivered + 1)..Len(stream)

(* The group notes whom it has given an entry (NoAck is not set).          *)
NotedNoAck(read) == pending

Noted(read) == pending \union ({process} \X read)

(* XREADGROUP with "0": what the consumer has read and not acknowledged.   *)
OwnNothing == {}

OwnAnyProcess == {p[2] : p \in pending}

Own == {p[2] : p \in {q \in pending : q[1] = process}}

Current(w) == CHOOSE e \in batch[w] : \A f \in batch[w] : e <= f
Msg(w) == stream[Current(w)].msg
Retries(w) == stream[Current(w)].retries

LoopTop == IF mode = "up" THEN "reading" ELSE "exited"

(* processMessages goes on with the batch, and looks at ctx only when it   *)
(* has none left.                                                          *)
Take(w, entries) ==
  /\ batch' = [batch EXCEPT ![w] = entries]
  /\ pc' = [pc EXCEPT ![w] = IF entries = {} THEN LoopTop ELSE "next"]

GoOnDropping(w) == Take(w, {})

GoOn(w) == Take(w, batch[w] \ {Current(w)})

Touch(msgs, event) ==
  [m \in Msgs |-> IF m \in msgs THEN touched[m] \union {event} ELSE touched[m]]

(* A call that fails uses up the budget of its kind.                       *)
Fault(event, msgs) ==
  /\ budget[event] > 0
  /\ budget' = [budget EXCEPT ![event] = @ - 1]
  /\ touched' = Touch(msgs, event)

NoFault == UNCHANGED <<touched, budget>>

(* INSERT INTO documents ... ON CONFLICT (content_hash) DO NOTHING: only   *)
(* the other unique column can refuse the row; then CopyFrom, which fails  *)
(* when the hash has rows already.                                         *)
HasDocument(m) == \E d \in docs : d.hash = HashOf[m]

Insertable(m) ==
  /\ HasDocument(m) \/ \A d \in docs : d.url # UrlOf[m]
  /\ HashOf[m] \notin rows

Inserted(m) ==
  /\ docs' = IF HasDocument(m) THEN docs ELSE docs \union {Document(m)}
  /\ rows' = IF HashOf[m] \in Wordless THEN rows ELSE rows \union {HashOf[m]}

-----------------------------------------------------------------------------
(* The parser publishes a message (AddMsg, in the other program).          *)
AddMsg(m) ==
  /\ m \in Msgs /\ m = Cardinality(Published) + 1
  /\ stream' = Append(stream, [msg |-> m, retries |-> 0])
  /\ UNCHANGED <<delivered, pending, processVars, pc, batch, tableVars, historyVars>>

(* GetMsg reads ">" first: entries that nobody was given yet.  The reply   *)
(* may be lost after the group has taken note of them.                     *)
ReadNew(w, lost) ==
  LET read == FirstFew(Undelivered) IN
  /\ pc[w] = "reading" /\ mode # "down"
  /\ Undelivered # {}
  /\ delivered' = delivered + Cardinality(read)
  /\ pending' = Noted(read)
  /\ \/ ~lost /\ Take(w, read) /\ NoFault
     \/ lost /\ Take(w, {}) /\ Fault("read", {stream[e].msg : e \in read})
  /\ UNCHANGED <<stream, processVars, tableVars, succeeded, dead>>

(* Two seconds without a new entry: GetMsg then asks for "0".              *)
NothingNew(w) ==
  /\ pc[w] = "reading" /\ mode # "down"
  /\ Undelivered = {}
  /\ pc' = [pc EXCEPT ![w] = "rereading"]
  /\ UNCHANGED <<streamVars, processVars, batch, tableVars, historyVars>>

(* The consumer name is shared, so these are also the entries that other   *)
(* goroutines are working on.  The reply holds one stream even when it has *)
(* no entry in it, so the XAUTOCLAIM after it never runs.                  *)
ReadOwn(w, lost) ==
  /\ pc[w] = "rereading" /\ mode # "down"
  /\ \/ ~lost /\ Take(w, FirstFew(Own)) /\ NoFault
     \/ lost /\ Take(w, {}) /\ Fault("read", {})
  /\ UNCHANGED <<streamVars, processVars, tableVars, succeeded, dead>>

-----------------------------------------------------------------------------
(* processMessage derives the context of the task; after Stop it has ended *)
(* before the task begins.                                                 *)
Begin(w) ==
  /\ pc[w] = "next" /\ mode # "down"
  /\ pc' = [pc EXCEPT ![w] = IF mode = "up" THEN "exec" ELSE "cancelled"]
  /\ UNCHANGED <<streamVars, processVars, batch, tableVars, historyVars>>

(* CreateAndStoreIndexedDocument and the select around it.  Any call may   *)
(* fail or take too long; a COMMIT may be done and count as failed.        *)
Exec(w, outcome) ==
  /\ mode # "down"
  /\ \/ /\ outcome = "ok" /\ pc[w] = "exec"
        /\ Insertable(Msg(w)) /\ Inserted(Msg(w))
        /\ pc' = [pc EXCEPT ![w] = "done"]
     \/ /\ outcome = "late" /\ pc[w] = "exec"
        /\ Insertable(Msg(w)) /\ Inserted(Msg(w))
        /\ pc' = [pc EXCEPT ![w] = "failed"]
     \/ /\ outcome = "error" /\ pc[w] \in {"exec", "cancelled"}
        /\ pc' = [pc EXCEPT ![w] = "failed"]
        /\ UNCHANGED tableVars
  /\ UNCHANGED <<streamVars, processVars, batch, historyVars>>

(* CompleteMessage: XACK, for the group, whoever the entry was given to    *)
(* and whether it was acknowledged before.                                 *)
AckedNothing(e) == pending

Acked(e) == {p \in pending : p[2] # e}

AckSuccess(w) ==
  /\ pc[w] = "done"
  /\ pending' = Acked(Current(w))
  /\ succeeded' = succeeded \union {Msg(w)}
  /\ GoOn(w)
  /\ UNCHANGED <<stream, delivered, processVars, tableVars, dead, touched, budget>>

(* A failure: one more retry, after a sleep, unless it was the last one.   *)
GivesUpEarly(retries) == retries >= 0

GivesUp(retries) == ~(retries + 1 <= MAX_RETRIES)

AckFailure(w) ==
  /\ pc[w] = "failed"
  /\ pending' = Acked(Current(w))
  /\ \/ /\ GivesUp(Retries(w))
        /\ dead' = dead \union {Msg(w)}
        /\ GoOn(w)
     \/ /\ ~GivesUp(Retries(w))
        /\ pc' = [pc EXCEPT ![w] = "readd"]
        /\ UNCHANGED <<batch, dead>>
  /\ UNCHANGED <<stream, delivered, processVars, tableVars, succeeded, touched, budget>>

(* When XACK reports an error, done or not, CompleteMessage returns it and *)
(* the goroutine goes on.                                                  *)
AckFails(w, done) ==
  /\ pc[w] \in {"done", "failed"}
  /\ Fault("ack", {Msg(w)})
  /\ pending' = IF done THEN Acked(Current(w)) ELSE pending
  /\ GoOn(w)
  /\ UNCHANGED <<stream, delivered, processVars, tableVars, succeeded, dead>>

(* XADD of the message with its new RetryCount.                            *)
Readded(w) == Append(stream, [msg |-> Msg(w), retries |-> Retries(w) + 1])

Readd(w, added) ==
  /\ pc[w] = "readd"
  /\ \/ added /\ stream' = Readded(w) /\ NoFault
     \/ ~added /\ Fault("add", {Msg(w)}) /\ stream' \in {stream, Readded(w)}
  /\ GoOn(w)
  /\ UNCHANGED <<delivered, pending, processVars, tableVars, succeeded, dead>>

-----------------------------------------------------------------------------
Stop ==
  /\ mode = "up" /\ budget.stop > 0
  /\ budget' = [budget EXCEPT !.stop = @ - 1]
  /\ mode' = "stopping"
  /\ UNCHANGED <<streamVars, process, pc, batch, tableVars, succeeded, dead, touched>>

Shutdown ==
  /\ mode = "stopping"
  /\ \A w \in Procs : pc[w] = "exited"
  /\ mode' = "down"
  /\ UNCHANGED <<streamVars, process, pc, batch, tableVars, historyVars>>

Crash ==
  /\ mode # "down"
  /\ Fault("crash", {stream[e].msg : e \in UNION {batch[w] : w \in Procs}})
  /\ mode' = "down"
  /\ pc' = [w \in Procs |-> "exited"]
  /\ batch' = [w \in Procs |-> {}]
  /\ UNCHANGED <<streamVars, process, tableVars, succeeded, dead>>

(* NewWorker draws a new worker ID.                                        *)
Restart ==
  /\ mode = "down"
  /\ mode' = "up" /\ process' = process + 1
  /\ pc' = [w \in Procs |-> "reading"]
  /\ UNCHANGED <<streamVars, batch, tableVars, historyVars>>

-----------------------------------------------------------------------------
GetMsg(w) == \/ \E lost \in BOOLEAN : ReadNew(w, lost) \/ ReadOwn(w, lost)
             \/ NothingNew(w)

ProcessMessage(w) ==
  \/ Begin(w)
  \/ \E outcome \in {"ok", "late", "error"} : Exec(w, outcome)
  \/ AckSuccess(w) \/ AckFailure(w)
  \/ \E done \in BOOLEAN : AckFails(w, done)
  \/ \E added \in BOOLEAN : Readd(w, added)

Next ==
  \/ \E m \in Msgs : AddMsg(m)
  \/ \E w \in Procs : GetMsg(w) \/ ProcessMessage(w)
  \/ Stop \/ Shutdown \/ Crash \/ Restart

Spec == Init /\ [][Next]_vars

(* The goroutines go on and every call ends; a stopped process is started  *)
(* again.                                                                  *)
Fairness == /\ \A w \in Procs : WF_vars(GetMsg(w)) /\ WF_vars(ProcessMessage(w))
            /\ WF_vars(Shutdown) /\ WF_vars(Restart)

FairSpec == Spec /\ Fairness

-----------------------------------------------------------------------------
Untouched(m, events) == touched[m] \cap events = {}

(* A published message is always on its way or has ended: it waits in the  *)
(* stream, its entry is pending with the consumer of the running process,  *)
(* a goroutine sleeps before it adds the message again, or it was logged   *)
(* as done or dead.  A clean stop and a new process never lose it.         *)
NoMsgLost ==
  \A m \in Published :
    Untouched(m, Events)
      => \/ m \in succeeded \union dead
         \/ \E e \in Undelivered \union Own : stream[e].msg = m
         \/ \E w \in Procs : pc[w] = "readd" /\ Msg(w) = m

(* An entry that is not acknowledged is in the hands of a goroutine of the *)
(* running process.  So without a failure the second read of GetMsg never  *)
(* recovers anything: whatever it returns, another goroutine is working on *)
(* as well.  And a clean stop leaves nothing pending behind.               *)
PendingIsHeld ==
  \A p \in pending :
    Untouched(stream[p[2]].msg, Events)
      => p[1] = process /\ \E w \in Procs : p[2] \in batch[w]

(* Entries that several goroutines read are processed, and added again, by *)
(* each of them: the copies of a message multiply with every retry.  They  *)
(* cannot multiply faster than by the number of goroutines, whatever calls *)
(* fail and however often the indexer is started again.                    *)
Copies(m, r) == {e \in Entries : stream[e] = [msg |-> m, retries |-> r]}

CopiesBounded ==
  \A m \in Msgs :
    /\ Cardinality(Copies(m, 0)) <= 1
    /\ \A r \in 1..MAX_RETRIES :
         Cardinality(Copies(m, r))
           <= Cardinality(Procs) * Cardinality(Copies(m, r - 1))

(* A message is declared dead only after each of its retries was tried:    *)
(* the stream holds an entry of it for every count.                        *)
DeadWasRetried ==
  \A m \in dead, r \in 0..MAX_RETRIES : [msg |-> m, retries |-> r] \in
    {stream[e] : e \in Entries}

(* Every published message ends, even when the reply to a read was lost:   *)
(* the goroutines find its entry when they read their own.                 *)
Settles ==
  \A m \in Msgs :
    m \in Published ~> \/ m \in succeeded \union dead
                       \/ ~Untouched(m, {"ack", "add", "crash"})
                       \/ ~Untouched(m, {"read"}) /\ process > 1

(* GetMsg: "if still empty -> try autoclaim" (stream.go:102).  It never    *)
(* does: an entry that a process left pending when it ended stays pending, *)
(* whatever later processes read, acknowledge or add.                      *)
StrandedStays ==
  [][\A p \in pending : p[1] # process => p \in pending']_vars
=============================================================================
