----------------------------- MODULE RateLimiter -----------------------------
(***************************************************************************)
(* The per-domain rate limit of the crawler: reserveDomainAccess in        *)
(* internal/scraper/crawler/processes.go and the Lua script it runs in     *)
(* internal/scraper/scripts/rateLimter.go, seen from the jobs whose runs   *)
(* call it.  A job that is told to wait runs again, at its time, earlier   *)
(* or later: RequeueWithDelay rounds the time down to a second, the retry  *)
(* ticker looks every ten, and CompleteJob adds a copy with a time of its  *)
(* own.                                                                    *)
(*                                                                         *)
(* The script is one atomic step of Redis.  What is not atomic is that the *)
(* caller reads its clock BEFORE the script runs, so scripts may run in    *)
(* another order than their stamps.  Times are milliseconds.  The wait     *)
(* comes back as a time.Duration, a signed number of nanoseconds: what     *)
(* does not fit in 64 bits wraps around.                                   *)
(***************************************************************************)
EXTENDS Integers

CONSTANTS
  Domains,       \* host names: the script has one key for each
  Requests,      \* jobs that may be inside reserveDomainAccess; one that is let through
                 \* gives its place to another of the same domain
  DomainOf,      \* [Requests -> Domains]
  CrawlDelays,   \* what robots.txt may ask for, 0 when the cached record has none
  MinDelay,      \* processes.go: 5 seconds
  ArgPerMs,      \* what go-redis writes for a millisecond of a time.Duration
  NsPerMs,       \* time.Millisecond: a million nanoseconds
  DurationRange, \* how many values a time.Duration has: 2^64
  MaxLag,        \* most time between the clock read and the script
  MaxTime,       \* bound: the clock stops here
  MaxSlot,       \* bound: no script runs that would give out a later slot
  Never          \* the key has not been set

ASSUME DelayAssumption == /\ CrawlDelays \subseteq Nat
                          /\ MinDelay \in Nat \ {0}
                          /\ ArgPerMs \in Nat \ {0}
                          /\ NsPerMs \in Nat \ {0}
                          /\ DurationRange \in Nat \ {0}
                          /\ MaxLag \in Nat
                          /\ MaxTime \in Nat
                          /\ MaxSlot \in Nat
ASSUME DomainAssumption == DomainOf \in [Requests -> Domains]
ASSUME NeverAssumption == Never \notin Int

VARIABLES
  now,          \* the clock of the machine
  nextAllowed,  \* [Domains -> Nat or Never]: the key "ratelimit:<domain>", which never expires
  call,         \* [Requests -> Calls]: idle, or with a stamp and a delay in hand
  promise,      \* history: the slot each request was told to wait for
  slot,         \* history: the start of the last slot given out in each domain
  slotDelay,    \* history: the delay, as sent, of the call that got it
  granted       \* history: when the script last let a call of the domain through

vars == <<now, nextAllowed, call, promise, slot, slotDelay, granted>>

Idle == [stage |-> "idle"]
Clocked(stamp, delay) == [stage |-> "clocked", stamp |-> stamp, delay |-> delay]

Calls == {Idle} \union [stage : {"clocked"}, stamp : Nat, delay : Nat]

TypeOK ==
  /\ now \in Nat
  /\ nextAllowed \in [Domains -> Nat \union {Never}]
  /\ call \in [Requests -> Calls]
  /\ promise \in [Requests -> Nat \union {Never}]
  /\ slot \in [Domains -> Nat \union {Never}]
  /\ slotDelay \in [Domains -> Nat]
  /\ granted \in [Domains -> Nat \union {Never}]

Init ==
  /\ now = 0
  /\ nextAllowed = [d \in Domains |-> Never]
  /\ call = [r \in Requests |-> Idle]
  /\ promise = [r \in Requests |-> Never]
  /\ slot = [d \in Domains |-> Never]
  /\ slotDelay = [d \in Domains |-> 0]
  /\ granted = [d \in Domains |-> Never]

-----------------------------------------------------------------------------
(* max(meta.CrawlDelay, 5*time.Second)                                     *)
DelayUnclamped(crawlDelay) == crawlDelay

Delay(crawlDelay) == IF crawlDelay > MinDelay THEN crawlDelay ELSE MinDelay

(* The second argument of the script is a time.Duration, which go-redis    *)
(* writes as its number of nanoseconds; the first is a number of           *)
(* milliseconds, and the script adds the two.                              *)
DurationArg(delay) == delay * ArgPerMs

(* The slot the script gives a call: the next free one, but not one that   *)
(* has passed.                                                             *)
SlotUnclamped(d, stamp) == IF nextAllowed[d] = Never THEN stamp ELSE nextAllowed[d]

Slot(d, stamp) ==
  IF nextAllowed[d] = Never \/ nextAllowed[d] < stamp THEN stamp ELSE nextAllowed[d]

Wait(d, stamp) == Slot(d, stamp) - stamp

(* time.Duration(wait) * time.Millisecond                                  *)
AsDuration(ms) ==
  LET ns == (ms * NsPerMs) % DurationRange
  IN IF ns < DurationRange \div 2 THEN ns ELSE ns - DurationRange

(* The wait is a time.Duration that says what the script said.             *)
Fits(d, stamp) == AsDuration(Wait(d, stamp)) = Wait(d, stamp) * NsPerMs

(* FetchAndStoreRaw goes on unless the wait is positive; if it is, it      *)
(* returns ErrRateLimited with the wait, and the job runs again.           *)
LetsThrough(d, stamp) == ~(AsDuration(Wait(d, stamp)) > 0)

(* local newNext = nextAllowed + delay, whether the call has to wait or    *)
(* not.                                                                    *)
NextAfterFromStamp(d, stamp, delay) == stamp + delay

NextAfterIfLetThrough(d, stamp, delay) ==
  IF LetsThrough(d, stamp) THEN Slot(d, stamp) + delay ELSE nextAllowed[d]

NextAfter(d, stamp, delay) == Slot(d, stamp) + delay

-----------------------------------------------------------------------------
ReadClock(r) ==
  /\ call[r] = Idle
  /\ \E crawlDelay \in CrawlDelays :
       call' = [call EXCEPT ![r] = Clocked(now, DurationArg(Delay(crawlDelay)))]
  /\ UNCHANGED <<now, nextAllowed, promise, slot, slotDelay, granted>>

RunScript(r) ==
  LET d == DomainOf[r]
      stamp == call[r].stamp
      delay == call[r].delay
  IN /\ call[r] # Idle
     /\ Slot(d, stamp) <= MaxSlot
     /\ call' = [call EXCEPT ![r] = Idle]
     /\ nextAllowed' = [nextAllowed EXCEPT ![d] = NextAfter(d, stamp, delay)]
     /\ slot' = [slot EXCEPT ![d] = Slot(d, stamp)]
     /\ slotDelay' = [slotDelay EXCEPT ![d] = delay]
     /\ \/ /\ LetsThrough(d, stamp)
           /\ granted' = [granted EXCEPT ![d] = now]
           /\ promise' = [promise EXCEPT ![r] = Never]
        \/ /\ ~LetsThrough(d, stamp)
           /\ promise' = [promise EXCEPT ![r] =
                            IF Fits(d, stamp) THEN stamp + Wait(d, stamp) ELSE Never]
           /\ UNCHANGED granted
     /\ UNCHANGED now

(* The call fails: its context has ended, or Redis could not be reached.   *)
Fail(r) ==
  /\ call[r] # Idle
  /\ call' = [call EXCEPT ![r] = Idle]
  /\ UNCHANGED <<now, nextAllowed, promise, slot, slotDelay, granted>>

Tick ==
  /\ now < MaxTime
  /\ \A r \in Requests : call[r] # Idle => now - call[r].stamp < MaxLag
  /\ now' = now + 1
  /\ UNCHANGED <<nextAllowed, call, promise, slot, slotDelay, granted>>

Next ==
  \/ Tick
  \/ \E r \in Requests : ReadClock(r) \/ RunScript(r) \/ Fail(r)

Spec == Init /\ [][Next]_vars

-----------------------------------------------------------------------------
(* Politeness.  Two requests that a domain lets through are sent at least  *)
(* the minimum delay (as sent to Redis) apart in real time, but for the    *)
(* time a caller may take between its clock and the script: whatever the   *)
(* number of goroutines, the order their scripts run in and the number of  *)
(* rejected calls in between, as long as the wait fits in a time.Duration. *)
GrantSpacing ==
  [][\A r \in Requests :
       /\ RunScript(r)
       /\ LetsThrough(DomainOf[r], call[r].stamp)
       /\ Fits(DomainOf[r], call[r].stamp)
       /\ granted[DomainOf[r]] # Never
       => now - granted[DomainOf[r]] >= DurationArg(MinDelay) - MaxLag]_vars

(* Slots of one domain do not overlap: each starts no earlier than the end *)
(* of the one before, which lasts as long as the call that got it asked    *)
(* for, even when robots.txt changes its delay in between.                 *)
SlotsDisjoint ==
  [][\A r \in Requests :
       LET d == DomainOf[r] IN
       call[r] # Idle /\ nextAllowed'[d] # nextAllowed[d] /\ slot[d] # Never
         => slot'[d] >= slot[d] + slotDelay[d]]_vars

(* A rejected call uses up the slot it is told to wait for: the job is     *)
(* rejected again when it comes back at that time, and until a whole       *)
(* further delay has gone by, whoever else called meanwhile, unless by     *)
(* then the wait no longer fits.                                           *)
PromiseNotKept ==
  \A r \in Requests :
    /\ call[r] # Idle /\ promise[r] # Never
    /\ call[r].stamp < promise[r] + DurationArg(MinDelay)
    /\ Fits(DomainOf[r], call[r].stamp)
    => ~LetsThrough(DomainOf[r], call[r].stamp)

(* "Rate limiting per domain" (README.md:106): whatever the number of      *)
(* calls, two that a domain lets through are five real seconds apart, but  *)
(* for the lag.  FALSE of the code: every rejected call takes a slot too,  *)
(* and once the backlog of a domain no longer fits in a time.Duration the  *)
(* wait comes back negative and FetchAndStoreRaw goes on at once.          *)
RateLimited ==
  [][\A r \in Requests :
       /\ RunScript(r)
       /\ LetsThrough(DomainOf[r], call[r].stamp)
       /\ granted[DomainOf[r]] # Never
       => now - granted[DomainOf[r]] >= MinDelay - MaxLag]_vars
=============================================================================
