-------------------------- MODULE RateLimiterProofs --------------------------
(***************************************************************************)
(* What RateLimiter promises, for any number of domains and requests, any  *)
(* delays and any lag between a clock read and its script.                 *)
(***************************************************************************)
EXTENDS RateLimiter, TLAPS

Gap == DurationArg(MinDelay)

(* A call in flight was stamped at most MaxLag ago and asks for at least   *)
(* the minimum delay.                                                      *)
CallsRecent ==
  \A r \in Requests :
    call[r] # Idle => /\ call[r].stamp <= now
                      /\ now <= call[r].stamp + MaxLag
                      /\ call[r].delay >= Gap

(* The key holds the end of the last slot given out.                       *)
NextIsEndOfSlot ==
  \A d \in Domains :
    /\ nextAllowed[d] = Never <=> slot[d] = Never
    /\ slot[d] # Never => /\ nextAllowed[d] = slot[d] + slotDelay[d]
                          /\ slotDelay[d] >= Gap

(* A call was let through in the last slot or in an earlier one.           *)
GrantedInSlot ==
  \A d \in Domains :
    granted[d] # Never => slot[d] # Never /\ granted[d] <= slot[d] + MaxLag

(* The end of a promised slot is not after the next free one.              *)
PromisesPassed ==
  \A r \in Requests :
    promise[r] # Never => /\ slot[DomainOf[r]] # Never
                          /\ promise[r] + Gap <= nextAllowed[DomainOf[r]]

IInv == TypeOK /\ CallsRecent /\ NextIsEndOfSlot /\ GrantedInSlot /\ PromisesPassed

-----------------------------------------------------------------------------
(* DurationArg keeps the order of delays, and no delay is sent as zero.    *)
LEMMA DurationMonotone ==
  ASSUME NEW a \in Nat, NEW b \in Nat, a >= b
  PROVE  DurationArg(a) \in Nat /\ DurationArg(a) >= DurationArg(b)
<1>1. ArgPerMs \in Nat
  BY DelayAssumption
<1>2. \A x, y, k \in Nat : x >= y => x * k >= y * k /\ x * k \in Nat
  <2>1. SUFFICES ASSUME NEW x \in Nat, NEW y \in Nat, NEW k \in Nat, x >= y
                 PROVE  x * k >= y * k /\ x * k \in Nat
    OBVIOUS
  <2>2. x - y \in Nat /\ (x - y) * k \in Nat /\ x * k \in Nat /\ y * k \in Nat
    BY <2>1
  <2>3. x * k = y * k + (x - y) * k
    BY <2>2
  <2> QED BY <2>2, <2>3
<1> QED BY <1>1, <1>2 DEF DurationArg

(* What max(meta.CrawlDelay, 5s), as sent, is worth.                       *)
LEMMA DelayAtLeastGap ==
  ASSUME NEW crawlDelay \in CrawlDelays
  PROVE  /\ DurationArg(Delay(crawlDelay)) \in Nat
         /\ DurationArg(Delay(crawlDelay)) >= Gap
<1>1. Delay(crawlDelay) \in Nat /\ MinDelay \in Nat /\ Delay(crawlDelay) >= MinDelay
  BY DelayAssumption DEF Delay
<1> QED BY <1>1, DurationMonotone DEF Gap

LEMMA GapIsNat == Gap \in Nat
BY DurationMonotone, DelayAssumption DEF Gap

(* A positive number of milliseconds is a positive number of nanoseconds.  *)
LEMMA NoProductIsZero ==
  ASSUME NEW w \in Nat, ~(w * NsPerMs > 0)
  PROVE  w = 0
<1>1. \A x \in Nat, k \in Nat \ {0} : x # 0 => x * k > 0
  OBVIOUS
<1> QED BY <1>1, DelayAssumption

(* A slot starts at the stamp or at the next free slot, whichever is       *)
(* later.                                                                  *)
LEMMA SlotIsLater ==
  ASSUME TypeOK, NEW d \in Domains, NEW stamp \in Nat
  PROVE  /\ Slot(d, stamp) \in Nat
         /\ Slot(d, stamp) >= stamp
         /\ nextAllowed[d] # Never => /\ nextAllowed[d] \in Nat
                                      /\ Slot(d, stamp) >= nextAllowed[d]
         /\ LetsThrough(d, stamp) /\ Fits(d, stamp) => Slot(d, stamp) = stamp
<1>1. /\ Slot(d, stamp) \in Nat
      /\ Slot(d, stamp) >= stamp
      /\ nextAllowed[d] # Never => /\ nextAllowed[d] \in Nat
                                   /\ Slot(d, stamp) >= nextAllowed[d]
  BY NeverAssumption DEF TypeOK, Slot
<1>2. ASSUME LetsThrough(d, stamp), Fits(d, stamp)
      PROVE  Slot(d, stamp) = stamp
  <2>1. Wait(d, stamp) \in Nat
    BY <1>1 DEF Wait
  <2>2. ~(Wait(d, stamp) * NsPerMs > 0)
    BY <1>2 DEF LetsThrough, Fits
  <2>3. Wait(d, stamp) = 0
    BY <2>1, <2>2, NoProductIsZero
  <2> QED BY <2>3, <1>1 DEF Wait
<1> QED BY <1>1, <1>2

-----------------------------------------------------------------------------
LEMMA InitIInv == Init => IInv
BY DomainAssumption DEF Init, IInv, TypeOK, Calls, CallsRecent, NextIsEndOfSlot,
   GrantedInSlot, PromisesPassed

LEMMA ReadClockIInv ==
  ASSUME IInv, NEW r \in Requests, ReadClock(r)
  PROVE  IInv'
<1>1. PICK crawlDelay \in CrawlDelays :
        call' = [call EXCEPT ![r] = Clocked(now, DurationArg(Delay(crawlDelay)))]
  BY DEF ReadClock
<1>2. DurationArg(Delay(crawlDelay)) \in Nat /\ DurationArg(Delay(crawlDelay)) >= Gap
  BY DelayAtLeastGap
<1> DEFINE new == Clocked(now, DurationArg(Delay(crawlDelay)))
<1>3. new \in Calls /\ new.stamp = now /\ new.delay >= Gap
  BY <1>2 DEF IInv, TypeOK, Clocked, Calls
<1> HIDE DEF new
<1>4. UNCHANGED <<now, nextAllowed, promise, slot, slotDelay, granted>>
  BY DEF ReadClock
<1>5. TypeOK'
  BY <1>1, <1>3, <1>4 DEF IInv, TypeOK, new
<1>6. CallsRecent'
  <2>1. SUFFICES ASSUME NEW q \in Requests, call'[q] # Idle
                 PROVE  /\ call'[q].stamp <= now
                        /\ now <= call'[q].stamp + MaxLag
                        /\ call'[q].delay >= Gap
    BY <1>4 DEF CallsRecent, Gap
  <2>2. CASE q = r
    <3>1. call'[q] = new
      BY <1>1, <2>2 DEF IInv, TypeOK, new
    <3> QED BY <3>1, <1>3, DelayAssumption DEF IInv, TypeOK
  <2>3. CASE q # r
    BY <1>1, <2>1, <2>3 DEF IInv, TypeOK, CallsRecent
  <2> QED BY <2>2, <2>3
<1>7. NextIsEndOfSlot' /\ GrantedInSlot' /\ PromisesPassed'
  BY <1>4 DEF IInv, NextIsEndOfSlot, GrantedInSlot, PromisesPassed, Gap
<1> QED BY <1>5, <1>6, <1>7 DEF IInv

(* What the script does to the bookkeeping of its domain.                  *)
LEMMA RunScriptFacts ==
  ASSUME IInv, NEW r \in Requests, RunScript(r)
  PROVE  LET d == DomainOf[r]
             s == Slot(d, call[r].stamp)
         IN /\ d \in Domains
            /\ call[r].stamp \in Nat /\ call[r].delay \in Nat
            /\ call[r].stamp <= now /\ now <= call[r].stamp + MaxLag
            /\ call[r].delay >= Gap
            /\ s \in Nat /\ s >= call[r].stamp
            /\ slot[d] # Never => /\ slot[d] \in Nat
                                  /\ nextAllowed[d] \in Nat
                                  /\ slotDelay[d] \in Nat
                                  /\ nextAllowed[d] = slot[d] + slotDelay[d]
                                  /\ slotDelay[d] >= Gap
                                  /\ s >= nextAllowed[d]
            /\ nextAllowed' = [nextAllowed EXCEPT ![d] = s + call[r].delay]
            /\ slot' = [slot EXCEPT ![d] = s]
            /\ slotDelay' = [slotDelay EXCEPT ![d] = call[r].delay]
            /\ now' = now
            /\ call' = [call EXCEPT ![r] = Idle]
            /\ promise' \in {[promise EXCEPT ![r] = Never], [promise EXCEPT ![r] = s]}
            /\ granted' \in {[granted EXCEPT ![d] = now], granted}
<1> DEFINE d == DomainOf[r]
           stamp == call[r].stamp
           s == Slot(d, stamp)
<1>1. d \in Domains
  BY DomainAssumption
<1>2. call[r] \in Calls /\ call[r] # Idle
  BY DEF IInv, TypeOK, RunScript
<1>3. stamp \in Nat /\ call[r].delay \in Nat
  BY <1>2 DEF Calls
<1>4. stamp <= now /\ now <= stamp + MaxLag /\ call[r].delay >= Gap
  BY <1>2 DEF IInv, CallsRecent
<1>5. /\ s \in Nat /\ s >= stamp
      /\ nextAllowed[d] # Never => nextAllowed[d] \in Nat /\ s >= nextAllowed[d]
  BY <1>1, <1>3, SlotIsLater DEF IInv
<1>6. slot[d] # Never => /\ slot[d] \in Nat /\ slotDelay[d] \in Nat
                         /\ nextAllowed[d] # Never
                         /\ nextAllowed[d] = slot[d] + slotDelay[d]
                         /\ slotDelay[d] >= Gap
  BY <1>1 DEF IInv, TypeOK, NextIsEndOfSlot
<1>7. stamp + Wait(d, stamp) = s
  BY <1>3, <1>5 DEF Wait
<1>8. /\ nextAllowed' = [nextAllowed EXCEPT ![d] = s + call[r].delay]
      /\ slot' = [slot EXCEPT ![d] = s]
      /\ slotDelay' = [slotDelay EXCEPT ![d] = call[r].delay]
      /\ now' = now
      /\ call' = [call EXCEPT ![r] = Idle]
  BY DEF RunScript, NextAfter
<1>9. /\ promise' \in {[promise EXCEPT ![r] = Never], [promise EXCEPT ![r] = s]}
      /\ granted' \in {[granted EXCEPT ![d] = now], granted}
  <2>1. CASE LetsThrough(d, stamp)
    BY <2>1 DEF RunScript
  <2>2. CASE ~LetsThrough(d, stamp)
    <3>1. granted' = granted
      BY <2>2 DEF RunScript
    <3>2. promise' = [promise EXCEPT ![r] = IF Fits(d, stamp) THEN s ELSE Never]
      BY <2>2, <1>7 DEF RunScript
    <3> QED BY <3>1, <3>2
  <2> QED BY <2>1, <2>2
<1> QED BY <1>1, <1>3, <1>4, <1>5, <1>6, <1>8, <1>9

LEMMA RunScriptIInv ==
  ASSUME IInv, NEW r \in Requests, RunScript(r)
  PROVE  IInv'
<1> DEFINE dom == DomainOf[r]
           s == Slot(dom, call[r].stamp)
           len == call[r].delay
<1>1. /\ dom \in Domains /\ s \in Nat /\ len \in Nat /\ len >= Gap
      /\ call[r].stamp \in Nat /\ now <= call[r].stamp + MaxLag /\ s >= call[r].stamp
      /\ slot[dom] # Never => /\ slot[dom] \in Nat /\ nextAllowed[dom] \in Nat
                              /\ slotDelay[dom] \in Nat
                              /\ nextAllowed[dom] = slot[dom] + slotDelay[dom]
                              /\ s >= nextAllowed[dom]
  BY RunScriptFacts
<1>2. /\ nextAllowed' = [nextAllowed EXCEPT ![dom] = s + len]
      /\ slot' = [slot EXCEPT ![dom] = s]
      /\ slotDelay' = [slotDelay EXCEPT ![dom] = len]
      /\ now' = now
      /\ call' = [call EXCEPT ![r] = Idle]
  BY RunScriptFacts
<1>3. /\ promise' \in {[promise EXCEPT ![r] = Never], [promise EXCEPT ![r] = s]}
      /\ granted' \in {[granted EXCEPT ![dom] = now], granted}
  BY RunScriptFacts
<1> HIDE DEF dom, s, len
<1>4. MaxLag \in Nat /\ Gap \in Nat /\ Never \notin Int
  BY DelayAssumption, GapIsNat, NeverAssumption
<1>5. TypeOK'
  <2>1. nextAllowed' \in [Domains -> Nat \union {Never}]
    BY <1>1, <1>2 DEF IInv, TypeOK
  <2>2. slot' \in [Domains -> Nat \union {Never}] /\ slotDelay' \in [Domains -> Nat]
    BY <1>1, <1>2 DEF IInv, TypeOK
  <2>3. call' \in [Requests -> Calls] /\ now' \in Nat
    BY <1>2 DEF IInv, TypeOK, Calls
  <2>4. promise' \in [Requests -> Nat \union {Never}]
    BY <1>1, <1>3 DEF IInv, TypeOK
  <2>5. granted' \in [Domains -> Nat \union {Never}]
    BY <1>3 DEF IInv, TypeOK
  <2> QED BY <2>1, <2>2, <2>3, <2>4, <2>5 DEF TypeOK
<1>6. CallsRecent'
  BY <1>2 DEF IInv, TypeOK, CallsRecent, Gap
<1>7. NextIsEndOfSlot'
  <2>1. SUFFICES ASSUME NEW d \in Domains
                 PROVE  /\ nextAllowed'[d] = Never <=> slot'[d] = Never
                        /\ slot'[d] # Never => /\ nextAllowed'[d] = slot'[d] + slotDelay'[d]
                                               /\ slotDelay'[d] >= Gap
    BY DEF NextIsEndOfSlot, Gap
  <2>2. CASE d = dom
    <3>1. nextAllowed'[d] = s + len /\ slot'[d] = s /\ slotDelay'[d] = len
      BY <1>1, <1>2, <2>2 DEF IInv, TypeOK
    <3> QED BY <3>1, <1>1, <1>4
  <2>3. CASE d # dom
    BY <1>2, <2>3 DEF IInv, TypeOK, NextIsEndOfSlot
  <2> QED BY <2>2, <2>3
<1>8. GrantedInSlot'
  <2>1. SUFFICES ASSUME NEW d \in Domains, granted'[d] # Never
                 PROVE  slot'[d] # Never /\ granted'[d] <= slot'[d] + MaxLag
    BY DEF GrantedInSlot
  <2>2. CASE d = dom
    <3>1. slot'[d] = s /\ s # Never
      BY <1>1, <1>2, <1>4, <2>2 DEF IInv, TypeOK
    <3>2. CASE granted' = [granted EXCEPT ![dom] = now]
      <4>1. granted'[d] = now /\ now \in Nat
        BY <3>2, <2>2 DEF IInv, TypeOK
      <4>2. now <= s + MaxLag
        BY <4>1, <1>1, <1>4
      <4> QED BY <4>1, <4>2, <3>1
    <3>3. CASE granted' = granted
      <4>1. granted[d] # Never /\ granted[d] \in Nat
        BY <2>1, <3>3 DEF IInv, TypeOK
      <4>2. slot[d] # Never /\ granted[d] <= slot[d] + MaxLag
        BY <4>1 DEF IInv, GrantedInSlot
      <4>3. slot[d] <= s
        BY <1>1, <2>2, <4>2
      <4> QED BY <4>1, <4>2, <4>3, <3>1, <3>3, <1>1, <1>4, <2>2
    <3> QED BY <1>3, <3>2, <3>3
  <2>3. CASE d # dom
    <3>1. granted'[d] = granted[d] /\ slot'[d] = slot[d]
      BY <1>2, <1>3, <2>3 DEF IInv, TypeOK
    <3> QED BY <3>1, <2>1 DEF IInv, GrantedInSlot
  <2> QED BY <2>2, <2>3
<1>9. PromisesPassed'
  <2>1. SUFFICES ASSUME NEW q \in Requests, promise'[q] # Never
                 PROVE  /\ slot'[DomainOf[q]] # Never
                        /\ promise'[q] + Gap <= nextAllowed'[DomainOf[q]]
    BY DEF PromisesPassed, Gap
  <2>2. DomainOf[q] \in Domains
    BY DomainAssumption
  <2>3. CASE DomainOf[q] = dom
    <3>1. slot'[dom] = s /\ nextAllowed'[dom] = s + len /\ s # Never
      BY <1>1, <1>2, <1>4 DEF IInv, TypeOK
    <3>2. CASE q = r
      <4>1. promise'[q] = s
        BY <1>3, <2>1, <3>2 DEF IInv, TypeOK
      <4> QED BY <4>1, <3>1, <2>3, <1>1, <1>4
    <3>3. CASE q # r
      <4>1. promise'[q] = promise[q] /\ promise[q] \in Nat
        BY <1>3, <2>1, <3>3 DEF IInv, TypeOK
      <4>2. slot[dom] # Never /\ promise[q] + Gap <= nextAllowed[dom]
        BY <4>1, <2>1, <2>3 DEF IInv, PromisesPassed
      <4> QED BY <4>1, <4>2, <3>1, <2>3, <1>1, <1>4
    <3> QED BY <3>2, <3>3
  <2>4. CASE DomainOf[q] # dom
    <3>1. q # r
      BY <2>4 DEF dom
    <3>2. promise'[q] = promise[q]
      BY <1>3, <3>1 DEF IInv, TypeOK
    <3>3. slot'[DomainOf[q]] = slot[DomainOf[q]]
          /\ nextAllowed'[DomainOf[q]] = nextAllowed[DomainOf[q]]
      BY <1>2, <2>2, <2>4 DEF IInv, TypeOK
    <3> QED BY <3>2, <3>3, <2>1 DEF IInv, PromisesPassed
  <2> QED BY <2>3, <2>4
<1> QED BY <1>5, <1>6, <1>7, <1>8, <1>9 DEF IInv

LEMMA FailIInv ==
  ASSUME IInv, NEW r \in Requests, Fail(r)
  PROVE  IInv'
<1>1. TypeOK' /\ CallsRecent'
  BY DEF IInv, Fail, TypeOK, Calls, CallsRecent, Gap
<1> QED
  BY <1>1 DEF IInv, Fail, NextIsEndOfSlot, GrantedInSlot, PromisesPassed, Gap

LEMMA TickIInv ==
  ASSUME IInv, Tick
  PROVE  IInv'
<1>1. TypeOK'
  BY DEF IInv, Tick, TypeOK
<1>2. CallsRecent'
  <2>1. SUFFICES ASSUME NEW r \in Requests, call[r] # Idle
                 PROVE  /\ call[r].stamp <= now + 1
                        /\ now + 1 <= call[r].stamp + MaxLag
                        /\ call[r].delay >= Gap
    BY DEF Tick, CallsRecent, Gap
  <2>2. call[r].stamp \in Nat /\ now \in Nat /\ MaxLag \in Nat
    BY <2>1, DelayAssumption DEF IInv, TypeOK, Calls
  <2> QED BY <2>1, <2>2 DEF IInv, CallsRecent, Tick
<1> QED
  BY <1>1, <1>2 DEF IInv, Tick, NextIsEndOfSlot, GrantedInSlot, PromisesPassed, Gap

LEMMA NextIInv == IInv /\ [Next]_vars => IInv'
<1>1. SUFFICES ASSUME IInv, [Next]_vars PROVE IInv'
  OBVIOUS
<1>2. CASE Tick
  BY <1>1, <1>2, TickIInv
<1>3. CASE \E r \in Requests : ReadClock(r)
  BY <1>1, <1>3, ReadClockIInv
<1>4. CASE \E r \in Requests : RunScript(r)
  BY <1>1, <1>4, RunScriptIInv
<1>5. CASE \E r \in Requests : Fail(r)
  BY <1>1, <1>5, FailIInv
<1>6. CASE UNCHANGED vars
  BY <1>1, <1>6 DEF vars, IInv, TypeOK, CallsRecent, NextIsEndOfSlot, GrantedInSlot,
     PromisesPassed, Gap
<1> QED BY <1>1, <1>2, <1>3, <1>4, <1>5, <1>6 DEF Next

(* The inductive invariant: what the key, the calls in flight and the      *)
(* promises made have to do with each other.                               *)
THEOREM IInvHolds == Spec => []IInv
BY InitIInv, NextIInv, PTL DEF Spec

-----------------------------------------------------------------------------
(* Politeness of the crawler (reserveDomainAccess with the Lua script):    *)
(* grants of one domain are a minimum delay apart, less the lag.           *)
THEOREM GrantSpacingHolds == Spec => GrantSpacing
<1>1. IInv /\ [Next]_vars =>
        [\A r \in Requests :
           /\ RunScript(r)
           /\ LetsThrough(DomainOf[r], call[r].stamp)
           /\ Fits(DomainOf[r], call[r].stamp)
           /\ granted[DomainOf[r]] # Never
           => now - granted[DomainOf[r]] >= DurationArg(MinDelay) - MaxLag]_vars
  <2>1. SUFFICES ASSUME IInv, NEW r \in Requests, RunScript(r),
                        LetsThrough(DomainOf[r], call[r].stamp),
                        Fits(DomainOf[r], call[r].stamp),
                        granted[DomainOf[r]] # Never
                 PROVE  now - granted[DomainOf[r]] >= Gap - MaxLag
    BY DEF Gap
  <2> DEFINE d == DomainOf[r]
  <2>2. d \in Domains
    BY DomainAssumption
  <2>3. /\ call[r].stamp \in Nat /\ call[r].stamp <= now
        /\ slot[d] # Never => /\ slot[d] \in Nat
                              /\ slotDelay[d] \in Nat
                              /\ slotDelay[d] >= Gap
                              /\ nextAllowed[d] = slot[d] + slotDelay[d]
                              /\ Slot(d, call[r].stamp) >= nextAllowed[d]
    BY <2>1, <2>2, RunScriptFacts
  <2>4. Slot(d, call[r].stamp) \in Nat /\ Slot(d, call[r].stamp) = call[r].stamp
    BY <2>1, <2>2, <2>3, SlotIsLater DEF IInv
  <2>5. slot[d] # Never /\ granted[d] \in Nat /\ granted[d] <= slot[d] + MaxLag
    BY <2>1, <2>2 DEF IInv, TypeOK, GrantedInSlot
  <2>6. now \in Nat /\ Gap \in Nat /\ MaxLag \in Nat
    BY <2>1, GapIsNat, DelayAssumption DEF IInv, TypeOK
  <2> HIDE DEF d
  <2>7. now - granted[d] >= Gap - MaxLag
    BY <2>3, <2>4, <2>5, <2>6
  <2> QED BY <2>7 DEF d
<1> QED BY <1>1, IInvHolds, PTL DEF Spec, GrantSpacing

(* The slots the script gives out in one domain never overlap.             *)
THEOREM SlotsDisjointHolds == Spec => SlotsDisjoint
<1>1. IInv /\ [Next]_vars =>
        [\A r \in Requests :
           LET d == DomainOf[r] IN
           call[r] # Idle /\ nextAllowed'[d] # nextAllowed[d] /\ slot[d] # Never
             => slot'[d] >= slot[d] + slotDelay[d]]_vars
  <2>1. SUFFICES ASSUME IInv, [Next]_vars, NEW q \in Requests,
                        nextAllowed'[DomainOf[q]] # nextAllowed[DomainOf[q]],
                        slot[DomainOf[q]] # Never
                 PROVE  slot'[DomainOf[q]] >= slot[DomainOf[q]] + slotDelay[DomainOf[q]]
    OBVIOUS
  <2>2. PICK r \in Requests : RunScript(r)
    BY <2>1 DEF Next, Tick, ReadClock, Fail, vars
  <2>3. DomainOf[q] = DomainOf[r]
    BY <2>1, <2>2, RunScriptFacts, DomainAssumption DEF IInv, TypeOK
  <2>4. slot'[DomainOf[q]] = Slot(DomainOf[r], call[r].stamp)
    BY <2>1, <2>2, <2>3, RunScriptFacts DEF IInv, TypeOK
  <2> QED BY <2>1, <2>2, <2>3, <2>4, RunScriptFacts
<1> QED BY <1>1, IInvHolds, PTL DEF Spec, SlotsDisjoint

(* A rejected job that keeps its appointment is rejected again.            *)
THEOREM PromiseNotKeptHolds == Spec => []PromiseNotKept
<1>1. IInv => PromiseNotKept
  <2>1. SUFFICES ASSUME IInv, NEW r \in Requests, call[r] # Idle, promise[r] # Never,
                        call[r].stamp < promise[r] + Gap,
                        Fits(DomainOf[r], call[r].stamp)
                 PROVE  ~LetsThrough(DomainOf[r], call[r].stamp)
    BY DEF PromiseNotKept, Gap
  <2>2. call[r].stamp \in Nat /\ promise[r] \in Nat /\ Gap \in Nat
    BY <2>1, GapIsNat DEF IInv, TypeOK, Calls
  <2>3. DomainOf[r] \in Domains
    BY DomainAssumption
  <2>4. /\ nextAllowed[DomainOf[r]] # Never
        /\ promise[r] + Gap <= nextAllowed[DomainOf[r]]
    BY <2>1, <2>3 DEF IInv, PromisesPassed, NextIsEndOfSlot
  <2> QED BY <2>1, <2>2, <2>3, <2>4, SlotIsLater DEF IInv
<1> QED BY <1>1, IInvHolds, PTL
=============================================================================
