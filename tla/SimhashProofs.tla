---------------------------- MODULE SimhashProofs ----------------------------
(***************************************************************************)
(* Looking only at the fingerprints that share a part is as good as        *)
(* looking at all of them, for any number of bits and any split of them    *)
(* into more parts than the distance asked for.                            *)
(***************************************************************************)
EXTENDS SimhashIndex, FiniteSetTheorems, TLAPS

(* Two fingerprints that agree on no part differ in a bit of every part.   *)
LEMMA DifferInEveryPart ==
  ASSUME NEW a \in Hashes, NEW b \in Hashes, NEW part \in Parts,
         PartitionHash(a, part) # PartitionHash(b, part)
  PROVE  \E bit \in Xor(a, b) : PartOf[bit] = part
BY DEF PartitionHash, Xor, Hashes

(* The pigeonhole argument of the bucket scheme: fewer differing bits than *)
(* parts leave one part without a difference.                              *)
LEMMA SharedPart ==
  ASSUME NEW a \in Hashes, NEW b \in Hashes,
         HammingDistance(a, b) <= MaxHammingDist
  PROVE  \E part \in Parts : PartitionHash(a, part) = PartitionHash(b, part)
<1> DEFINE D == Xor(a, b)
           f == [bit \in D |-> PartOf[bit]]
<1>1. D \subseteq Bits /\ IsFiniteSet(D)
  <2>1. D \subseteq Bits
    BY DEF Xor, Hashes
  <2> QED BY <2>1, BitsAssumption, FS_Subset
<1>2. SUFFICES ASSUME \A part \in Parts : PartitionHash(a, part) # PartitionHash(b, part)
               PROVE  FALSE
  OBVIOUS
<1>3. f \in [D -> Parts]
  BY <1>1, BitsAssumption
<1>4. \A part \in Parts : \E bit \in D : f[bit] = part
  BY <1>2, DifferInEveryPart
<1> HIDE DEF f
<1>5. f \in Surjection(D, Parts)
  BY <1>3, <1>4 DEF Surjection
<1> HIDE DEF D
<1>6. Cardinality(Parts) <= Cardinality(D)
  BY <1>1, <1>5, FS_Surjection
<1>7. Cardinality(D) \in Nat /\ Cardinality(Parts) \in Nat
  BY <1>1, PartsAssumption, FS_CardinalityType
<1>8. Cardinality(D) <= MaxHammingDist
  BY DEF HammingDistance, D
<1> QED BY <1>6, <1>7, <1>8, PartsAssumption

-----------------------------------------------------------------------------
IInv == TypeOK /\ FiledEverywhere

LEMMA SimHashType == ASSUME NEW text PROVE SimHash(text) \in Hashes
BY DEF SimHash, Hashes

LEMMA FiledIInv ==
  ASSUME IInv, NEW hash \in Hashes, buckets' = buckets \union Filed(hash)
  PROVE  /\ buckets' \subseteq Parts \X Hashes \X Hashes
         /\ FiledEverywhere'
         /\ Stored' = Stored \union {hash}
<1>1. \E p \in Parts : TRUE
  BY PartsAssumption, FS_EmptySet
<1>2. \A p \in Parts : PartitionHash(hash, p) \in Hashes
  BY DEF PartitionHash, Hashes
<1>3. Filed(hash) \subseteq Parts \X Hashes \X Hashes
  BY <1>2 DEF Filed
<1>4. buckets' \subseteq Parts \X Hashes \X Hashes
  BY <1>3 DEF IInv, TypeOK
<1>5. Stored' = Stored \union {hash}
  <2>1. \A e \in Filed(hash) : e[3] = hash
    BY DEF Filed
  <2>2. PICK p \in Parts : TRUE
    BY <1>1
  <2>3. <<p, PartitionHash(hash, p), hash>> \in Filed(hash)
    BY DEF Filed
  <2> QED BY <2>1, <2>3 DEF Stored
<1>6. \A h \in Stored', p \in Parts : <<p, PartitionHash(h, p), h>> \in buckets'
  BY <1>5 DEF IInv, FiledEverywhere, Filed
<1>7. \A e \in buckets' : e[2] = PartitionHash(e[3], e[1])
  BY DEF IInv, FiledEverywhere, Filed
<1> QED BY <1>4, <1>5, <1>6, <1>7 DEF FiledEverywhere, PartitionHash

LEMMA NextIInv == IInv /\ [Next]_vars => IInv'
<1>1. SUFFICES ASSUME IInv, [Next]_vars PROVE IInv'
  OBVIOUS
<1>2. ASSUME NEW text \in Texts, IsNearDuplicate(SimHash(text)) PROVE IInv'
  <2> DEFINE hash == SimHash(text)
  <2>1. hash \in Hashes
    BY SimHashType
  <2>2. answer' \in Hashes \X BOOLEAN
    BY <1>2, <2>1 DEF IsNearDuplicate, Duplicate
  <2>3. CASE Duplicate(hash)
    <3>1. buckets' = buckets
      BY <1>2, <2>3 DEF IsNearDuplicate
    <3> QED BY <1>1, <2>2, <3>1 DEF IInv, TypeOK, FiledEverywhere, Stored
  <2>4. CASE ~Duplicate(hash)
    <3>1. buckets' = buckets \union Filed(hash)
      BY <1>2, <2>4 DEF IsNearDuplicate
    <3> HIDE DEF hash
    <3> QED BY <1>1, <2>1, <2>2, <3>1, FiledIInv DEF IInv, TypeOK
  <2> QED BY <2>3, <2>4
<1>3. ASSUME NEW text \in Texts, Add(SimHash(text)) PROVE IInv'
  BY <1>1, <1>3, SimHashType, FiledIInv DEF Add, IInv, TypeOK
<1>4. CASE NewSimIndex
  BY <1>4 DEF NewSimIndex, IInv, TypeOK, FiledEverywhere, Stored, Hashes
<1>5. CASE UNCHANGED vars
  BY <1>1, <1>5 DEF vars, IInv, TypeOK, FiledEverywhere, Stored
<1> QED BY <1>1, <1>2, <1>3, <1>4, <1>5 DEF Next

LEMMA InitIInv == Init => IInv
<1>1. SUFFICES ASSUME Init PROVE IInv
  OBVIOUS
<1>2. {} \in Hashes
  BY DEF Hashes
<1>3. TypeOK
  BY <1>1, <1>2 DEF Init, TypeOK
<1>4. Stored = {}
  BY <1>1 DEF Init, Stored
<1> QED BY <1>1, <1>3, <1>4 DEF Init, IInv, FiledEverywhere

(* TypeOK and FiledEverywhere are inductive together.                      *)
LEMMA IInvHolds == Spec => []IInv
BY InitIInv, NextIInv, PTL DEF Spec

(* Every stored fingerprint can be found through every one of its parts.   *)
THEOREM FiledEverywhereHolds == Spec => []FiledEverywhere
BY IInvHolds, PTL DEF IInv

-----------------------------------------------------------------------------
(* What IsNearDuplicate answers: whether any stored fingerprint is near.   *)
LEMMA AnswerIsExact ==
  ASSUME IInv, NEW hash \in Hashes
  PROVE  Duplicate(hash) <=> Seen!NearIn(hash, Stored)
<1>2. Candidates(hash) \subseteq Stored
  BY DEF Candidates, Stored
<1>3. ASSUME NEW h \in Stored, HammingDistance(hash, h) <= MaxHammingDist
      PROVE  h \in Candidates(hash)
  <2>1. h \in Hashes
    BY DEF IInv, TypeOK, Stored
  <2>2. PICK p \in Parts : PartitionHash(hash, p) = PartitionHash(h, p)
    BY <1>3, <2>1, SharedPart
  <2>3. <<p, PartitionHash(h, p), h>> \in buckets
    BY DEF IInv, FiledEverywhere
  <2> QED BY <2>2, <2>3 DEF Candidates
<1> QED BY <1>2, <1>3 DEF Duplicate, Seen!NearIn, CloseTo

(* The index of simhash.go implements the plain set of fingerprints of     *)
(* SeenContent: the four buckets are invisible from outside.               *)
THEOREM ImplementsSeenContentHolds == Spec => ImplementsSeenContent
<1>1. Init => Seen!Init
  BY DEF Init, Seen!Init, Stored
<1>2. IInv /\ [Next]_vars => [Seen!Next]_<<Stored, answer>>
  <2>1. SUFFICES ASSUME IInv, [Next]_vars
                 PROVE  Seen!Next \/ UNCHANGED <<Stored, answer>>
    OBVIOUS
  <2>2. ASSUME NEW text \in Texts, IsNearDuplicate(SimHash(text)) PROVE Seen!Next
    <3> DEFINE hash == SimHash(text)
    <3>1. hash \in Hashes
      BY SimHashType
    <3> HIDE DEF hash
    <3>2. Duplicate(hash) = Seen!NearIn(hash, Stored)
      BY <2>1, <3>1, AnswerIsExact DEF Duplicate, Seen!NearIn
    <3>3. answer' = <<hash, Seen!NearIn(hash, Stored)>>
      BY <2>2, <3>2 DEF IsNearDuplicate, hash
    <3>4. Stored' = IF Seen!NearIn(hash, Stored) THEN Stored ELSE Stored \union {hash}
      <4>1. CASE Duplicate(hash)
        BY <2>2, <3>2, <4>1 DEF IsNearDuplicate, hash, Stored
      <4>2. CASE ~Duplicate(hash)
        BY <2>1, <2>2, <3>1, <3>2, <4>2, FiledIInv DEF IsNearDuplicate, hash
      <4> QED BY <4>1, <4>2
    <3> QED BY <3>1, <3>3, <3>4 DEF Seen!Next, Seen!Ask
  <2>3. ASSUME NEW text \in Texts, Add(SimHash(text)) PROVE Seen!Next
    <3>1. SimHash(text) \in Hashes
      BY SimHashType
    <3>2. Stored' = Stored \union {SimHash(text)} /\ UNCHANGED answer
      BY <2>1, <2>3, <3>1, FiledIInv DEF Add
    <3> QED BY <3>1, <3>2 DEF Seen!Next, Seen!Insert
  <2>4. CASE NewSimIndex
    BY <2>4 DEF NewSimIndex, Stored, Seen!Next, Seen!Restart
  <2>5. CASE UNCHANGED vars
    BY <2>5 DEF vars, Stored
  <2> QED BY <2>1, <2>2, <2>3, <2>4, <2>5 DEF Next
<1> QED BY <1>1, <1>2, IInvHolds, PTL DEF Spec, ImplementsSeenContent, Seen!Spec
=============================================================================
