----------------------------- MODULE SimhashIndex -----------------------------
(***************************************************************************)
(* Near-duplicate detection: internal/scraper/deduplication/simhash.go.    *)
(* A 64-bit word is the set of its bits that are 1.  The index files every *)
(* fingerprint under each of its four 16-bit parts, and compares a new one *)
(* only with those that share a part.  The index lives in the memory of    *)
(* the crawler process and a mutex makes each operation one step.          *)
(***************************************************************************)
EXTENDS Integers, FiniteSets, Sequences

CONSTANTS
  Bits,            \* simhash.go: 64
  Parts,           \* simhash.go: 4
  PartOf,          \* which part a bit is in
  MaxHammingDist,  \* simhash.go: 3
  Texts,           \* the texts that may be offered: sequences of shingle hashes
  MaxStored        \* bound: fingerprints in the index

ASSUME BitsAssumption == IsFiniteSet(Bits) /\ PartOf \in [Bits -> Parts]
ASSUME PartsAssumption == /\ IsFiniteSet(Parts)
                          /\ MaxHammingDist \in Nat
                          /\ MaxHammingDist < Cardinality(Parts)
ASSUME TextsAssumption == Texts \subseteq Seq(SUBSET Bits)
ASSUME BoundAssumption == MaxStored \in Nat

VARIABLES
  buckets,   \* Buckets[i][key], as the set of all <<i, key, fingerprint>>
  answer     \* the last call of IsNearDuplicate and its result

vars == <<buckets, answer>>

Hashes == SUBSET Bits

TypeOK == /\ buckets \subseteq Parts \X Hashes \X Hashes
          /\ answer \in Hashes \X BOOLEAN

Init == buckets = {} /\ answer = <<{}, FALSE>>

-----------------------------------------------------------------------------
(* SimHash: every shingle votes +1 or -1 on every bit, and a bit is 1 when *)
(* the votes are positive: a text without shingles (fewer than three       *)
(* tokens) has the fingerprint 0.                                          *)
Votes(shingles, bit) ==
  LET for     == {i \in DOMAIN shingles : bit \in shingles[i]}
      against == DOMAIN shingles \ for
  IN  Cardinality(for) - Cardinality(against)

SimHash(shingles) == {bit \in Bits : Votes(shingles, bit) > 0}

(* partitionHash: the bits of one part.                                    *)
PartitionHash(hash, part) == {bit \in hash : PartOf[bit] = part}

(* hammingDistance counts the ones of a ^ b by clearing them one by one.   *)
Xor(a, b) == (a \ b) \union (b \ a)

HammingDistance(a, b) == Cardinality(Xor(a, b))

(* The fingerprints that share a part with the given one.                  *)
CandidatesOfFirst(hash) ==
  LET part == CHOOSE p \in Parts : TRUE
  IN  {e[3] : e \in {f \in buckets : f[1] = part /\ f[2] = PartitionHash(hash, part)}}

Candidates(hash) ==
  {e[3] : e \in {f \in buckets : f[2] = PartitionHash(hash, f[1])}}

Duplicate(hash) ==
  \E h \in Candidates(hash) : HammingDistance(hash, h) <= MaxHammingDist

FiledInFirst(hash) ==
  {<<p, PartitionHash(hash, p), hash>> : p \in {CHOOSE q \in Parts : TRUE}}

Filed(hash) == {<<p, PartitionHash(hash, p), hash>> : p \in Parts}

Stored == {e[3] : e \in buckets}

-----------------------------------------------------------------------------
(* The candidates are looked up and the new fingerprint is filed under one *)
(* lock.                                                                   *)
IsNearDuplicate(hash) ==
  /\ answer' = <<hash, Duplicate(hash)>>
  /\ buckets' = IF Duplicate(hash) THEN buckets ELSE buckets \union Filed(hash)
  /\ Cardinality(Stored) < MaxStored \/ Duplicate(hash)

(* Add files without a look; only the benchmarks call it.                  *)
Add(hash) ==
  /\ Cardinality(Stored) < MaxStored \/ hash \in Stored
  /\ buckets' = buckets \union Filed(hash)
  /\ UNCHANGED answer

(* A new process starts with an empty index.                               *)
NewSimIndex == buckets' = {} /\ answer' = <<{}, FALSE>>

Next ==
  \/ \E text \in Texts : IsNearDuplicate(SimHash(text)) \/ Add(SimHash(text))
  \/ NewSimIndex

Spec == Init /\ [][Next]_vars

-----------------------------------------------------------------------------
(* Looking at one bucket per part is enough: the index answers exactly as  *)
(* a comparison with every stored fingerprint would, because a fingerprint *)
(* at distance 3 or less agrees with the new one on one part of four.      *)
CloseTo(a, b) == HammingDistance(a, b) <= MaxHammingDist

Seen == INSTANCE SeenContent
          WITH Near <- CloseTo, None <- <<{}, FALSE>>, seen <- Stored

ImplementsSeenContent == Seen!Spec

(* The index is uniform: a fingerprint that is filed at all is filed under *)
(* each of its parts, and under no other key.                              *)
FiledEverywhere ==
  /\ \A h \in Stored, p \in Parts : <<p, PartitionHash(h, p), h>> \in buckets
  /\ \A e \in buckets : e[2] = PartitionHash(e[3], e[1])
=============================================================================
