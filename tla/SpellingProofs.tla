---------------------------- MODULE SpellingProofs ----------------------------
(***************************************************************************)
(* Theorems about the normal form of a URL that hold for every set of      *)
(* words, parameters, fragments and hosts, for all pages that are named by *)
(* their shortest URLs, and for links that are respelled any number of     *)
(* times.                                                                  *)
(***************************************************************************)
EXTENDS LinkSpellings, SequenceTheorems, FiniteSetTheorems, WellFoundedInduction, TLAPS

-----------------------------------------------------------------------------
(* Induction over sequences: a set that has the empty sequence and every   *)
(* sequence that is one element longer than one of its own has them all.   *)

LEMMA LeastExists ==
  ASSUME NEW S, S \subseteq Nat, S # {}
  PROVE  \E x \in S : \A y \in S : x <= y
<1> DEFINE R == {ss \in Nat \X Nat : ss[1] < ss[2]}
<1>1. IsWellFoundedOn(R, Nat)
  BY NatLessThanWellFounded DEF OpToRel
<1>2. PICK x \in S : \A y \in S : ~ (<<y, x>> \in R)
  BY <1>1, WFMin
<1>3. ASSUME NEW y \in S
      PROVE  x <= y
  <2>1. x \in Nat /\ y \in Nat
    OBVIOUS
  <2>2. <<y, x>> \in Nat \X Nat
    BY <2>1
  <2>3. ~ (<<y, x>>[1] < <<y, x>>[2])
    BY <1>2, <2>2
  <2> QED
    BY <2>1, <2>3
<1> QED
  BY <1>3

LEMMA PrefixIsSeq ==
  ASSUME NEW T, NEW p, NEW n \in Nat, \A i \in 1..n : p[i] \in T
  PROVE  /\ SubSeq(p, 1, n) \in Seq(T) /\ Len(SubSeq(p, 1, n)) = n
         /\ \A i \in 1..n : SubSeq(p, 1, n)[i] = p[i]
<1>1. 1 \in Int /\ n \in Int
  OBVIOUS
<1>2. /\ SubSeq(p, 1, n) \in Seq(T)
      /\ Len(SubSeq(p, 1, n)) = IF 1 <= n THEN n - 1 + 1 ELSE 0
      /\ \A i \in 1..(n - 1 + 1) : SubSeq(p, 1, n)[i] = p[1 + i - 1]
  BY <1>1, SubSeqProperties
<1> QED BY <1>2

LEMMA FrontAndLast ==
  ASSUME NEW T, NEW p \in Seq(T), p # <<>>
  PROVE  /\ Front(p) \in Seq(T) /\ Len(Front(p)) = Len(p) - 1
         /\ Last(p) \in T /\ Last(p) = p[Len(p)]
         /\ \A i \in 1..(Len(p) - 1) : Front(p)[i] = p[i]
         /\ p = Append(Front(p), Last(p))
<1>1. Len(p) \in Nat /\ Len(p) >= 1 /\ \A i \in 1..Len(p) : p[i] \in T
  BY EmptySeq
<1>2. /\ Front(p) \in Seq(T) /\ Len(Front(p)) = Len(p) - 1
      /\ \A i \in 1..(Len(p) - 1) : Front(p)[i] = p[i]
  <2> DEFINE n == Len(p) - 1
  <2>1. n \in Nat /\ \A i \in 1..n : p[i] \in T
    BY <1>1
  <2>2. Front(p) = SubSeq(p, 1, n)
    BY DEF Front
  <2> HIDE DEF n
  <2>3. /\ SubSeq(p, 1, n) \in Seq(T) /\ Len(SubSeq(p, 1, n)) = n
        /\ \A i \in 1..n : SubSeq(p, 1, n)[i] = p[i]
    BY <2>1, PrefixIsSeq
  <2> QED BY <2>2, <2>3 DEF n
<1>3. Last(p) \in T /\ Last(p) = p[Len(p)]
  BY <1>1 DEF Last
<1>4. Append(Front(p), Last(p)) \in Seq(T) /\ Len(Append(Front(p), Last(p))) = Len(p)
  BY <1>1, <1>2, <1>3
<1>5. \A i \in 1..Len(p) : Append(Front(p), Last(p))[i] = p[i]
  BY <1>1, <1>2, <1>3
<1>6. p = Append(Front(p), Last(p))
  BY <1>4, <1>5, SeqEqual
<1> QED BY <1>2, <1>3, <1>6

LEMMA TakeLast ==
  ASSUME NEW T, NEW p \in Seq(T), p # <<>>
  PROVE  \E f \in Seq(T), l \in T : p = Append(f, l)
<1>1. Front(p) \in Seq(T) /\ Last(p) \in T /\ p = Append(Front(p), Last(p))
  BY FrontAndLast
<1> QED BY <1>1

LEMMA ShortSeqs ==
  ASSUME NEW T, NEW s \in T, NEW t \in T
  PROVE  /\ <<>> \in Seq(T)
         /\ <<s>> \in Seq(T) /\ <<s>> # <<>> /\ Len(<<s>>) = 1 /\ <<s>>[1] = s
         /\ <<s, t>> \in Seq(T) /\ <<s, t>> # <<>> /\ <<s, t>>[1] = s
         /\ Append(<<>>, s) = <<s>>
         /\ Append(<<s>>, t) = <<s, t>>
<1>1. /\ <<>> \in Seq(T)
      /\ <<s>> \in Seq(T) /\ <<s>> # <<>> /\ Len(<<s>>) = 1 /\ <<s>>[1] = s
  OBVIOUS
<1>2. <<s, t>> \in Seq(T) /\ <<s, t>> # <<>> /\ <<s, t>>[1] = s
  OBVIOUS
<1>3. Append(<<>>, s) = <<s>>
  OBVIOUS
<1>4. <<s>> \in Seq(T) /\ <<s, t>> \in Seq(T) /\ <<s, t>> = Append(<<s>>, t)
  OBVIOUS
<1> QED BY <1>1, <1>2, <1>3, <1>4

LEMMA AppendParts ==
  ASSUME NEW T, NEW p \in Seq(T), NEW s \in T
  PROVE  /\ Append(p, s) \in Seq(T) /\ Append(p, s) # <<>>
         /\ Len(Append(p, s)) = Len(p) + 1 /\ Append(p, s)[Len(p) + 1] = s
         /\ \A i \in 1..Len(p) : Append(p, s)[i] = p[i]
         /\ Front(Append(p, s)) = p /\ Last(Append(p, s)) = s
<1>1. /\ Append(p, s) \in Seq(T) /\ Append(p, s) # <<>>
      /\ Len(Append(p, s)) = Len(p) + 1 /\ Append(p, s)[Len(p) + 1] = s
      /\ \A i \in 1..Len(p) : Append(p, s)[i] = p[i]
  OBVIOUS
<1>2. /\ Front(Append(p, s)) \in Seq(T) /\ Len(Front(Append(p, s))) = Len(p)
      /\ \A i \in 1..Len(p) : Front(Append(p, s))[i] = p[i]
  <2> DEFINE q == Append(p, s)
  <2>1. q \in Seq(T) /\ q # <<>> /\ Len(q) - 1 = Len(p) /\ \A i \in 1..Len(p) : q[i] = p[i]
    BY <1>1
  <2> HIDE DEF q
  <2>2. /\ Front(q) \in Seq(T) /\ Len(Front(q)) = Len(q) - 1
        /\ \A i \in 1..(Len(q) - 1) : Front(q)[i] = q[i]
    BY <2>1, FrontAndLast
  <2>3. /\ Front(q) \in Seq(T) /\ Len(Front(q)) = Len(p)
        /\ \A i \in 1..Len(p) : Front(q)[i] = p[i]
    BY <2>1, <2>2
  <2> QED BY <2>3 DEF q
<1>3. Front(Append(p, s)) = p
  BY <1>2, SeqEqual
<1> QED BY <1>1, <1>3 DEF Last

LEMMA SeqInduction ==
  ASSUME NEW T, NEW P \in SUBSET Seq(T), <<>> \in P,
         \A p \in P, s \in T : Append(p, s) \in P
  PROVE  P = Seq(T)
<1> SUFFICES ASSUME P # Seq(T) PROVE FALSE
  OBVIOUS
<1> DEFINE Missing == {Len(p) : p \in Seq(T) \ P}
<1>1. Missing \subseteq Nat /\ Missing # {}
  <2>1. PICK p \in Seq(T) : p \notin P
    OBVIOUS
  <2>2. Len(p) \in Missing
    BY <2>1
  <2>3. \A q \in Seq(T) : Len(q) \in Nat
    OBVIOUS
  <2> QED BY <2>2, <2>3
<1>2. PICK n \in Missing : \A m \in Missing : n <= m
  BY <1>1, LeastExists
<1>3. PICK p \in Seq(T) \ P : n = Len(p)
  OBVIOUS
<1>4. p # <<>>
  BY <1>3
<1>5. Front(p) \in Seq(T) /\ Len(Front(p)) = n - 1 /\ Last(p) \in T /\ p = Append(Front(p), Last(p))
  BY <1>3, <1>4, FrontAndLast
<1>6. Front(p) \in P
  <2> SUFFICES ASSUME Front(p) \notin P PROVE FALSE
    OBVIOUS
  <2>1. n - 1 \in Missing
    BY <1>5
  <2>2. n \in Nat
    BY <1>1
  <2> HIDE DEF Missing
  <2> QED BY <1>2, <2>1, <2>2
<1> QED BY <1>3, <1>5, <1>6

-----------------------------------------------------------------------------
(* path.Clean, one segment at a time.                                      *)

LEMMA SegmentFacts ==
  /\ \A w \in Words \union {"", ".", ".."} : Plain(w) \in Segment
  /\ \A w : Plain(w).word = w /\ Plain(w).upper = FALSE /\ Plain(w).tail = ""
  /\ Nothing \in Segment /\ Nothing.word = "" /\ Nothing.tail = "" /\ Nothing.upper = FALSE
  /\ IndexFile \in Segment /\ IndexFile.word = "" /\ IndexFile.tail = "index" /\ IndexFile.upper = FALSE
  /\ IndexFile # Nothing
<1>1. \A w : Plain(w).word = w /\ Plain(w).upper = FALSE /\ Plain(w).tail = ""
  BY DEF Plain
<1>2. \A w \in Words \union {"", ".", ".."} : Plain(w) \in Segment
  BY DEF Plain, Segment, Tails
<1>3. Nothing \in Segment /\ Nothing.word = "" /\ Nothing.tail = "" /\ Nothing.upper = FALSE
  BY <1>1, <1>2 DEF Nothing
<1>4. /\ IndexFile \in Segment /\ IndexFile.word = "" /\ IndexFile.tail = "index"
      /\ IndexFile.upper = FALSE
  BY <1>3 DEF IndexFile, Segment, Tails
<1> QED BY <1>1, <1>2, <1>3, <1>4

LEMMA SpecialSegments ==
  Nothing \in Segment /\ IndexFile \in Segment /\ Plain(".") \in Segment /\ Plain("..") \in Segment
BY SegmentFacts

LEMMA SegmentEqual ==
  ASSUME NEW s \in Segment, NEW t \in Segment,
         s.word = t.word, s.upper = t.upper, s.tail = t.tail
  PROVE  s = t
<1>1. s = [word |-> s.word, upper |-> s.upper, tail |-> s.tail]
  BY DEF Segment
<1>2. t = [word |-> t.word, upper |-> t.upper, tail |-> t.tail]
  BY DEF Segment
<1> QED BY <1>1, <1>2

LEMMA SegmentType ==
  ASSUME NEW s \in Segment
  PROVE  s.word \in Words \union {"", ".", ".."} /\ s.upper \in BOOLEAN /\ s.tail \in Tails
BY DEF Segment

LEMMA CleanStepValues ==
  ASSUME NEW d, NEW s
  PROVE  /\ s.word = ".." => CleanStep(d, s) = IF d = <<>> THEN d ELSE Front(d)
         /\ s \in {Nothing, Plain(".")} => CleanStep(d, s) = d
         /\ s.word # ".." /\ s \notin {Nothing, Plain(".")} => CleanStep(d, s) = Append(d, s)
<1>1. Nothing.word # ".." /\ Plain(".").word # ".."
  BY DEF Nothing, Plain
<1> QED BY <1>1 DEF CleanStep

LEMMA CleanStepType ==
  ASSUME NEW d \in Seq(Segment), NEW s \in Segment
  PROVE  CleanStep(d, s) \in Seq(Segment)
<1>1. d # <<>> => Front(d) \in Seq(Segment)
  BY FrontAndLast
<1> QED BY <1>1, CleanStepValues

IsRun(done, path) ==
  done = [n \in 0..Len(path) |-> IF n = 0 THEN <<>> ELSE CleanStep(done[n - 1], path[n])]

LEMMA RunExists ==
  ASSUME NEW path \in Seq(Segment)
  PROVE  \E done : IsRun(done, path)
<1> DEFINE P == {p \in Seq(Segment) : \E done : IsRun(done, p)}
<1>1. <<>> \in P
  <2> DEFINE done == [n \in 0..0 |-> <<>>]
  <2>1. IsRun(done, <<>>)
    BY DEF IsRun
  <2> QED BY <2>1
<1>2. ASSUME NEW p \in P, NEW s \in Segment
      PROVE  Append(p, s) \in P
  <2>1. PICK done : IsRun(done, p)
    OBVIOUS
  <2> DEFINE more == [n \in 0..(Len(p) + 1) |->
                        IF n = Len(p) + 1 THEN CleanStep(done[Len(p)], s) ELSE done[n]]
  <2>2. /\ Len(p) \in Nat /\ Len(Append(p, s)) = Len(p) + 1 /\ Append(p, s)[Len(p) + 1] = s
        /\ \A n \in 1..Len(p) : Append(p, s)[n] = p[n]
    BY AppendParts
  <2>3. \A n \in 0..Len(p) : done[n] = IF n = 0 THEN <<>> ELSE CleanStep(done[n - 1], p[n])
    BY <2>1 DEF IsRun
  <2>4. ASSUME NEW n \in 0..(Len(p) + 1)
        PROVE  more[n] = IF n = 0 THEN <<>> ELSE CleanStep(more[n - 1], Append(p, s)[n])
    <3>1. CASE n = Len(p) + 1
      <4>1. n # 0 /\ n - 1 \in 0..(Len(p) + 1) /\ n - 1 # Len(p) + 1 /\ n - 1 = Len(p)
        BY <3>1, <2>2
      <4>2. more[n - 1] = done[Len(p)] /\ more[n] = CleanStep(done[Len(p)], s)
        BY <3>1, <4>1
      <4> QED BY <3>1, <4>1, <4>2, <2>2
    <3>2. CASE n = 0
      <4>1. n # Len(p) + 1 /\ n \in 0..Len(p)
        BY <3>2, <2>2
      <4> QED BY <3>2, <4>1, <2>3
    <3>3. CASE n \in 1..Len(p)
      <4>1. n # Len(p) + 1 /\ n # 0 /\ n \in 0..Len(p) /\ n - 1 \in 0..(Len(p) + 1) /\ n - 1 # Len(p) + 1
        BY <3>3, <2>2
      <4>2. more[n] = done[n] /\ more[n - 1] = done[n - 1]
        BY <4>1
      <4> HIDE DEF more
      <4> QED BY <3>3, <4>1, <4>2, <2>2, <2>3
    <3> QED BY <3>1, <3>2, <3>3, <2>2
  <2>5. IsRun(more, Append(p, s))
    <3> DEFINE again == [n \in 0..Len(Append(p, s)) |->
                           IF n = 0 THEN <<>> ELSE CleanStep(more[n - 1], Append(p, s)[n])]
    <3>1. \A n \in 0..(Len(p) + 1) : more[n] = again[n]
      BY <2>2, <2>4
    <3>2. more = again
      BY <2>2, <3>1
    <3> QED BY <3>2 DEF IsRun
  <2>6. Append(p, s) \in Seq(Segment)
    OBVIOUS
  <2> QED BY <2>5, <2>6
<1>3. P \in SUBSET Seq(Segment)
  OBVIOUS
<1> HIDE DEF P
<1>4. P = Seq(Segment)
  BY <1>1, <1>2, <1>3, SeqInduction
<1> QED BY <1>4 DEF P

LEMMA CleanedIsRun ==
  ASSUME NEW path \in Seq(Segment)
  PROVE  \E done : IsRun(done, path) /\ Cleaned(path) = done[Len(path)]
<1> DEFINE run == CHOOSE done : IsRun(done, path)
<1>1. IsRun(run, path)
  BY RunExists
<1>2. Cleaned(path) = run[Len(path)]
  BY DEF Cleaned, IsRun
<1> QED BY <1>1, <1>2

LEMMA CleanedEmpty == Cleaned(<<>>) = <<>>
<1>1. <<>> \in Seq(Segment) /\ Len(<<>>) = 0
  OBVIOUS
<1>2. PICK done : IsRun(done, <<>>) /\ Cleaned(<<>>) = done[0]
  BY <1>1, CleanedIsRun
<1> QED BY <1>2 DEF IsRun

LEMMA CleanedAppend ==
  ASSUME NEW p \in Seq(Segment), NEW s \in Segment
  PROVE  Cleaned(Append(p, s)) = CleanStep(Cleaned(p), s)
<1> DEFINE q == Append(p, s)
<1>1. /\ q \in Seq(Segment) /\ Len(p) \in Nat /\ Len(q) = Len(p) + 1 /\ q[Len(p) + 1] = s
      /\ \A n \in 1..Len(p) : q[n] = p[n]
  BY AppendParts
<1> HIDE DEF q
<1>2. PICK f : IsRun(f, p) /\ Cleaned(p) = f[Len(p)]
  BY CleanedIsRun
<1>3. PICK g : IsRun(g, q) /\ Cleaned(q) = g[Len(q)]
  BY <1>1, CleanedIsRun
<1>4. \A n \in 0..Len(p) : f[n] = IF n = 0 THEN <<>> ELSE CleanStep(f[n - 1], p[n])
  BY <1>2 DEF IsRun
<1>5. \A n \in 0..(Len(p) + 1) : g[n] = IF n = 0 THEN <<>> ELSE CleanStep(g[n - 1], q[n])
  BY <1>1, <1>3 DEF IsRun
<1>6. f[Len(p)] = g[Len(p)]
  <2> DEFINE Differ == {n \in 0..Len(p) : f[n] # g[n]}
  <2> SUFFICES ASSUME Differ # {} PROVE FALSE
    BY <1>1
  <2>1. Differ \subseteq Nat
    OBVIOUS
  <2>2. PICK n \in Differ : \A m \in Differ : n <= m
    BY <2>1, LeastExists
  <2>3. n # 0
    BY <1>1, <1>4, <1>5
  <2>4. n - 1 \in 0..Len(p) /\ n - 1 \notin Differ /\ n \in 1..Len(p)
    <3>1. n \in 0..Len(p) /\ n - 1 \in 0..Len(p)
      BY <1>1, <2>3
    <3> HIDE DEF Differ
    <3> QED BY <1>1, <2>2, <2>3, <3>1
  <2>5. f[n - 1] = g[n - 1]
    BY <2>4
  <2>6. f[n] = g[n]
    BY <1>1, <1>4, <1>5, <2>3, <2>4, <2>5
  <2> QED BY <2>6
<1>7. g[Len(p) + 1] = CleanStep(g[Len(p)], s)
  BY <1>1, <1>5
<1> QED BY <1>1, <1>2, <1>3, <1>6, <1>7 DEF q

LEMMA CleanedType ==
  ASSUME NEW p \in Seq(Segment)
  PROVE  Cleaned(p) \in Seq(Segment)
<1> DEFINE P == {r \in Seq(Segment) : Cleaned(r) \in Seq(Segment)}
<1>1. <<>> \in P
  <2>1. <<>> \in Seq(Segment)
    OBVIOUS
  <2> QED BY <2>1, CleanedEmpty
<1>2. ASSUME NEW r \in P, NEW s \in Segment
      PROVE  Append(r, s) \in P
  BY CleanedAppend, CleanStepType
<1>3. P = Seq(Segment)
  <2>1. P \in SUBSET Seq(Segment)
    OBVIOUS
  <2> HIDE DEF P
  <2> QED BY <1>1, <1>2, <2>1, SeqInduction
<1> QED BY <1>3
-----------------------------------------------------------------------------
(* What path.Clean makes of paths that are put together.                   *)

LEMMA ConcatAppend ==
  ASSUME NEW T, NEW p \in Seq(T), NEW q \in Seq(T), NEW s \in T
  PROVE  p \o Append(q, s) = Append(p \o q, s)
<1>1. <<s>> \in Seq(T) /\ Append(q, s) = q \o <<s>> /\ Append(p \o q, s) = (p \o q) \o <<s>>
  <2>1. \A r \in Seq(T) : Append(r, s) = r \o <<s>>
    OBVIOUS
  <2> QED BY <2>1, ConcatProperties
<1> QED BY <1>1, ConcatAssociative

LEMMA ConcatFront ==
  ASSUME NEW T, NEW p \in Seq(T), NEW q \in Seq(T), q # <<>>
  PROVE  p \o q # <<>> /\ Front(p \o q) = p \o Front(q) /\ Last(p \o q) = Last(q)
<1>1. PICK f \in Seq(T), l \in T : f = Front(q) /\ l = Last(q) /\ q = Append(f, l)
  BY FrontAndLast
<1>2. PICK g \in Seq(T) : g = p \o f
  BY ConcatProperties
<1>3. p \o q = Append(g, l)
  BY <1>1, <1>2, ConcatAppend
<1>4. Append(g, l) # <<>> /\ Front(Append(g, l)) = g /\ Last(Append(g, l)) = l
  BY AppendParts
<1> QED BY <1>1, <1>2, <1>3, <1>4

LEMMA ConcatShort ==
  ASSUME NEW T, NEW p \in Seq(T), NEW s \in T, NEW t \in T
  PROVE  /\ <<s>> \in Seq(T) /\ p \o <<s>> = Append(p, s)
         /\ <<s, t>> \in Seq(T) /\ p \o <<s, t>> = Append(Append(p, s), t)
<1>1. <<s>> \in Seq(T) /\ <<s, t>> \in Seq(T) /\ <<s, t>> = Append(<<s>>, t)
  OBVIOUS
<1>2. p \o <<s>> = Append(p, s)
  OBVIOUS
<1>3. p \o Append(<<s>>, t) = Append(p \o <<s>>, t)
  BY <1>1, ConcatAppend
<1> QED BY <1>1, <1>2, <1>3

(* What has the same clean form has it with anything behind it.            *)
LEMMA CleanedConcat ==
  ASSUME NEW p \in Seq(Segment), NEW r \in Seq(Segment), Cleaned(p) = Cleaned(r),
         NEW q \in Seq(Segment)
  PROVE  Cleaned(p \o q) = Cleaned(r \o q)
<1> DEFINE P == {x \in Seq(Segment) : Cleaned(p \o x) = Cleaned(r \o x)}
<1>1. <<>> \in P
  <2>1. <<>> \in Seq(Segment) /\ p \o <<>> = p /\ r \o <<>> = r
    BY ConcatEmptySeq
  <2> QED BY <2>1
<1>2. ASSUME NEW x \in P, NEW s \in Segment
      PROVE  Append(x, s) \in P
  <2>1. /\ p \o Append(x, s) = Append(p \o x, s) /\ r \o Append(x, s) = Append(r \o x, s)
        /\ Append(x, s) \in Seq(Segment) /\ p \o x \in Seq(Segment) /\ r \o x \in Seq(Segment)
    BY ConcatAppend, ConcatProperties, AppendParts
  <2>2. Cleaned(p \o x) = Cleaned(r \o x)
    OBVIOUS
  <2>3. Cleaned(Append(p \o x, s)) = Cleaned(Append(r \o x, s))
    BY <2>1, <2>2, CleanedAppend
  <2> QED BY <2>1, <2>3
<1>3. P = Seq(Segment)
  <2>1. P \in SUBSET Seq(Segment)
    OBVIOUS
  <2> HIDE DEF P
  <2> QED BY <1>1, <1>2, <2>1, SeqInduction
<1> QED BY <1>3

LEMMA SlashVanishes ==
  ASSUME NEW p \in Seq(Segment)
  PROVE  Cleaned(Append(p, Nothing)) = Cleaned(p)
BY CleanedAppend, CleanStepValues, SegmentFacts

LEMMA WordIsKept ==
  ASSUME NEW p \in Seq(Segment), NEW s \in Segment, s.word \in Words \/ s = IndexFile
  PROVE  Cleaned(Append(p, s)) = Append(Cleaned(p), s)
<1>1. s.word # ".." /\ s \notin {Nothing, Plain(".")}
  <2>1. ASSUME s.word \in Words PROVE s.word # ".." /\ s # Nothing /\ s # Plain(".")
    <3>1. s.word # "" /\ s.word # "." /\ s.word # ".."
      BY <2>1, WordAssumption
    <3>2. Nothing.word = "" /\ Plain(".").word = "."
      BY SegmentFacts
    <3> QED BY <3>1, <3>2, Zenon
  <2>2. ASSUME s = IndexFile PROVE s.word # ".." /\ s # Nothing /\ s # Plain(".")
    <3>1. IndexFile.word = "" /\ IndexFile # Nothing
      BY SegmentFacts
    <3>2. Plain(".").word = "." /\ "" # "." /\ "" # ".."
      BY SegmentFacts
    <3> QED BY <2>2, <3>1, <3>2, Zenon
  <2> QED BY <2>1, <2>2
<1> QED BY <1>1, CleanedAppend, CleanStepValues

LEMMA DetourType ==
  ASSUME NEW detour \in Detours
  PROVE  detour \in Seq(Segment)
<1>1. /\ Nothing \in Segment /\ Plain(".") \in Segment /\ Plain("..") \in Segment
      /\ \A w \in Words : Plain(w) \in Segment
  BY SegmentFacts
<1>2. CASE detour \in {<<Nothing>>, <<Plain(".")>>}
  BY <1>1, <1>2, ConcatShort
<1>3. ASSUME NEW w \in Words, detour = <<Plain(w), Plain("..")>>
      PROVE  detour \in Seq(Segment)
  BY <1>1, <1>3, ConcatShort
<1> QED BY <1>2, <1>3 DEF Detours

LEMMA DetourVanishes ==
  ASSUME NEW p \in Seq(Segment), NEW detour \in Detours
  PROVE  Cleaned(p \o detour) = Cleaned(p)
<1>1. CASE detour = <<Nothing>>
  <2>1. p \o detour = Append(p, Nothing)
    <3>1. Nothing \in Segment
      BY SegmentFacts
    <3> QED BY <1>1, <3>1, ConcatShort
  <2> QED BY <2>1, SlashVanishes
<1>2. CASE detour = <<Plain(".")>>
  <2>1. p \o detour = Append(p, Plain(".")) /\ Plain(".") \in Segment
    <3>1. Plain(".") \in Segment
      BY SegmentFacts
    <3> QED BY <1>2, <3>1, ConcatShort
  <2> QED BY <2>1, CleanedAppend, CleanStepValues
<1>3. ASSUME NEW w \in Words, detour = <<Plain(w), Plain("..")>>
      PROVE  Cleaned(p \o detour) = Cleaned(p)
  <2>1. Plain(w) \in Segment /\ Plain("..") \in Segment /\ Plain(w).word = w /\ Plain("..").word = ".."
    BY SegmentFacts
  <2>2. p \o detour = Append(Append(p, Plain(w)), Plain(".."))
    BY <1>3, <2>1, ConcatShort
  <2>3. Append(p, Plain(w)) \in Seq(Segment) /\ Cleaned(p) \in Seq(Segment)
    BY <2>1, CleanedType
  <2>4. Cleaned(Append(p, Plain(w))) = Append(Cleaned(p), Plain(w))
    BY <2>1, WordIsKept
  <2>5. Cleaned(p \o detour) = CleanStep(Append(Cleaned(p), Plain(w)), Plain(".."))
    BY <2>1, <2>2, <2>3, <2>4, CleanedAppend
  <2>6. Append(Cleaned(p), Plain(w)) # <<>> /\ Front(Append(Cleaned(p), Plain(w))) = Cleaned(p)
    BY <2>1, <2>3, AppendParts
  <2> QED BY <2>1, <2>5, <2>6, CleanStepValues
<1> QED BY <1>1, <1>2, <1>3 DEF Detours

LEMMA SplitSeq ==
  ASSUME NEW T, NEW p \in Seq(T), NEW i \in 0..Len(p)
  PROVE  /\ SubSeq(p, 1, i) \in Seq(T) /\ SubSeq(p, i + 1, Len(p)) \in Seq(T)
         /\ Len(SubSeq(p, 1, i)) = i /\ Len(SubSeq(p, i + 1, Len(p))) = Len(p) - i
         /\ \A n \in 1..i : SubSeq(p, 1, i)[n] = p[n]
         /\ \A n \in 1..(Len(p) - i) : SubSeq(p, i + 1, Len(p))[n] = p[n + i]
         /\ p = SubSeq(p, 1, i) \o SubSeq(p, i + 1, Len(p))
<1>1. i \in Nat /\ Len(p) \in Nat /\ i <= Len(p) /\ \A n \in 1..Len(p) : p[n] \in T
  OBVIOUS
<1> DEFINE a == SubSeq(p, 1, i)
           b == SubSeq(p, i + 1, Len(p))
<1>2. a \in Seq(T) /\ Len(a) = i /\ \A n \in 1..i : a[n] = p[n]
  BY <1>1, PrefixIsSeq
<1>3. b \in Seq(T) /\ Len(b) = Len(p) - i /\ \A n \in 1..(Len(p) - i) : b[n] = p[n + i]
  <2>1. i + 1 \in Int /\ Len(p) \in Int /\ \A n \in (i + 1)..Len(p) : p[n] \in T
    BY <1>1
  <2>2. /\ b \in Seq(T)
        /\ Len(b) = IF i + 1 <= Len(p) THEN Len(p) - (i + 1) + 1 ELSE 0
        /\ \A n \in 1..(Len(p) - (i + 1) + 1) : b[n] = p[i + 1 + n - 1]
    BY <2>1, SubSeqProperties
  <2> HIDE DEF b
  <2>3. Len(b) = Len(p) - i
    BY <1>1, <2>2
  <2>4. ASSUME NEW n \in 1..(Len(p) - i)
        PROVE  b[n] = p[n + i]
    <3>1. n \in 1..(Len(p) - (i + 1) + 1) /\ i + 1 + n - 1 = n + i
      BY <1>1
    <3> QED BY <2>2, <3>1
  <2> QED BY <2>2, <2>3, <2>4
<1> HIDE DEF a, b
<1>4. /\ a \o b \in Seq(T) /\ Len(a \o b) = Len(p)
      /\ \A n \in 1..Len(p) : (a \o b)[n] = IF n <= i THEN a[n] ELSE b[n - i]
  <2>1. /\ a \o b \in Seq(T) /\ Len(a \o b) = Len(a) + Len(b)
        /\ \A n \in 1..(Len(a) + Len(b)) :
             (a \o b)[n] = IF n <= Len(a) THEN a[n] ELSE b[n - Len(a)]
    <3>1. a \in Seq(T) /\ b \in Seq(T)
      BY <1>2, <1>3
    <3> QED BY <3>1, ConcatProperties
  <2>2. Len(a) + Len(b) = Len(p)
    BY <1>1, <1>2, <1>3
  <2> QED BY <1>2, <2>1, <2>2
<1>5. \A n \in 1..Len(p) : (a \o b)[n] = p[n]
  BY <1>1, <1>2, <1>3, <1>4
<1>6. p = a \o b
  BY <1>4, <1>5, SeqEqual
<1> QED BY <1>2, <1>3, <1>6 DEF a, b

(* A detour anywhere on the way leads to the same place.                   *)
LEMMA InsertDetour ==
  ASSUME NEW p \in Seq(Segment), NEW i \in 0..Len(p), NEW detour \in Detours
  PROVE  /\ Insert(p, i, detour) \in Seq(Segment)
         /\ Cleaned(Insert(p, i, detour)) = Cleaned(p)
<1> DEFINE a == SubSeq(p, 1, i)
           b == SubSeq(p, i + 1, Len(p))
<1>1. a \in Seq(Segment) /\ b \in Seq(Segment) /\ p = a \o b
  BY SplitSeq
<1>2. detour \in Seq(Segment)
  BY DetourType
<1>3. Insert(p, i, detour) = (a \o detour) \o b
  BY DEF Insert
<1> HIDE DEF a, b
<1>4. a \o detour \in Seq(Segment) /\ (a \o detour) \o b \in Seq(Segment)
  BY <1>1, <1>2, ConcatProperties
<1>5. Cleaned(a \o detour) = Cleaned(a)
  BY <1>1, DetourVanishes
<1>6. Cleaned((a \o detour) \o b) = Cleaned(a \o b)
  BY <1>1, <1>4, <1>5, CleanedConcat
<1> QED BY <1>1, <1>3, <1>4, <1>6

OfWords(path) == \A i \in 1..Len(path) : path[i].word \in Words

LEMMA OfWordsAppend ==
  ASSUME NEW p \in Seq(Segment), NEW s \in Segment
  PROVE  OfWords(Append(p, s)) <=> OfWords(p) /\ s.word \in Words
<1>1. /\ Len(p) \in Nat /\ Len(Append(p, s)) = Len(p) + 1 /\ Append(p, s)[Len(p) + 1] = s
      /\ \A i \in 1..Len(p) : Append(p, s)[i] = p[i]
  BY AppendParts
<1> QED BY <1>1 DEF OfWords

(* A path of words is clean.                                               *)
LEMMA WordsAreClean ==
  ASSUME NEW p \in Seq(Segment), OfWords(p)
  PROVE  Cleaned(p) = p
<1> DEFINE P == {x \in Seq(Segment) : OfWords(x) => Cleaned(x) = x}
<1>1. <<>> \in P
  <2>1. <<>> \in Seq(Segment)
    OBVIOUS
  <2> QED BY <2>1, CleanedEmpty
<1>2. ASSUME NEW x \in P, NEW s \in Segment
      PROVE  Append(x, s) \in P
  BY AppendParts, OfWordsAppend, WordIsKept
<1>3. P = Seq(Segment)
  <2>1. P \in SUBSET Seq(Segment)
    OBVIOUS
  <2> HIDE DEF P
  <2> QED BY <1>1, <1>2, <2>1, SeqInduction
<1> QED BY <1>3

(* What is left after path.Clean was there before.                         *)
OutOf(c, path) == \A i \in 1..Len(c) : \E j \in 1..Len(path) : c[i] = path[j]

LEMMA CleanedOutOfPath ==
  ASSUME NEW p \in Seq(Segment)
  PROVE  OutOf(Cleaned(p), p)
<1> DEFINE P == {x \in Seq(Segment) : OutOf(Cleaned(x), x)}
<1>1. <<>> \in P
  <2>1. <<>> \in Seq(Segment) /\ Len(<<>>) = 0
    OBVIOUS
  <2> QED BY <2>1, CleanedEmpty DEF OutOf
<1>2. ASSUME NEW x \in P, NEW s \in Segment
      PROVE  Append(x, s) \in P
  <2>0. x \in Seq(Segment) /\ OutOf(Cleaned(x), x)
    OBVIOUS
  <2> HIDE DEF P
  <2> DEFINE y == Append(x, s)
  <2>1. /\ y \in Seq(Segment) /\ Len(y) = Len(x) + 1 /\ y[Len(x) + 1] = s
        /\ \A i \in 1..Len(x) : y[i] = x[i]
    BY <2>0, AppendParts
  <2>a. Len(x) \in Nat
    BY <2>0
  <2>2. PICK c \in Seq(Segment) : c = Cleaned(x)
    BY <2>0, CleanedType
  <2>3. Cleaned(y) = CleanStep(c, s)
    BY <2>0, <2>1, <2>2, CleanedAppend
  <2> HIDE DEF y
  <2>4. OutOf(c, y)
    BY <2>0, <2>1, <2>2, <2>a DEF OutOf
  <2>5. ASSUME c # <<>>
        PROVE  OutOf(Front(c), y)
    <3>1. Len(Front(c)) = Len(c) - 1 /\ \A i \in 1..(Len(c) - 1) : Front(c)[i] = c[i]
      BY <2>5, FrontAndLast
    <3>2. Len(c) \in Nat
      OBVIOUS
    <3>3. ASSUME NEW i \in 1..Len(Front(c))
          PROVE  \E j \in 1..Len(y) : Front(c)[i] = y[j]
      <4>1. i \in 1..(Len(c) - 1) /\ i \in 1..Len(c)
        BY <3>1, <3>2
      <4>2. PICK j \in 1..Len(y) : c[i] = y[j]
        BY <2>4, <4>1 DEF OutOf
      <4> QED BY <3>1, <4>1, <4>2
    <3> QED BY <3>3 DEF OutOf
  <2>6. OutOf(Append(c, s), y)
    <3>1. /\ Len(Append(c, s)) = Len(c) + 1 /\ Len(c) \in Nat
          /\ Append(c, s)[Len(c) + 1] = s
          /\ \A i \in 1..Len(c) : Append(c, s)[i] = c[i]
      BY AppendParts
    <3>2. Len(x) + 1 \in 1..Len(y)
      BY <2>1, <2>a
    <3>3. ASSUME NEW i \in 1..(Len(c) + 1)
          PROVE  \E j \in 1..Len(y) : Append(c, s)[i] = y[j]
      <4>1. CASE i \in 1..Len(c)
        BY <2>4, <3>1, <4>1 DEF OutOf
      <4>2. CASE i = Len(c) + 1
        BY <2>1, <3>1, <3>2, <4>2
      <4> QED BY <3>1, <4>1, <4>2
    <3> QED BY <3>1, <3>3 DEF OutOf
  <2>7. OutOf(Cleaned(y), y)
    <3>1. \/ Cleaned(y) \in {c, Append(c, s)}
          \/ c # <<>> /\ Cleaned(y) = Front(c)
      BY <2>3, CleanStepValues
    <3> QED BY <2>4, <2>5, <2>6, <3>1
  <2> QED BY <2>1, <2>7 DEF P, y
<1>3. P = Seq(Segment)
  <2>1. P \in SUBSET Seq(Segment)
    OBVIOUS
  <2> HIDE DEF P
  <2> QED BY <1>1, <1>2, <2>1, SeqInduction
<1> QED BY <1>3
-----------------------------------------------------------------------------
(* A folder in front of a path.  A ".." that follows a word takes back no  *)
(* more than that word.                                                    *)

DotsPaired(path) ==
  \A i \in 1..Len(path) : path[i].word = ".." => i > 1 /\ path[i - 1].word \in Words

LEMMA DotsPairedAppend ==
  ASSUME NEW p \in Seq(Segment), NEW s \in Segment
  PROVE  DotsPaired(Append(p, s)) <=>
           DotsPaired(p) /\ (s.word = ".." => p # <<>> /\ Last(p).word \in Words)
<1> DEFINE q == Append(p, s)
<1>1. /\ Len(q) = Len(p) + 1 /\ q[Len(p) + 1] = s
      /\ \A i \in 1..Len(p) : q[i] = p[i]
  BY AppendParts
<1>2. Len(p) \in Nat /\ (p # <<>> <=> Len(p) > 0) /\ Last(p) = p[Len(p)]
  BY DEF Last
<1> HIDE DEF q
<1>3. ASSUME DotsPaired(q)
      PROVE  DotsPaired(p) /\ (s.word = ".." => p # <<>> /\ Last(p).word \in Words)
  <2>1. DotsPaired(p)
    BY <1>1, <1>2, <1>3 DEF DotsPaired
  <2>2. ASSUME s.word = ".."
        PROVE  p # <<>> /\ Last(p).word \in Words
    <3>1. Len(p) + 1 \in 1..Len(q) /\ q[Len(p) + 1].word = ".." /\ Len(p) + 1 - 1 = Len(p)
      BY <1>1, <1>2, <2>2
    <3>2. Len(p) + 1 > 1 /\ q[Len(p)].word \in Words
      BY <1>3, <3>1 DEF DotsPaired
    <3>3. q[Len(p)] = p[Len(p)]
      BY <1>1, <1>2, <3>2
    <3> QED BY <1>2, <3>2, <3>3
  <2> QED BY <2>1, <2>2
<1>4. ASSUME DotsPaired(p), s.word = ".." => p # <<>> /\ Last(p).word \in Words
      PROVE  DotsPaired(q)
  <2>1. ASSUME NEW i \in 1..Len(q), q[i].word = ".."
        PROVE  i > 1 /\ q[i - 1].word \in Words
    <3>1. CASE i \in 1..Len(p)
      <4>1. i > 1 /\ p[i - 1].word \in Words
        BY <1>1, <1>4, <2>1, <3>1 DEF DotsPaired
      <4>2. q[i - 1] = p[i - 1]
        BY <1>1, <1>2, <3>1, <4>1
      <4> QED BY <4>1, <4>2
    <3>2. CASE i = Len(p) + 1
      <4>1. s.word = ".." /\ i - 1 = Len(p)
        BY <1>1, <1>2, <2>1, <3>2
      <4>2. p # <<>> /\ p[Len(p)].word \in Words
        BY <1>2, <1>4, <4>1
      <4>3. q[Len(p)] = p[Len(p)]
        BY <1>1, <1>2, <4>2
      <4> QED BY <1>2, <3>2, <4>1, <4>2, <4>3
    <3> QED BY <1>1, <1>2, <3>1, <3>2
  <2> QED BY <2>1 DEF DotsPaired
<1> QED BY <1>3, <1>4 DEF q

LEMMA UnderFolder ==
  ASSUME NEW s \in Segment, s.word \in Words, NEW p \in Seq(Segment), DotsPaired(p)
  PROVE  Cleaned(<<s>> \o p) = <<s>> \o Cleaned(p)
<1> DEFINE P == {x \in Seq(Segment) : DotsPaired(x) => Cleaned(<<s>> \o x) = <<s>> \o Cleaned(x)}
<1>s. <<s>> \in Seq(Segment)
  OBVIOUS
<1>1. <<>> \in P
  <2>1. <<>> \in Seq(Segment) /\ <<s>> \o <<>> = <<s>> /\ <<s>> = Append(<<>>, s)
    BY ConcatEmptySeq
  <2>2. Cleaned(<<s>>) = <<s>>
    BY <2>1, CleanedEmpty, WordIsKept
  <2> QED BY <2>1, <2>2, CleanedEmpty
<1>2. ASSUME NEW x \in P, NEW t \in Segment
      PROVE  Append(x, t) \in P
  <2>1. x \in Seq(Segment) /\ Append(x, t) \in Seq(Segment)
    OBVIOUS
  <2> SUFFICES ASSUME DotsPaired(Append(x, t))
               PROVE  Cleaned(<<s>> \o Append(x, t)) = <<s>> \o Cleaned(Append(x, t))
    BY <2>1
  <2>2. DotsPaired(x) /\ (t.word = ".." => x # <<>> /\ Last(x).word \in Words)
    BY <2>1, DotsPairedAppend
  <2>3. Cleaned(<<s>> \o x) = <<s>> \o Cleaned(x)
    BY <2>2
  <2> HIDE DEF P
  <2>4. PICK c \in Seq(Segment) : c = Cleaned(x)
    BY <2>1, CleanedType
  <2>5. Cleaned(Append(x, t)) = CleanStep(c, t)
    BY <2>1, <2>4, CleanedAppend
  <2>6. Cleaned(<<s>> \o Append(x, t)) = CleanStep(<<s>> \o c, t)
    <3>1. <<s>> \o Append(x, t) = Append(<<s>> \o x, t) /\ <<s>> \o x \in Seq(Segment)
      BY <1>s, <2>1, ConcatAppend, ConcatProperties
    <3> QED BY <2>3, <2>4, <3>1, CleanedAppend
  <2>7. CASE t.word = ".."
    <3>1. PICK f \in Seq(Segment), l \in Segment : x = Append(f, l) /\ l = Last(x)
      BY <2>1, <2>2, <2>7, FrontAndLast
    <3>2. l.word \in Words /\ Cleaned(f) \in Seq(Segment)
      BY <2>2, <2>7, <3>1, CleanedType
    <3>3. c = Append(Cleaned(f), l)
      BY <2>4, <3>1, <3>2, WordIsKept
    <3>4. c # <<>>
      BY <3>2, <3>3, AppendParts
    <3>5. <<s>> \o c # <<>> /\ Front(<<s>> \o c) = <<s>> \o Front(c)
      BY <1>s, <3>4, ConcatFront
    <3>6. CleanStep(c, t) = Front(c)
      BY <2>7, <3>4, CleanStepValues
    <3>7. CleanStep(<<s>> \o c, t) = Front(<<s>> \o c)
      BY <2>7, <3>5, CleanStepValues
    <3> QED BY <2>5, <2>6, <3>5, <3>6, <3>7
  <2>8. CASE t \in {Nothing, Plain(".")}
    <3>1. CleanStep(c, t) = c /\ CleanStep(<<s>> \o c, t) = <<s>> \o c
      BY <2>8, CleanStepValues
    <3> QED BY <2>5, <2>6, <3>1
  <2>9. CASE t.word # ".." /\ t \notin {Nothing, Plain(".")}
    <3>1. CleanStep(c, t) = Append(c, t) /\ CleanStep(<<s>> \o c, t) = Append(<<s>> \o c, t)
      BY <2>9, CleanStepValues
    <3>2. <<s>> \o Append(c, t) = Append(<<s>> \o c, t)
      BY <1>s, ConcatAppend
    <3> QED BY <2>5, <2>6, <3>1, <3>2
  <2> QED BY <2>7, <2>8, <2>9
<1>3. P = Seq(Segment)
  <2>1. P \in SUBSET Seq(Segment)
    OBVIOUS
  <2> HIDE DEF P
  <2> QED BY <1>1, <1>2, <2>1, SeqInduction
<1> QED BY <1>3

-----------------------------------------------------------------------------
(* Lower case.  Only words have an upper case.                             *)

Low(s) == [s EXCEPT !.upper = FALSE]

Tidy(path) == \A i \in 1..Len(path) : path[i].upper => path[i].word \in Words

LEMMA LowFacts ==
  ASSUME NEW s \in Segment
  PROVE  Low(s) \in Segment /\ Low(s).word = s.word /\ Low(s).tail = s.tail /\ Low(s).upper = FALSE
<1>1. FALSE \in BOOLEAN
  OBVIOUS
<1> QED BY <1>1, Zenon DEF Low, Segment

LEMMA LowOfLow ==
  ASSUME NEW s \in Segment, ~s.upper
  PROVE  Low(s) = s
<1>1. s.upper = FALSE
  BY SegmentType
<1>2. /\ Low(s) \in Segment /\ Low(s).word = s.word
      /\ Low(s).tail = s.tail /\ Low(s).upper = s.upper
  BY <1>1, LowFacts
<1> QED BY <1>2, SegmentEqual, Zenon

LEMMA LowerCaseParts ==
  ASSUME NEW p \in Seq(Segment)
  PROVE  /\ LowerCase(p) \in Seq(Segment) /\ Len(LowerCase(p)) = Len(p)
         /\ \A i \in 1..Len(p) : LowerCase(p)[i] = Low(p[i])
<1>1. Len(p) \in Nat /\ DOMAIN p = 1..Len(p) /\ \A i \in 1..Len(p) : p[i] \in Segment
  OBVIOUS
<1>2. LowerCase(p) = [i \in 1..Len(p) |-> Low(p[i])]
  BY <1>1 DEF LowerCase, Low
<1>3. \A i \in 1..Len(p) : Low(p[i]) \in Segment
  BY <1>1, LowFacts
<1> QED BY <1>1, <1>2, <1>3

LEMMA LowerAppend ==
  ASSUME NEW p \in Seq(Segment), NEW s \in Segment
  PROVE  LowerCase(Append(p, s)) = Append(LowerCase(p), Low(s))
<1> DEFINE q == Append(p, s)
           a == LowerCase(q)
           b == Append(LowerCase(p), Low(s))
<1>1. /\ q \in Seq(Segment) /\ Len(q) = Len(p) + 1 /\ q[Len(p) + 1] = s
      /\ \A i \in 1..Len(p) : q[i] = p[i]
  BY AppendParts
<1>2. Len(p) \in Nat
  OBVIOUS
<1>3. a \in Seq(Segment) /\ Len(a) = Len(q) /\ \A i \in 1..Len(q) : a[i] = Low(q[i])
  BY <1>1, LowerCaseParts
<1>4. /\ LowerCase(p) \in Seq(Segment) /\ Len(LowerCase(p)) = Len(p) /\ Low(s) \in Segment
      /\ \A i \in 1..Len(p) : LowerCase(p)[i] = Low(p[i])
  BY LowerCaseParts, LowFacts
<1>5. /\ b \in Seq(Segment) /\ Len(b) = Len(LowerCase(p)) + 1 /\ b[Len(LowerCase(p)) + 1] = Low(s)
      /\ \A i \in 1..Len(LowerCase(p)) : b[i] = LowerCase(p)[i]
  BY <1>4, AppendParts
<1> HIDE DEF q, a, b
<1>6. Len(a) = Len(b) /\ \A i \in 1..Len(a) : a[i] = b[i]
  BY <1>1, <1>2, <1>3, <1>4, <1>5
<1>7. a = b
  BY <1>3, <1>5, <1>6, SeqEqual
<1> QED BY <1>7 DEF q, a, b

LEMMA LowerConcat ==
  ASSUME NEW p \in Seq(Segment), NEW q \in Seq(Segment)
  PROVE  LowerCase(p \o q) = LowerCase(p) \o LowerCase(q)
<1> DEFINE r == p \o q
           a == LowerCase(r)
           lp == LowerCase(p)
           lq == LowerCase(q)
           b == lp \o lq
<1>1. /\ r \in Seq(Segment) /\ Len(r) = Len(p) + Len(q)
      /\ \A i \in 1..(Len(p) + Len(q)) : r[i] = IF i <= Len(p) THEN p[i] ELSE q[i - Len(p)]
  BY ConcatProperties
<1>2. Len(p) \in Nat /\ Len(q) \in Nat
  OBVIOUS
<1>3. a \in Seq(Segment) /\ Len(a) = Len(r) /\ \A i \in 1..Len(r) : a[i] = Low(r[i])
  BY <1>1, LowerCaseParts
<1>4. /\ lp \in Seq(Segment) /\ Len(lp) = Len(p) /\ \A i \in 1..Len(p) : lp[i] = Low(p[i])
      /\ lq \in Seq(Segment) /\ Len(lq) = Len(q) /\ \A i \in 1..Len(q) : lq[i] = Low(q[i])
  BY LowerCaseParts
<1> HIDE DEF r, a, lp, lq
<1>5. /\ b \in Seq(Segment) /\ Len(b) = Len(lp) + Len(lq)
      /\ \A i \in 1..(Len(lp) + Len(lq)) : b[i] = IF i <= Len(lp) THEN lp[i] ELSE lq[i - Len(lp)]
  <2>1. lp \in Seq(Segment) /\ lq \in Seq(Segment)
    BY <1>4
  <2> QED BY <2>1, ConcatProperties
<1> HIDE DEF b
<1>6. Len(a) = Len(b)
  BY <1>1, <1>2, <1>3, <1>4, <1>5
<1>7. ASSUME NEW i \in 1..Len(a)
      PROVE  a[i] = b[i]
  <2>1. CASE i <= Len(p)
    <3>1. i \in 1..Len(p) /\ i \in 1..(Len(p) + Len(q))
      BY <1>1, <1>2, <1>3, <2>1
    <3> QED BY <1>1, <1>3, <1>4, <1>5, <2>1, <3>1
  <2>2. CASE ~(i <= Len(p))
    <3>1. i - Len(p) \in 1..Len(q) /\ i \in 1..(Len(p) + Len(q))
      BY <1>1, <1>2, <1>3, <2>2
    <3> QED BY <1>1, <1>3, <1>4, <1>5, <2>2, <3>1
  <2> QED BY <2>1, <2>2
<1>8. a = b
  BY <1>3, <1>5, <1>6, <1>7, SeqEqual
<1> QED BY <1>8 DEF r, a, lp, lq, b

LEMMA LowerEmpty ==
  ASSUME NEW p \in Seq(Segment)
  PROVE  LowerCase(p) = <<>> <=> p = <<>>
<1>1. LowerCase(p) \in Seq(Segment) /\ Len(LowerCase(p)) = Len(p)
  BY LowerCaseParts
<1> QED BY <1>1, EmptySeq

LEMMA LowerFront ==
  ASSUME NEW p \in Seq(Segment), p # <<>>
  PROVE  LowerCase(Front(p)) = Front(LowerCase(p)) /\ Last(LowerCase(p)) = Low(Last(p))
<1>1. PICK f \in Seq(Segment), l \in Segment : f = Front(p) /\ l = Last(p) /\ p = Append(f, l)
  BY FrontAndLast
<1>2. LowerCase(p) = Append(LowerCase(f), Low(l))
  BY <1>1, LowerAppend
<1>3. LowerCase(f) \in Seq(Segment) /\ Low(l) \in Segment
  BY LowerCaseParts, LowFacts
<1> QED BY <1>1, <1>2, <1>3, AppendParts

LEMMA LowerOfLower ==
  ASSUME NEW p \in Seq(Segment), \A i \in 1..Len(p) : ~p[i].upper
  PROVE  LowerCase(p) = p
<1>1. /\ LowerCase(p) \in Seq(Segment) /\ Len(LowerCase(p)) = Len(p)
      /\ \A i \in 1..Len(p) : LowerCase(p)[i] = Low(p[i])
  BY LowerCaseParts
<1>2. \A i \in 1..Len(p) : Low(p[i]) = p[i]
  BY LowOfLow
<1> QED BY <1>1, <1>2, SeqEqual

LEMMA LowKinds ==
  ASSUME NEW s \in Segment, s.upper => s.word \in Words
  PROVE  Low(s) \in {Nothing, Plain(".")} => s = Low(s)
<1> SUFFICES ASSUME Low(s) \in {Nothing, Plain(".")} PROVE ~s.upper
  BY LowOfLow
<1>1. Low(s).word \in {"", "."}
  BY SegmentFacts
<1> QED BY <1>1, LowFacts, WordAssumption

LEMMA TidyAppend ==
  ASSUME NEW p \in Seq(Segment), NEW s \in Segment
  PROVE  Tidy(Append(p, s)) <=> Tidy(p) /\ (s.upper => s.word \in Words)
<1>1. /\ Len(p) \in Nat /\ Len(Append(p, s)) = Len(p) + 1 /\ Append(p, s)[Len(p) + 1] = s
      /\ \A i \in 1..Len(p) : Append(p, s)[i] = p[i]
  BY AppendParts
<1> QED BY <1>1 DEF Tidy

(* path.Clean and lower case can be exchanged.                             *)
LEMMA CleanedLower ==
  ASSUME NEW p \in Seq(Segment), Tidy(p)
  PROVE  Cleaned(LowerCase(p)) = LowerCase(Cleaned(p))
<1> DEFINE P == {x \in Seq(Segment) : Tidy(x) => Cleaned(LowerCase(x)) = LowerCase(Cleaned(x))}
<1>1. <<>> \in P
  <2>1. <<>> \in Seq(Segment)
    OBVIOUS
  <2>2. LowerCase(<<>>) = <<>>
    BY <2>1, LowerEmpty
  <2> QED BY <2>1, <2>2, CleanedEmpty
<1>2. ASSUME NEW x \in P, NEW s \in Segment
      PROVE  Append(x, s) \in P
  <2>1. x \in Seq(Segment) /\ Append(x, s) \in Seq(Segment)
    OBVIOUS
  <2> SUFFICES ASSUME Tidy(Append(x, s))
               PROVE  Cleaned(LowerCase(Append(x, s))) = LowerCase(Cleaned(Append(x, s)))
    BY <2>1
  <2>2. Tidy(x) /\ (s.upper => s.word \in Words)
    BY <2>1, TidyAppend
  <2>3. Cleaned(LowerCase(x)) = LowerCase(Cleaned(x))
    BY <2>2
  <2> HIDE DEF P
  <2>4. PICK c \in Seq(Segment) : c = Cleaned(x)
    BY <2>1, CleanedType
  <2>5. LowerCase(c) \in Seq(Segment) /\ LowerCase(x) \in Seq(Segment) /\ Low(s) \in Segment /\ Low(s).word = s.word
    BY <2>1, LowerCaseParts, LowFacts
  <2>6. Cleaned(LowerCase(Append(x, s))) = CleanStep(LowerCase(c), Low(s))
    BY <2>1, <2>3, <2>4, <2>5, LowerAppend, CleanedAppend
  <2>7. Cleaned(Append(x, s)) = CleanStep(c, s)
    BY <2>1, <2>4, CleanedAppend
  <2>8. CASE s.word = ".."
    <3>1. CASE c = <<>>
      <4>1. LowerCase(c) = <<>>
        BY <3>1, LowerEmpty
      <4> QED BY <2>5, <2>6, <2>7, <2>8, <3>1, <4>1, CleanStepValues
    <3>2. CASE c # <<>>
      <4>1. LowerCase(c) # <<>> /\ LowerCase(Front(c)) = Front(LowerCase(c))
        BY <3>2, LowerEmpty, LowerFront
      <4>2. CleanStep(c, s) = Front(c)
        BY <2>8, <3>2, CleanStepValues
      <4>3. CleanStep(LowerCase(c), Low(s)) = Front(LowerCase(c))
        BY <2>5, <2>8, <4>1, CleanStepValues
      <4> QED BY <2>6, <2>7, <4>1, <4>2, <4>3
    <3> QED BY <3>1, <3>2
  <2>9. CASE s \in {Nothing, Plain(".")}
    <3>1. Low(s) = s
      <4>1. ~s.upper
        BY <2>9, SegmentFacts
      <4> QED BY <4>1, LowOfLow
    <3>2. CleanStep(c, s) = c /\ CleanStep(LowerCase(c), s) = LowerCase(c)
      BY <2>9, CleanStepValues
    <3> QED BY <2>6, <2>7, <3>1, <3>2
  <2>10. CASE s.word # ".." /\ s \notin {Nothing, Plain(".")}
    <3>1. Low(s) \notin {Nothing, Plain(".")}
      BY <2>2, <2>10, LowKinds
    <3>2. CleanStep(c, s) = Append(c, s)
      BY <2>10, CleanStepValues
    <3>3. CleanStep(LowerCase(c), Low(s)) = Append(LowerCase(c), Low(s))
      BY <2>5, <2>10, <3>1, CleanStepValues
    <3> QED BY <2>6, <2>7, <3>2, <3>3, LowerAppend
  <2> QED BY <2>8, <2>9, <2>10
<1>3. P = Seq(Segment)
  <2>1. P \in SUBSET Seq(Segment)
    OBVIOUS
  <2> HIDE DEF P
  <2> QED BY <1>1, <1>2, <2>1, SeqInduction
<1> QED BY <1>3
-----------------------------------------------------------------------------
(* The path that each set of rules makes of a path.                        *)

NoIndex(s) == [s EXCEPT !.tail = IF @ = "index" THEN "" ELSE @]
NoGit(s) == [s EXCEPT !.tail = IF @ = "git" THEN "" ELSE @]

BasePath(path) == IF path = <<>> THEN path ELSE Clean(path)
DocsKey(path) == DocsPath(BasePath(path))
GitKey(path) == GitPath(BasePath(path))
SlashForm(path) == WithSlash(WithoutIndex(path))

LEMMA NoTailFacts ==
  ASSUME NEW s \in Segment
  PROVE  /\ NoIndex(s) \in Segment /\ NoIndex(s).word = s.word /\ NoIndex(s).upper = s.upper
         /\ NoIndex(s).tail = IF s.tail = "index" THEN "" ELSE s.tail
         /\ NoGit(s) \in Segment /\ NoGit(s).word = s.word /\ NoGit(s).upper = s.upper
         /\ NoGit(s).tail = IF s.tail = "git" THEN "" ELSE s.tail
BY DEF NoIndex, NoGit, Segment, Tails

LEMMA ReplaceLast ==
  ASSUME NEW T, NEW f \in Seq(T), NEW l \in T, NEW m \in T
  PROVE  [Append(f, l) EXCEPT ![Len(Append(f, l))] = m] = Append(f, m)
<1> DEFINE p == Append(f, l)
           q == [Append(f, l) EXCEPT ![Len(Append(f, l))] = m]
           r == Append(f, m)
<1>1. /\ p \in Seq(T) /\ Len(p) = Len(f) + 1
      /\ \A i \in 1..Len(f) : p[i] = f[i]
  BY AppendParts
<1>2. /\ r \in Seq(T) /\ Len(r) = Len(f) + 1 /\ r[Len(f) + 1] = m
      /\ \A i \in 1..Len(f) : r[i] = f[i]
  BY AppendParts
<1>3. Len(f) \in Nat
  OBVIOUS
<1>4. q = [p EXCEPT ![Len(p)] = m]
  OBVIOUS
<1> HIDE DEF p, q, r
<1>5. q \in Seq(T) /\ Len(q) = Len(p) /\ \A i \in 1..Len(p) : q[i] = IF i = Len(p) THEN m ELSE p[i]
  <2>1. Len(p) \in 1..Len(p)
    BY <1>1, <1>3
  <2> QED BY <1>1, <1>4, <2>1, ExceptSeq
<1>6. \A i \in 1..Len(q) : q[i] = r[i]
  BY <1>1, <1>2, <1>3, <1>5
<1>7. q = r
  BY <1>1, <1>2, <1>5, <1>6, SeqEqual
<1> QED BY <1>7 DEF q, r

LEMMA WithoutTails ==
  ASSUME NEW f \in Seq(Segment), NEW l \in Segment
  PROVE  /\ WithoutIndex(Append(f, l)) = Append(f, NoIndex(l))
         /\ WithoutGit(Append(f, l)) = Append(f, NoGit(l))
<1>1. Append(f, l) # <<>> /\ Append(f, l)[Len(Append(f, l))] = l
  <2>1. Len(Append(f, l)) = Len(f) + 1 /\ Append(f, l)[Len(f) + 1] = l /\ Append(f, l) # <<>>
    BY AppendParts
  <2> QED BY <2>1
<1>2. NoIndex(l) \in Segment /\ NoGit(l) \in Segment
  BY NoTailFacts
<1>3. WithoutIndex(Append(f, l)) = [Append(f, l) EXCEPT ![Len(Append(f, l))] = NoIndex(l)]
  BY <1>1 DEF WithoutIndex, NoIndex
<1>4. WithoutGit(Append(f, l)) = [Append(f, l) EXCEPT ![Len(Append(f, l))] = NoGit(l)]
  BY <1>1 DEF WithoutGit, NoGit
<1>5. [Append(f, l) EXCEPT ![Len(Append(f, l))] = NoIndex(l)] = Append(f, NoIndex(l))
  BY <1>2, ReplaceLast
<1>6. [Append(f, l) EXCEPT ![Len(Append(f, l))] = NoGit(l)] = Append(f, NoGit(l))
  BY <1>2, ReplaceLast
<1> QED BY <1>3, <1>4, <1>5, <1>6

LEMMA SlashFormValues ==
  ASSUME NEW f \in Seq(Segment), NEW l \in Segment, NEW m \in Segment, m = NoIndex(l)
  PROVE  SlashForm(Append(f, l)) = IF m = Nothing \/ m.tail # "" \/ m.word \in DottedWords
                                   THEN Append(f, m) ELSE Append(Append(f, m), Nothing)
<1>1. WithoutIndex(Append(f, l)) = Append(f, m)
  BY WithoutTails
<1>2. Append(f, m) # <<>> /\ Last(Append(f, m)) = m
  BY AppendParts
<1> QED BY <1>1, <1>2 DEF SlashForm, WithSlash, EndsInSlash

LEMMA SlashFormOfRoot == SlashForm(<<>>) = <<>> /\ SlashForm(<<Nothing>>) = <<Nothing>>
<1>1. SlashForm(<<>>) = <<>>
  BY DEF SlashForm, WithoutIndex, WithSlash
<1>2. Nothing \in Segment /\ NoIndex(Nothing) = Nothing
  <2>1. Nothing \in Segment /\ Nothing.tail = ""
    BY SegmentFacts
  <2> QED BY <2>1, NoTailFacts, SegmentEqual
<1>3. <<>> \in Seq(Segment) /\ <<Nothing>> = Append(<<>>, Nothing)
  OBVIOUS
<1>4. SlashForm(Append(<<>>, Nothing)) = Append(<<>>, Nothing)
  BY <1>2, <1>3, SlashFormValues
<1> QED BY <1>1, <1>3, <1>4

LEMMA PutInFront ==
  ASSUME NEW T, NEW s \in T, NEW q \in Seq(T)
  PROVE  /\ <<s>> \o q \in Seq(T) /\ <<s>> \o q # <<>>
         /\ Len(<<s>> \o q) = Len(q) + 1 /\ (<<s>> \o q)[1] = s
         /\ \A i \in 1..Len(q) : (<<s>> \o q)[i + 1] = q[i]
         /\ Tail(<<s>> \o q) = q
<1> DEFINE p == <<s>> \o q
<1>1. <<s>> \in Seq(T) /\ Len(<<s>>) = 1 /\ <<s>>[1] = s /\ Len(q) \in Nat
  OBVIOUS
<1>2. /\ p \in Seq(T) /\ Len(p) = Len(<<s>>) + Len(q)
      /\ \A i \in 1..(Len(<<s>>) + Len(q)) : p[i] = IF i <= Len(<<s>>) THEN <<s>>[i] ELSE q[i - Len(<<s>>)]
  BY <1>1, ConcatProperties
<1> HIDE DEF p
<1>3. Len(p) = Len(q) + 1 /\ p[1] = s /\ \A i \in 1..Len(q) : p[i + 1] = q[i]
  <2>1. Len(p) = Len(q) + 1
    BY <1>1, <1>2
  <2>2. p[1] = s
    BY <1>1, <1>2
  <2>3. ASSUME NEW i \in 1..Len(q)
        PROVE  p[i + 1] = q[i]
    <3>1. i + 1 \in 1..(Len(<<s>>) + Len(q)) /\ ~(i + 1 <= Len(<<s>>)) /\ i + 1 - Len(<<s>>) = i
      BY <1>1
    <3> QED BY <1>2, <3>1
  <2> QED BY <2>1, <2>2, <2>3
<1>4. p # <<>>
  BY <1>1, <1>3
<1>5. Tail(p) \in Seq(T) /\ Len(Tail(p)) = Len(p) - 1 /\ \A i \in 1..Len(Tail(p)) : Tail(p)[i] = p[i + 1]
  BY <1>2, <1>4, HeadTailProperties
<1>6. Len(Tail(p)) = Len(q)
  BY <1>1, <1>3, <1>5
<1>7. \A i \in 1..Len(Tail(p)) : Tail(p)[i] = q[i]
  BY <1>3, <1>5, <1>6
<1>8. Tail(p) = q
  BY <1>5, <1>6, <1>7, SeqEqual
<1> QED BY <1>2, <1>3, <1>4, <1>8 DEF p

LEMMA FirstAndTail ==
  ASSUME NEW T, NEW p \in Seq(T), p # <<>>
  PROVE  p[1] \in T /\ Tail(p) \in Seq(T) /\ p = <<p[1]>> \o Tail(p)
<1>1. Len(p) \in Nat /\ Len(p) >= 1 /\ 1 \in 0..Len(p) /\ p[1] \in T
  BY EmptySeq
<1>2. /\ SubSeq(p, 1, 1) \in Seq(T) /\ SubSeq(p, 2, Len(p)) \in Seq(T)
      /\ Len(SubSeq(p, 1, 1)) = 1 /\ SubSeq(p, 1, 1)[1] = p[1]
      /\ p = SubSeq(p, 1, 1) \o SubSeq(p, 2, Len(p))
  BY <1>1, SplitSeq
<1>3. SubSeq(p, 1, 1) = <<p[1]>>
  <2>1. PICK a \in Seq(T) : a = SubSeq(p, 1, 1)
    BY <1>2
  <2>2. PICK s \in T : s = p[1]
    BY <1>1
  <2>3. Len(a) = 1 /\ a[1] = s
    BY <1>2, <2>1, <2>2
  <2>4. a = <<s>>
    BY <2>3
  <2> QED BY <2>1, <2>2, <2>4
<1>4. Tail(p) = SubSeq(p, 2, Len(p))
  BY TailIsSubSeq
<1> QED BY <1>1, <1>2, <1>3, <1>4

LEMMA TakeFirst ==
  ASSUME NEW T, NEW p \in Seq(T), p # <<>>
  PROVE  \E s \in T, q \in Seq(T) : p = <<s>> \o q
<1>1. p[1] \in T /\ Tail(p) \in Seq(T) /\ p = <<p[1]>> \o Tail(p)
  BY FirstAndTail
<1> QED BY <1>1

LEMMA LowerAfterLocale ==
  ASSUME NEW p \in Seq(Segment)
  PROVE  /\ WithoutLocale(p) \in Seq(Segment)
         /\ LowerCase(WithoutLocale(p)) = WithoutLocale(LowerCase(p))
<1>1. CASE p = <<>>
  <2>1. ~(Len(p) > 1) /\ LowerCase(p) = p
    <3>1. Len(p) = 0
      BY <1>1
    <3>2. LowerCase(p) = <<>>
      BY <1>1, LowerEmpty
    <3> QED BY <1>1, <3>1, <3>2
  <2>2. WithoutLocale(p) = p
    BY <2>1 DEF WithoutLocale
  <2> QED BY <2>1, <2>2
<1>2. CASE p # <<>>
  <2>1. PICK s \in Segment, q \in Seq(Segment) : p = <<s>> \o q
    BY <1>2, TakeFirst
  <2>2. p[1] = s /\ Len(p) = Len(q) + 1 /\ Tail(p) = q
    BY <2>1, PutInFront
  <2>3. Low(s) \in Segment /\ LowerCase(q) \in Seq(Segment) /\ Len(LowerCase(q)) = Len(q)
        /\ Low(s).word = s.word /\ Low(s).tail = s.tail
    BY LowFacts, LowerCaseParts
  <2>4. LowerCase(p) = <<Low(s)>> \o LowerCase(q)
    <3>1. <<s>> \in Seq(Segment) /\ <<s>> = Append(<<>>, s) /\ <<>> \in Seq(Segment)
      OBVIOUS
    <3>2. LowerCase(<<s>>) = <<Low(s)>>
      <4>1. LowerCase(<<>>) = <<>> /\ LowerCase(<<s>>) = Append(LowerCase(<<>>), Low(s))
        BY <3>1, LowerEmpty, LowerAppend
      <4> QED BY <4>1
    <3> QED BY <2>1, <3>1, <3>2, LowerConcat
  <2>5. /\ LowerCase(p)[1] = Low(s) /\ Len(LowerCase(p)) = Len(q) + 1
        /\ Tail(LowerCase(p)) = LowerCase(q)
    BY <2>3, <2>4, PutInFront
  <2> QED BY <2>2, <2>3, <2>5 DEF WithoutLocale
<1> QED BY <1>1, <1>2

LEMMA DocsPathInSteps ==
  ASSUME NEW p \in Seq(Segment)
  PROVE  DocsPath(p) = SlashForm(WithoutLocale(LowerCase(p)))
BY LowerAfterLocale DEF DocsPath, SlashForm
-----------------------------------------------------------------------------
(* The rules of documentation, path by path.                               *)

PagePath(path) ==
  /\ path \in Seq(Segment) /\ path # <<>> /\ OfWords(path)
  /\ \A i \in 1..Len(path) : ~path[i].upper
  /\ Len(path) = 1 \/ path[1].word \notin LocaleWords

LEMMA PagePathIsPlain ==
  ASSUME NEW p, PagePath(p)
  PROVE  LowerCase(p) = p /\ WithoutLocale(p) = p /\ Cleaned(p) = p
<1>1. p \in Seq(Segment) /\ OfWords(p) /\ \A i \in 1..Len(p) : ~p[i].upper
  BY DEF PagePath
<1>2. LowerCase(p) = p
  BY <1>1, LowerOfLower
<1>3. WithoutLocale(p) = p
  <2>1. ~(Len(p) > 1 /\ p[1].word \in LocaleWords)
    BY DEF PagePath
  <2> QED BY <2>1 DEF WithoutLocale
<1> QED BY <1>1, <1>2, <1>3, WordsAreClean

LEMMA DocsKeyInSteps ==
  ASSUME NEW p \in Seq(Segment), p # <<>>
  PROVE  DocsKey(p) = IF Cleaned(p) = <<>> THEN <<Nothing>>
                      ELSE SlashForm(WithoutLocale(LowerCase(Cleaned(p))))
<1>1. CASE Cleaned(p) = <<>>
  <2>1. /\ <<Nothing>> \in Seq(Segment) /\ <<Nothing>> # <<>> /\ Len(<<Nothing>>) = 1
        /\ <<Nothing>>[1] = Nothing
    BY SpecialSegments
  <2>2. LowerCase(<<Nothing>>) = <<Nothing>>
    <3>1. \A i \in 1..Len(<<Nothing>>) : ~<<Nothing>>[i].upper
      <4>1. ~Nothing.upper
        BY SegmentFacts
      <4> QED BY <2>1, <4>1
    <3> HIDE DEF Nothing
    <3> QED BY <2>1, <3>1, LowerOfLower
  <2>3. WithoutLocale(<<Nothing>>) = <<Nothing>>
    BY <2>1 DEF WithoutLocale
  <2>4. BasePath(p) = <<Nothing>>
    BY <1>1 DEF BasePath, Clean
  <2>5. DocsPath(<<Nothing>>) = SlashForm(<<Nothing>>)
    BY <2>1, <2>2, <2>3, DocsPathInSteps
  <2> QED BY <1>1, <2>4, <2>5, SlashFormOfRoot DEF DocsKey
<1>2. CASE Cleaned(p) # <<>>
  <2>1. Cleaned(p) \in Seq(Segment)
    BY CleanedType
  <2>2. BasePath(p) = Cleaned(p)
    BY <1>2 DEF BasePath, Clean
  <2> QED BY <1>2, <2>1, <2>2, DocsPathInSteps DEF DocsKey
<1> QED BY <1>1, <1>2

LEMMA DocsKeyOfEmpty == DocsKey(<<>>) = <<>>
<1>1. <<>> \in Seq(Segment) /\ ~(Len(<<>>) > 1)
  OBVIOUS
<1>2. LowerCase(<<>>) = <<>>
  BY <1>1, LowerEmpty
<1>3. WithoutLocale(<<>>) = <<>>
  BY <1>1 DEF WithoutLocale
<1> QED BY <1>1, <1>2, <1>3, DocsPathInSteps, SlashFormOfRoot DEF DocsKey, BasePath

LEMMA DocsKeyOfPage ==
  ASSUME NEW x, PagePath(x), NEW p \in Seq(Segment), p # <<>>, LowerCase(Cleaned(p)) = x
  PROVE  DocsKey(p) = SlashForm(x)
<1>1. x # <<>> /\ WithoutLocale(x) = x
  BY PagePathIsPlain DEF PagePath
<1>2. Cleaned(p) # <<>>
  BY <1>1, CleanedType, LowerEmpty
<1> QED BY <1>1, <1>2, DocsKeyInSteps

(* The form of a page's path is the path without the name of an index      *)
(* file, or that with a "/".                                               *)
LEMMA FormOfPage ==
  ASSUME NEW f \in Seq(Segment), NEW l \in Segment, PagePath(Append(f, l)),
         NEW m, m = NoIndex(l)
  PROVE  /\ m \in Segment /\ m.word \in Words /\ m.word = l.word
         /\ PagePath(Append(f, m))
         /\ SlashForm(Append(f, m)) = SlashForm(Append(f, l))
         /\ SlashForm(Append(f, l)) = IF m.tail # "" \/ m.word \in DottedWords
                                      THEN Append(f, m) ELSE Append(Append(f, m), Nothing)
<1>1. /\ Len(f) \in Nat
      /\ Len(Append(f, l)) = Len(f) + 1 /\ Append(f, l)[Len(f) + 1] = l
      /\ \A i \in 1..Len(f) : Append(f, l)[i] = f[i]
  BY AppendParts
<1>2. l.word \in Words /\ ~l.upper
  <2>1. Len(f) + 1 \in 1..Len(Append(f, l))
    BY <1>1
  <2> QED BY <1>1, <2>1 DEF PagePath, OfWords
<1>3. /\ m \in Segment /\ m.word = l.word /\ m.upper = l.upper
      /\ m.tail = IF l.tail = "index" THEN "" ELSE l.tail
  BY NoTailFacts
<1>4. m # Nothing /\ l # Nothing
  BY <1>2, <1>3, SegmentFacts, WordAssumption
<1>5. /\ Append(f, m) \in Seq(Segment) /\ Append(f, m) # <<>>
      /\ Len(Append(f, m)) = Len(f) + 1 /\ Append(f, m)[Len(f) + 1] = m
      /\ \A i \in 1..Len(f) : Append(f, m)[i] = f[i]
  <2>1. m \in Segment
    BY <1>3
  <2> QED BY <2>1, AppendParts
<1>6. PagePath(Append(f, m))
  <2>1. ASSUME NEW i \in 1..Len(Append(f, m))
        PROVE  Append(f, m)[i].word = Append(f, l)[i].word /\ Append(f, m)[i].upper = Append(f, l)[i].upper
    <3>1. CASE i \in 1..Len(f)
      BY <1>1, <1>5, <3>1
    <3>2. CASE i = Len(f) + 1
      BY <1>1, <1>3, <1>5, <3>2
    <3> QED BY <1>1, <1>5, <3>1, <3>2
  <2>2. OfWords(Append(f, m)) /\ \A i \in 1..Len(Append(f, m)) : ~Append(f, m)[i].upper
    BY <1>1, <1>5, <2>1 DEF PagePath, OfWords
  <2>3. Len(Append(f, m)) = 1 \/ Append(f, m)[1].word \notin LocaleWords
    <3>1. 1 \in 1..Len(Append(f, m))
      BY <1>1, <1>5
    <3> QED BY <1>1, <1>5, <2>1, <3>1 DEF PagePath
  <2> QED BY <1>5, <2>2, <2>3 DEF PagePath
<1>7. NoIndex(m) = m
  BY <1>3, NoTailFacts, SegmentEqual
<1>8. SlashForm(Append(f, l)) = IF m.tail # "" \/ m.word \in DottedWords
                                THEN Append(f, m) ELSE Append(Append(f, m), Nothing)
  BY <1>3, <1>4, SlashFormValues
<1>9. SlashForm(Append(f, m)) = IF m.tail # "" \/ m.word \in DottedWords
                                THEN Append(f, m) ELSE Append(Append(f, m), Nothing)
  BY <1>3, <1>4, <1>7, SlashFormValues
<1> QED BY <1>2, <1>3, <1>6, <1>8, <1>9

LEMMA FormIsStable ==
  ASSUME NEW x, PagePath(x)
  PROVE  /\ DocsKey(SlashForm(x)) = SlashForm(x)
         /\ SlashForm(x) \in Seq(Segment) /\ SlashForm(x) # <<>>
<1>1. PICK f \in Seq(Segment), l \in Segment : x = Append(f, l)
  <2>1. x \in Seq(Segment) /\ x # <<>>
    BY DEF PagePath
  <2> QED BY <2>1, TakeLast
<1>2. PICK m \in Segment : m = NoIndex(l)
  BY NoTailFacts
<1>3. PICK y : y = Append(f, m)
  OBVIOUS
<1>4. /\ PagePath(y) /\ SlashForm(y) = SlashForm(x)
      /\ SlashForm(x) \in {y, Append(y, Nothing)}
  BY <1>1, <1>2, <1>3, FormOfPage
<1>5. y \in Seq(Segment) /\ y # <<>> /\ Cleaned(y) = y /\ LowerCase(y) = y
  BY <1>4, PagePathIsPlain DEF PagePath
<1>6. Append(y, Nothing) \in Seq(Segment) /\ Append(y, Nothing) # <<>> /\ Cleaned(Append(y, Nothing)) = y
  <2>1. Append(y, Nothing) \in Seq(Segment) /\ Append(y, Nothing) # <<>>
    BY <1>5, SpecialSegments, AppendParts
  <2>2. Cleaned(Append(y, Nothing)) = y
    BY <1>5, SlashVanishes
  <2> QED BY <2>1, <2>2
<1>7. DocsKey(y) = SlashForm(y) /\ DocsKey(Append(y, Nothing)) = SlashForm(y)
  BY <1>4, <1>5, <1>6, DocsKeyOfPage
<1> QED BY <1>4, <1>5, <1>6, <1>7

(* The paths of links to a page: a locale in front, an index file behind.  *)
Locales == {<<>>} \union {<<Plain(w)>> : w \in LocaleWords}
Indices == {<<>>, <<IndexFile>>}

LEMMA LocaleFacts ==
  /\ \A w \in LocaleWords : /\ Plain(w) \in Segment /\ w \in Words
                            /\ <<Plain(w)>> \in Seq(Segment) /\ PagePath(<<Plain(w)>>)
  /\ Locales \subseteq Seq(Segment)
  /\ Indices \subseteq Seq(Segment)
<1>1. ASSUME NEW w \in LocaleWords
      PROVE  /\ Plain(w) \in Segment /\ w \in Words
             /\ <<Plain(w)>> \in Seq(Segment) /\ PagePath(<<Plain(w)>>)
  <2>1. w \in Words
    BY WordAssumption
  <2>2. PICK s \in Segment : s = Plain(w) /\ s.word = w /\ ~s.upper
    BY <2>1, SegmentFacts
  <2>3. /\ <<s>> \in Seq(Segment) /\ <<s>> # <<>> /\ Len(<<s>>) = 1 /\ <<s>>[1] = s
    OBVIOUS
  <2>4. PagePath(<<s>>)
    BY <2>1, <2>2, <2>3 DEF PagePath, OfWords
  <2> QED BY <2>1, <2>2, <2>3, <2>4
<1>2. <<IndexFile>> \in Seq(Segment)
  <2>1. IndexFile \in Segment
    BY SegmentFacts
  <2> QED BY <2>1, ConcatShort
<1>3. <<>> \in Seq(Segment)
  OBVIOUS
<1> QED BY <1>1, <1>2, <1>3 DEF Locales, Indices

LEMMA LocaleIsDropped ==
  ASSUME NEW p \in Seq(Segment), p # <<>>, p[1].word \notin LocaleWords, NEW l \in Locales
  PROVE  WithoutLocale(l \o p) = p
<1>1. CASE l = <<>>
  <2>1. l \o p = p
    BY <1>1, ConcatEmptySeq
  <2> QED BY <2>1 DEF WithoutLocale
<1>2. ASSUME NEW w \in LocaleWords, l = <<Plain(w)>>
      PROVE  WithoutLocale(l \o p) = p
  <2>1. Plain(w) \in Segment /\ Plain(w).word \in LocaleWords /\ Plain(w).tail = ""
    BY LocaleFacts, SegmentFacts
  <2>2. Len(l \o p) = Len(p) + 1 /\ (l \o p)[1] = Plain(w) /\ Tail(l \o p) = p
    <3>1. PICK s \in Segment : s = Plain(w)
      BY <2>1
    <3>2. Len(<<s>> \o p) = Len(p) + 1 /\ (<<s>> \o p)[1] = s /\ Tail(<<s>> \o p) = p
      BY PutInFront
    <3> QED BY <1>2, <3>1, <3>2
  <2>3. Len(p) + 1 > 1
    BY EmptySeq
  <2> QED BY <2>1, <2>2, <2>3 DEF WithoutLocale
<1> QED BY <1>1, <1>2 DEF Locales

LEMMA IndexIsSlash ==
  ASSUME NEW p \in Seq(Segment)
  PROVE  SlashForm(p \o <<IndexFile>>) = Append(p, Nothing)
<1>1. IndexFile \in Segment /\ Nothing \in Segment
  BY SegmentFacts
<1>2. NoIndex(IndexFile) = Nothing
  <2>1. NoIndex(IndexFile).word = "" /\ NoIndex(IndexFile).tail = "" /\ NoIndex(IndexFile).upper = FALSE
    BY NoTailFacts, SegmentFacts
  <2>2. Nothing.word = "" /\ Nothing.tail = "" /\ Nothing.upper = FALSE
    BY SegmentFacts
  <2>3. NoIndex(IndexFile) \in Segment
    BY <1>1, NoTailFacts
  <2> QED BY <1>1, <2>1, <2>2, <2>3, SegmentEqual
<1>3. p \o <<IndexFile>> = Append(p, IndexFile)
  BY <1>1, ConcatShort
<1> QED BY <1>1, <1>2, <1>3, SlashFormValues
LEMMA DocsKeyOfLink ==
  ASSUME NEW x, PagePath(x), x[1].word \notin LocaleWords,
         NEW l \in Locales, NEW i \in Indices,
         NEW p \in Seq(Segment), LowerCase(Cleaned(p)) = l \o (x \o i)
  PROVE  DocsKey(p) = IF i = <<>> THEN SlashForm(x) ELSE Append(x, Nothing)
<1>1. x \in Seq(Segment) /\ x # <<>> /\ l \in Seq(Segment) /\ i \in Seq(Segment)
  BY LocaleFacts DEF PagePath
<1>2. x \o i \in Seq(Segment) /\ x \o i # <<>> /\ (x \o i)[1] = x[1]
  <2>1. PICK s \in Segment, q \in Seq(Segment) : x = <<s>> \o q
    <3>1. x \in Seq(Segment) /\ x # <<>>
      BY <1>1
    <3>2. /\ x[1] \in Segment /\ Tail(x) \in Seq(Segment)
          /\ x = <<x[1]>> \o Tail(x)
      BY <3>1, FirstAndTail
    <3> QED BY <3>2
  <2>2. q \o i \in Seq(Segment) /\ <<s>> \in Seq(Segment)
    BY <1>1, ConcatProperties
  <2>3. x \o i = <<s>> \o (q \o i)
    BY <1>1, <2>1, <2>2, ConcatAssociative
  <2>4. x[1] = s
    BY <2>1, PutInFront
  <2>5. <<s>> \o (q \o i) \in Seq(Segment) /\ <<s>> \o (q \o i) # <<>> /\ (<<s>> \o (q \o i))[1] = s
    BY <2>2, PutInFront
  <2> QED BY <2>3, <2>4, <2>5
<1>3. WithoutLocale(l \o (x \o i)) = x \o i
  BY <1>2, LocaleIsDropped
<1>4. l \o (x \o i) # <<>>
  BY <1>1, <1>2, ConcatFront
<1>5. Cleaned(p) # <<>> /\ p # <<>>
  <2>1. Cleaned(p) \in Seq(Segment)
    BY CleanedType
  <2>2. Cleaned(p) # <<>>
    BY <1>4, <2>1, LowerEmpty
  <2> QED BY <2>2, CleanedEmpty
<1>6. DocsKey(p) = SlashForm(x \o i)
  BY <1>3, <1>5, DocsKeyInSteps
<1>7. CASE i = <<>>
  <2>1. x \o i = x
    BY <1>1, <1>7, ConcatEmptySeq
  <2> QED BY <1>6, <1>7, <2>1
<1>8. CASE i = <<IndexFile>>
  BY <1>1, <1>6, <1>8, IndexIsSlash
<1> QED BY <1>7, <1>8 DEF Indices

(* The root of a site, when the link has any path at all.                  *)
RootForms == {<<Nothing>>} \union {SlashForm(<<Plain(w)>>) : w \in LocaleWords}

LEMMA DocsKeyOfRoot ==
  ASSUME NEW l \in Locales, NEW i \in Indices,
         NEW p \in Seq(Segment), p # <<>>, LowerCase(Cleaned(p)) = l \o i
  PROVE  DocsKey(p) \in RootForms
<1>1. l \in Seq(Segment) /\ i \in Seq(Segment) /\ Cleaned(p) \in Seq(Segment)
  BY LocaleFacts, CleanedType
<1>2. IndexFile \in Segment /\ IndexFile.word \notin LocaleWords
  <2>1. IndexFile.word = "" /\ IndexFile \in Segment
    BY SegmentFacts
  <2> QED BY <2>1, WordAssumption
<1>3. SlashForm(<<IndexFile>>) = <<Nothing>>
  <2>1. <<>> \in Seq(Segment) /\ <<>> \o <<IndexFile>> = <<IndexFile>> /\ Append(<<>>, Nothing) = <<Nothing>>
    OBVIOUS
  <2>2. SlashForm(<<>> \o <<IndexFile>>) = Append(<<>>, Nothing)
    BY <2>1, IndexIsSlash
  <2> QED BY <2>1, <2>2
<1>4. CASE i = <<IndexFile>>
  <2>1. PICK x \in Seq(Segment) : x = <<IndexFile>> /\ x # <<>> /\ x[1] = IndexFile
    <3>1. <<IndexFile>> \in Seq(Segment) /\ <<IndexFile>> # <<>> /\ <<IndexFile>>[1] = IndexFile
      BY <1>2, ShortSeqs
    <3> QED BY <3>1
  <2>2. WithoutLocale(l \o x) = x
    BY <1>2, <2>1, LocaleIsDropped
  <2>3. l \o x # <<>>
    BY <1>1, <2>1, ConcatFront
  <2>4. Cleaned(p) # <<>>
    BY <1>1, <1>4, <2>1, <2>3, LowerEmpty
  <2>5. DocsKey(p) = SlashForm(x)
    BY <1>4, <2>1, <2>2, <2>4, DocsKeyInSteps
  <2> QED BY <1>3, <2>1, <2>5 DEF RootForms
<1>5. CASE i = <<>> /\ l = <<>>
  <2>1. l \o i = <<>>
    BY <1>5
  <2>2. Cleaned(p) = <<>>
    BY <1>1, <2>1, LowerEmpty
  <2> QED BY <2>2, DocsKeyInSteps DEF RootForms
<1>6. ASSUME i = <<>>, NEW w \in LocaleWords, l = <<Plain(w)>>
      PROVE  DocsKey(p) \in RootForms
  <2>1. PICK x : x = <<Plain(w)>> /\ PagePath(x)
    BY LocaleFacts
  <2>2. LowerCase(Cleaned(p)) = x
    <3>1. l \o i = l
      BY <1>1, <1>6, ConcatEmptySeq
    <3> QED BY <1>6, <2>1, <3>1
  <2>3. DocsKey(p) = SlashForm(x)
    BY <2>1, <2>2, DocsKeyOfPage
  <2> QED BY <2>1, <2>3 DEF RootForms
<1> QED BY <1>4, <1>5, <1>6 DEF Locales, Indices

LEMMA RootFormsAreStable ==
  ASSUME NEW k \in RootForms
  PROVE  DocsKey(k) = k /\ k \in Seq(Segment) /\ k # <<>> /\ k[1].word \in LocaleWords \union {""}
<1>1. CASE k = <<Nothing>>
  <2>1. Nothing \in Segment /\ Nothing.word = ""
    BY SegmentFacts
  <2>2. /\ <<Nothing>> \in Seq(Segment) /\ <<Nothing>> # <<>> /\ <<Nothing>>[1] = Nothing
        /\ <<>> \in Seq(Segment) /\ <<Nothing>> = Append(<<>>, Nothing)
    BY <2>1, ShortSeqs
  <2>3. Cleaned(<<Nothing>>) = <<>>
    BY <2>2, SlashVanishes, CleanedEmpty
  <2>4. DocsKey(<<Nothing>>) = <<Nothing>>
    BY <2>2, <2>3, DocsKeyInSteps
  <2> QED BY <1>1, <2>1, <2>2, <2>4
<1>2. ASSUME NEW w \in LocaleWords, k = SlashForm(<<Plain(w)>>)
      PROVE  DocsKey(k) = k /\ k \in Seq(Segment) /\ k # <<>> /\ k[1].word \in LocaleWords \union {""}
  <2>1. PICK s \in Segment : s = Plain(w) /\ s.word = w /\ PagePath(<<s>>)
    BY LocaleFacts, SegmentFacts
  <2>2. DocsKey(k) = k /\ k \in Seq(Segment) /\ k # <<>>
    BY <1>2, <2>1, FormIsStable
  <2>3. <<>> \in Seq(Segment) /\ <<s>> = Append(<<>>, s)
    OBVIOUS
  <2>4. PICK m \in Segment : m = NoIndex(s) /\ m.word = w
    <3>1. NoIndex(s) \in Segment /\ NoIndex(s).word = w
      BY <2>1, NoTailFacts
    <3> QED BY <3>1
  <2>5. SlashForm(<<s>>) \in {<<m>>, <<m, Nothing>>}
    <3>1. SlashForm(Append(<<>>, s)) \in {Append(<<>>, m), Append(Append(<<>>, m), Nothing)}
      BY <2>3, <2>4, SlashFormValues
    <3>2. Append(<<>>, m) = <<m>> /\ Append(<<m>>, Nothing) = <<m, Nothing>>
      BY SpecialSegments, ShortSeqs
    <3> QED BY <2>3, <3>1, <3>2
  <2>6. k[1] = m
    BY <1>2, <2>1, <2>5
  <2> QED BY <2>2, <2>4, <2>6
<1> QED BY <1>1, <1>2 DEF RootForms

-----------------------------------------------------------------------------
(* The rules of repositories, path by path.                                *)

LEMMA NothingToTrim ==
  ASSUME NEW f \in Seq(Segment), NEW l \in Segment, l # Nothing
  PROVE  TrimSlash(Append(f, l)) = Append(f, l)
<1> DEFINE p == Append(f, l)
           kept == {n \in 0..Len(p) : n = 0 \/ p[n] # Nothing}
<1>1. p \in Seq(Segment) /\ Len(p) = Len(f) + 1 /\ p[Len(f) + 1] = l /\ Len(f) \in Nat
  BY AppendParts
<1>2. TrimSlash(p) = SubSeq(p, 1, CHOOSE n \in kept : \A m \in kept : m <= n)
  BY DEF TrimSlash
<1> HIDE DEF p
<1>3. Len(p) \in kept /\ \A m \in kept : m \in 0..Len(p)
  BY <1>1
<1> HIDE DEF kept
<1>4. \A m \in kept : m <= Len(p)
  BY <1>1, <1>3
<1>5. \A n \in kept : (\A m \in kept : m <= n) => n = Len(p)
  BY <1>1, <1>3, <1>4
<1>6. (CHOOSE n \in kept : \A m \in kept : m <= n) = Len(p)
  BY <1>3, <1>4, <1>5
<1>7. SubSeq(p, 1, Len(p)) = p
  BY <1>1, SubSeqFull
<1> QED BY <1>2, <1>6, <1>7 DEF p

LEMMA BannedByWords ==
  ASSUME NEW f \in Seq(Segment), NEW l \in Segment, NEW m \in Segment,
         l.word = m.word, l.upper = m.upper
  PROVE  IsBanned(Append(f, l)) = IsBanned(Append(f, m))
<1> DEFINE p == Append(f, l)
           q == Append(f, m)
<1>1. /\ DOMAIN p = 1..(Len(f) + 1) /\ p[Len(f) + 1] = l
      /\ \A i \in 1..Len(f) : p[i] = f[i]
  BY AppendParts
<1>2. /\ DOMAIN q = 1..(Len(f) + 1) /\ q[Len(f) + 1] = m
      /\ \A i \in 1..Len(f) : q[i] = f[i]
  BY AppendParts
<1>3. Len(f) \in Nat
  OBVIOUS
<1> HIDE DEF p, q
<1>4. \A i \in 1..(Len(f) + 1) : p[i].word = q[i].word /\ p[i].upper = q[i].upper
  BY <1>1, <1>2, <1>3
<1>5. IsBanned(p) = IsBanned(q)
  BY <1>1, <1>2, <1>4 DEF IsBanned
<1> QED BY <1>5 DEF p, q

LEMMA GitPathOfWords ==
  ASSUME NEW f \in Seq(Segment), NEW l \in Segment, OfWords(Append(f, l)),
         NEW m, m = NoGit(l)
  PROVE  /\ m \in Segment /\ OfWords(Append(f, m)) /\ m # Nothing
         /\ GitPath(Append(f, l)) = IF IsBanned(Append(f, l)) THEN <<>> ELSE Append(f, m)
         /\ GitPath(Append(f, m)) = GitPath(Append(f, l))
<1>1. m \in Segment /\ m.word = l.word /\ m.upper = l.upper /\ m.tail = IF l.tail = "git" THEN "" ELSE l.tail
  BY NoTailFacts
<1>2. OfWords(f) /\ l.word \in Words
  BY OfWordsAppend
<1>3. m # Nothing /\ OfWords(Append(f, m))
  <2>1. m # Nothing
    BY <1>1, <1>2, SegmentFacts, WordAssumption
  <2> QED BY <1>1, <1>2, <2>1, OfWordsAppend
<1>4. WithoutGit(Append(f, l)) = Append(f, m)
  BY WithoutTails
<1>5. WithoutGit(Append(f, m)) = Append(f, m)
  <2>1. NoGit(m) = m
    BY <1>1, NoTailFacts, SegmentEqual
  <2> QED BY <1>1, <2>1, WithoutTails
<1>6. TrimSlash(Append(f, m)) = Append(f, m)
  BY <1>1, <1>3, NothingToTrim
<1>7. IsBanned(Append(f, l)) = IsBanned(Append(f, m))
  BY <1>1, BannedByWords
<1> QED BY <1>1, <1>3, <1>4, <1>5, <1>6, <1>7 DEF GitPath

LEMMA GitKeyInSteps ==
  ASSUME NEW p \in Seq(Segment), NEW x \in Seq(Segment), x # <<>>, Cleaned(p) = x
  PROVE  GitKey(p) = GitPath(x)
<1>1. p # <<>>
  BY CleanedEmpty
<1> QED BY <1>1 DEF GitKey, BasePath, Clean

LEMMA GitKeyOfEmpty == GitKey(<<>>) = <<>>
<1>1. IsBanned(<<>>) = FALSE /\ WithoutGit(<<>>) = <<>>
  BY DEF IsBanned, WithoutGit
<1>2. TrimSlash(<<>>) = <<>>
  <2>1. \A n \in Int : SubSeq(<<>>, 1, n) = <<>> \/ n > 0
    BY SubSeqEmpty
  <2> DEFINE kept == {n \in 0..Len(<<>>) : n = 0 \/ <<>>[n] # Nothing}
  <2>2. kept = {0}
    OBVIOUS
  <2>3. TrimSlash(<<>>) = SubSeq(<<>>, 1, CHOOSE n \in kept : \A m \in kept : m <= n)
    BY DEF TrimSlash
  <2> HIDE DEF kept
  <2>4. (CHOOSE n \in kept : \A m \in kept : m <= n) = 0
    BY <2>2
  <2>5. SubSeq(<<>>, 1, 0) = <<>>
    BY <2>1
  <2> QED BY <2>3, <2>4, <2>5
<1> QED BY <1>1, <1>2 DEF GitKey, GitPath, BasePath

(* A second pass of the rules of repositories changes nothing.             *)
LEMMA GitKeyIsStable ==
  ASSUME NEW x \in Seq(Segment), OfWords(x), x # <<>>
  PROVE  GitPath(x) \in Seq(Segment) /\ GitKey(GitPath(x)) = GitPath(x)
<1>1. PICK f \in Seq(Segment), l \in Segment : x = Append(f, l)
  BY TakeLast
<1>2. PICK m \in Segment : /\ OfWords(Append(f, m)) /\ GitPath(Append(f, m)) = GitPath(x)
                           /\ GitPath(x) = IF IsBanned(x) THEN <<>> ELSE Append(f, m)
  <2>1. NoGit(l) \in Segment
    BY NoTailFacts
  <2> QED BY <1>1, <2>1, GitPathOfWords
<1>3. CASE IsBanned(x)
  <2>1. GitPath(x) = <<>> /\ <<>> \in Seq(Segment)
    BY <1>2, <1>3
  <2> QED BY <2>1, GitKeyOfEmpty
<1>4. CASE ~IsBanned(x)
  <2>1. Append(f, m) \in Seq(Segment) /\ Append(f, m) # <<>>
    BY AppendParts
  <2>2. Cleaned(Append(f, m)) = Append(f, m)
    BY <1>2, <2>1, WordsAreClean
  <2>3. GitKey(Append(f, m)) = GitPath(Append(f, m))
    BY <2>1, <2>2, GitKeyInSteps
  <2> QED BY <1>2, <1>4, <2>1, <2>3
<1> QED BY <1>3, <1>4

-----------------------------------------------------------------------------
(* The links to a repository.  Its path is of words, and does not end in   *)
(* ".git".                                                                 *)
RepoPath(path) ==
  path \in Seq(Segment) /\ path # <<>> /\ OfWords(path) /\ Last(path).tail # "git"

(* A repository and its clone URL.                                         *)
RepoOrClone(c, path) ==
  \/ c = path
  \/ path # <<>> /\ Last(path).tail = "" /\ c = [path EXCEPT ![Len(path)].tail = "git"]

LEMMA RepoOrCloneForm ==
  ASSUME NEW x, RepoPath(x), NEW c, RepoOrClone(c, x)
  PROVE  \E f \in Seq(Segment), l, k \in Segment :
           /\ x = Append(f, l) /\ c = Append(f, k) /\ l = Last(x)
           /\ l.word \in Words /\ l.tail # "git"
           /\ k.word = l.word /\ k.upper = l.upper /\ NoGit(k) = l
           /\ OfWords(f)
<1>1. PICK f \in Seq(Segment), l \in Segment : x = Append(f, l) /\ l = Last(x)
  <2>1. x \in Seq(Segment) /\ x # <<>>
    BY DEF RepoPath
  <2>2. Front(x) \in Seq(Segment) /\ Last(x) \in Segment /\ x = Append(Front(x), Last(x))
    BY <2>1, FrontAndLast
  <2> QED BY <2>2
<1>2. OfWords(f) /\ l.word \in Words /\ l.tail # "git"
  BY <1>1, OfWordsAppend DEF RepoPath
<1>3. CASE c = x
  <2>1. NoGit(l) = l
    BY <1>2, NoTailFacts, SegmentEqual
  <2> QED BY <1>1, <1>2, <1>3, <2>1
<1>4. CASE x # <<>> /\ l.tail = "" /\ c = [x EXCEPT ![Len(x)].tail = "git"]
  <2> DEFINE k == [l EXCEPT !.tail = "git"]
  <2>1. k \in Segment /\ k.word = l.word /\ k.upper = l.upper /\ k.tail = "git"
    BY DEF Segment, Tails
  <2>2. NoGit(k) = l
    <3>1. NoGit(k).word = l.word /\ NoGit(k).upper = l.upper /\ NoGit(k).tail = l.tail /\ NoGit(k) \in Segment
      BY <1>4, <2>1, NoTailFacts
    <3> QED BY <3>1, SegmentEqual
  <2>3. c = Append(f, k)
    <3>1. x[Len(x)] = l
      BY <1>1 DEF Last
    <3>2. c = [Append(f, l) EXCEPT ![Len(Append(f, l))] = k]
      BY <1>1, <1>4, <3>1
    <3> HIDE DEF k
    <3> QED BY <2>1, <3>2, ReplaceLast
  <2> HIDE DEF k
  <2> QED BY <1>1, <1>2, <2>1, <2>2, <2>3
<1> QED BY <1>1, <1>3, <1>4 DEF RepoOrClone

LEMMA GitKeyOfLink ==
  ASSUME NEW x, RepoPath(x), NEW p \in Seq(Segment), RepoOrClone(Cleaned(p), x)
  PROVE  /\ GitKey(p) = GitPath(x) /\ GitKey(x) = GitPath(x)
         /\ GitPath(x) = IF IsBanned(x) THEN <<>> ELSE x
<1> DEFINE c == Cleaned(p)
<1>1. PICK f \in Seq(Segment), l \in Segment, k \in Segment :
        /\ x = Append(f, l) /\ c = Append(f, k)
        /\ l.word \in Words /\ l.tail # "git"
        /\ k.word = l.word /\ NoGit(k) = l /\ k.upper = l.upper
        /\ OfWords(f)
  BY RepoOrCloneForm
<1> HIDE DEF c
<1>2. /\ x \in Seq(Segment) /\ x # <<>> /\ Append(f, k) \in Seq(Segment) /\ Append(f, k) # <<>>
      /\ OfWords(x) /\ OfWords(Append(f, k))
  <2>1. /\ Append(f, l) \in Seq(Segment) /\ Append(f, l) # <<>>
        /\ Append(f, k) \in Seq(Segment) /\ Append(f, k) # <<>>
    BY AppendParts
  <2>2. OfWords(Append(f, l)) /\ OfWords(Append(f, k))
    BY <1>1, OfWordsAppend
  <2> QED BY <1>1, <2>1, <2>2
<1>3. GitPath(Append(f, k)) = GitPath(Append(f, l))
  BY <1>1, <1>2, GitPathOfWords
<1>4. NoGit(l) = l
  BY <1>1, NoTailFacts, SegmentEqual
<1>5. GitPath(x) = IF IsBanned(x) THEN <<>> ELSE x
  BY <1>1, <1>2, <1>4, GitPathOfWords
<1>6. GitKey(p) = GitPath(Append(f, k))
  BY <1>1, <1>2, GitKeyInSteps DEF c
<1>7. GitKey(x) = GitPath(x)
  BY <1>2, WordsAreClean, GitKeyInSteps
<1> QED BY <1>1, <1>3, <1>5, <1>6, <1>7

(* The rules of other hosts keep the last word of a repository.            *)
LEMMA LocaleBeforeLast ==
  ASSUME NEW f \in Seq(Segment), NEW l \in Segment, OfWords(Append(f, l))
  PROVE  \E g \in Seq(Segment) : WithoutLocale(Append(f, l)) = Append(g, l) /\ OfWords(Append(g, l))
<1>1. CASE f = <<>>
  <2>1. ~(Len(Append(f, l)) > 1)
    BY <1>1
  <2>2. WithoutLocale(Append(f, l)) = Append(f, l)
    BY <2>1 DEF WithoutLocale
  <2> QED BY <2>2
<1>2. CASE f # <<>>
  <2>1. PICK s \in Segment, q \in Seq(Segment) : f = <<s>> \o q
    BY <1>2, TakeFirst
  <2>2. <<s>> \in Seq(Segment) /\ Append(q, l) \in Seq(Segment)
    BY ShortSeqs, AppendParts
  <2>3. Append(f, l) = <<s>> \o Append(q, l)
    BY <2>1, <2>2, ConcatAppend
  <2>4. Tail(Append(f, l)) = Append(q, l)
    BY <2>2, <2>3, PutInFront
  <2>5. WithoutLocale(Append(f, l)) \in {Append(f, l), Append(q, l)}
    BY <2>4 DEF WithoutLocale
  <2>6. OfWords(Append(q, l))
    <3>1. /\ Len(<<s>> \o Append(q, l)) = Len(Append(q, l)) + 1 /\ Len(Append(q, l)) \in Nat
          /\ \A i \in 1..Len(Append(q, l)) : (<<s>> \o Append(q, l))[i + 1] = Append(q, l)[i]
      BY <2>2, PutInFront
    <3>2. \A i \in 1..Len(Append(q, l)) : i + 1 \in 1..Len(Append(f, l)) /\ Append(f, l)[i + 1] = Append(q, l)[i]
      BY <2>3, <3>1
    <3> QED BY <3>2 DEF OfWords
  <2> QED BY <2>5, <2>6
<1> QED BY <1>1, <1>2

LEMMA OfWordsLower ==
  ASSUME NEW p \in Seq(Segment), OfWords(p)
  PROVE  OfWords(LowerCase(p))
<1>1. \A i \in 1..Len(p) : p[i] \in Segment
  OBVIOUS
<1>2. \A i \in 1..Len(p) : Low(p[i]).word = p[i].word
  BY <1>1, LowFacts
<1> QED BY <1>2, LowerCaseParts DEF OfWords

LEMMA OtherRulesForm ==
  ASSUME NEW x, RepoPath(x), NEW p \in Seq(Segment), RepoOrClone(Cleaned(p), x)
  PROVE  \E g \in Seq(Segment), m \in Segment :
           /\ OfWords(Append(g, m)) /\ m.word = Last(x).word /\ m.word \in Words /\ m.tail # "index"
           /\ DocsKey(p) = IF m.tail # "" \/ m.word \in DottedWords
                           THEN Append(g, m) ELSE Append(Append(g, m), Nothing)
<1> DEFINE c == Cleaned(p)
<1>1. PICK f \in Seq(Segment), l \in Segment, k \in Segment :
        /\ c = Append(f, k) /\ l = Last(x) /\ l.word \in Words /\ k.word = l.word /\ OfWords(f)
  BY RepoOrCloneForm
<1> HIDE DEF c
<1>2. Append(f, k) \in Seq(Segment) /\ Append(f, k) # <<>> /\ OfWords(Append(f, k))
  BY <1>1, OfWordsAppend, AppendParts
<1>3. PICK lf \in Seq(Segment), lk \in Segment :
        /\ LowerCase(Append(f, k)) = Append(lf, lk) /\ lk.word = k.word
        /\ OfWords(Append(lf, lk))
  <2>1. LowerCase(f) \in Seq(Segment) /\ Low(k) \in Segment /\ Low(k).word = k.word
    BY LowerCaseParts, LowFacts
  <2>2. LowerCase(Append(f, k)) = Append(LowerCase(f), Low(k))
    BY LowerAppend
  <2>3. OfWords(LowerCase(Append(f, k)))
    BY <1>2, OfWordsLower
  <2> QED BY <2>1, <2>2, <2>3
<1>4. PICK g \in Seq(Segment) : WithoutLocale(Append(lf, lk)) = Append(g, lk) /\ OfWords(Append(g, lk))
  BY <1>3, LocaleBeforeLast
<1>5. p # <<>>
  BY <1>1, <1>2, CleanedEmpty DEF c
<1>6. DocsKey(p) = SlashForm(Append(g, lk))
  BY <1>1, <1>2, <1>3, <1>4, <1>5, DocsKeyInSteps DEF c
<1>7. PICK m \in Segment : m = NoIndex(lk) /\ m.word = lk.word /\ m.tail # "index"
  <2>1. NoIndex(lk) \in Segment /\ NoIndex(lk).word = lk.word /\ NoIndex(lk).tail # "index"
    BY NoTailFacts
  <2> QED BY <2>1
<1>8. m.word = l.word /\ m.word \in Words /\ m # Nothing
  <2>1. m.word = l.word /\ m.word \in Words
    BY <1>1, <1>3, <1>7
  <2> QED BY <2>1, SegmentFacts, WordAssumption
<1>9. OfWords(Append(g, m))
  BY <1>4, <1>8, OfWordsAppend
<1>10. DocsKey(p) = IF m.tail # "" \/ m.word \in DottedWords
                    THEN Append(g, m) ELSE Append(Append(g, m), Nothing)
  BY <1>6, <1>7, <1>8, SlashFormValues
<1> QED BY <1>1, <1>7, <1>8, <1>9, <1>10

LEMMA OtherRulesMeet ==
  ASSUME NEW x, RepoPath(x), NEW p \in Seq(Segment), RepoOrClone(Cleaned(p), x),
         NEW y, RepoPath(y), DocsKey(p) = GitPath(y)
  PROVE  Last(x).word \in DottedWords
<1>1. PICK g \in Seq(Segment), m \in Segment :
        /\ m.word = Last(x).word /\ m.tail # "index"
        /\ DocsKey(p) = IF m.tail # "" \/ m.word \in DottedWords
                        THEN Append(g, m) ELSE Append(Append(g, m), Nothing)
  BY OtherRulesForm
<1> SUFFICES ASSUME m.word \notin DottedWords PROVE FALSE
  BY <1>1
<1>2. PICK r \in Seq(Segment) : r = Append(g, m) /\ r # <<>> /\ Last(r) = m
  <2>1. Append(g, m) \in Seq(Segment) /\ Append(g, m) # <<>> /\ Last(Append(g, m)) = m
    BY AppendParts
  <2> QED BY <2>1
<1>3. Append(r, Nothing) # <<>> /\ Last(Append(r, Nothing)) = Nothing
  BY SpecialSegments, AppendParts
<1>4. y \in Seq(Segment) /\ y # <<>> /\ OfWords(y) /\ Last(y).tail # "git"
  BY DEF RepoPath
<1>5. Last(y) \in Segment /\ Last(y) # Nothing
  <2>1. Last(y) \in Segment /\ Last(y) = y[Len(y)] /\ Len(y) \in 1..Len(y)
    BY <1>4, FrontAndLast, EmptySeq
  <2>2. Last(y).word \in Words
    BY <1>4, <2>1 DEF OfWords
  <2>3. Nothing.word = ""
    BY SegmentFacts
  <2> QED BY <2>1, <2>2, <2>3, WordAssumption
<1>6. GitPath(y) \in {<<>>, y}
  <2>1. RepoOrClone(Cleaned(y), y)
    BY <1>4, WordsAreClean DEF RepoOrClone
  <2> QED BY <1>4, <2>1, GitKeyOfLink
<1>7. m.tail \in {"", "git", "index"}
  BY SegmentType DEF Tails
<1>8. CASE m.tail # ""
  <2>1. DocsKey(p) = r
    BY <1>1, <1>2, <1>8
  <2>2. r = y
    BY <1>2, <1>6, <2>1
  <2> QED BY <1>1, <1>2, <1>4, <1>7, <1>8, <2>2
<1>9. CASE m.tail = ""
  <2>1. DocsKey(p) = Append(r, Nothing)
    BY <1>1, <1>2, <1>9
  <2>2. Append(r, Nothing) = y
    BY <1>3, <1>6, <2>1
  <2> QED BY <1>3, <1>5, <2>2
<1> QED BY <1>8, <1>9

LEMMA OtherRulesSettle ==
  ASSUME NEW x, RepoPath(x), NEW p \in Seq(Segment), RepoOrClone(Cleaned(p), x)
  PROVE  /\ DocsKey(p) \in Seq(Segment) /\ DocsKey(p) # <<>>
         /\ GitKey(DocsKey(p)) \in Seq(Segment)
         /\ GitKey(GitKey(DocsKey(p))) = GitKey(DocsKey(p))
<1>1. PICK g \in Seq(Segment), m \in Segment :
        /\ OfWords(Append(g, m))
        /\ DocsKey(p) \in {Append(g, m), Append(Append(g, m), Nothing)}
  BY OtherRulesForm
<1>2. PICK r \in Seq(Segment) : r = Append(g, m) /\ r # <<>>
  <2>1. Append(g, m) \in Seq(Segment) /\ Append(g, m) # <<>>
    BY AppendParts
  <2> QED BY <2>1
<1>3. Cleaned(r) = r
  BY <1>1, <1>2, WordsAreClean
<1>4. Append(r, Nothing) \in Seq(Segment) /\ Append(r, Nothing) # <<>>
  BY SpecialSegments, AppendParts
<1>5. Cleaned(Append(r, Nothing)) = r
  BY <1>3, SlashVanishes
<1>6. PICK k \in Seq(Segment) : k = DocsKey(p) /\ k # <<>> /\ Cleaned(k) = r
  BY <1>1, <1>2, <1>3, <1>4, <1>5
<1>7. GitKey(k) = GitPath(r)
  BY <1>2, <1>6, GitKeyInSteps
<1>8. GitPath(r) \in Seq(Segment) /\ GitKey(GitPath(r)) = GitPath(r)
  BY <1>1, <1>2, GitKeyIsStable
<1> QED BY <1>6, <1>7, <1>8
(* The front page of a host.                                               *)
RepoPage(x) == x = <<>> \/ RepoPath(x)

LEMMA FrontPageOfHost ==
  ASSUME NEW p \in Seq(Segment), RepoOrClone(Cleaned(p), <<>>)
  PROVE  /\ GitKey(p) = <<>> /\ GitKey(<<>>) = <<>>
         /\ GitKey(DocsKey(p)) = <<>>
<1>1. Cleaned(p) = <<>>
  BY DEF RepoOrClone
<1>2. GitPath(<<Nothing>>) = <<>>
  <2> DEFINE n == <<Nothing>>
  <2>1. n \in Seq(Segment) /\ Len(n) = 1 /\ n[1] = Nothing /\ DOMAIN n = {1}
    BY SpecialSegments
  <2>2. Nothing.word \notin Words /\ Nothing.tail # "git"
    BY SegmentFacts, WordAssumption
  <2>3. ~IsBanned(n)
    BY <2>1, <2>2, WordAssumption DEF IsBanned
  <2>4. WithoutGit(n) = n
    <3>1. NoGit(Nothing) = Nothing
      <4>1. /\ NoGit(Nothing) \in Segment /\ NoGit(Nothing).word = Nothing.word
            /\ NoGit(Nothing).upper = Nothing.upper /\ NoGit(Nothing).tail = Nothing.tail
        BY <2>2, SpecialSegments, NoTailFacts
      <4> QED BY <4>1, SpecialSegments, SegmentEqual
    <3>2. WithoutGit(Append(<<>>, Nothing)) = Append(<<>>, NoGit(Nothing))
      <4>1. <<>> \in Seq(Segment)
        OBVIOUS
      <4> QED BY <4>1, SpecialSegments, WithoutTails
    <3>3. Append(<<>>, Nothing) = n
      BY SpecialSegments, ShortSeqs
    <3> QED BY <3>1, <3>2, <3>3
  <2>5. TrimSlash(n) = <<>>
    <3> DEFINE kept == {m \in 0..Len(n) : m = 0 \/ n[m] # Nothing}
    <3>1. kept = {0}
      BY <2>1
    <3> HIDE DEF kept, n
    <3>2. (CHOOSE m \in kept : \A k \in kept : k <= m) = 0
      BY <3>1
    <3>3. SubSeq(n, 1, 0) = <<>>
      <4>1. SubSeq(n, 1, 0) \in Seq(Segment) /\ Len(SubSeq(n, 1, 0)) = 0
        BY PrefixIsSeq
      <4> QED BY <4>1
    <3> QED BY <3>2, <3>3 DEF TrimSlash, kept
  <2> QED BY <2>3, <2>4, <2>5 DEF GitPath
<1>3. CASE p = <<>>
  BY <1>3, GitKeyOfEmpty, DocsKeyOfEmpty
<1>4. CASE p # <<>>
  <2>1. GitKey(p) = <<>>
    BY <1>1, <1>2, <1>4 DEF GitKey, BasePath, Clean
  <2>2. DocsKey(p) = <<Nothing>>
    BY <1>1, <1>4, DocsKeyInSteps
  <2>3. <<Nothing>> # <<>> /\ Cleaned(<<Nothing>>) = <<>>
    <3>1. Append(<<>>, Nothing) = <<Nothing>> /\ <<Nothing>> # <<>> /\ <<>> \in Seq(Segment)
      BY SpecialSegments, ShortSeqs
    <3> QED BY <3>1, SlashVanishes, CleanedEmpty
  <2>4. GitKey(<<Nothing>>) = <<>>
    BY <1>2, <2>3 DEF GitKey, BasePath, Clean
  <2> QED BY <2>1, <2>2, <2>4, GitKeyOfEmpty
<1> QED BY <1>3, <1>4

-----------------------------------------------------------------------------
(* The links to a page, by their paths.                                    *)
HasIndex(path) == IndexFile \in ToSet(path)

GitLink(path, x) ==
  /\ path \in Seq(Segment)
  /\ RepoOrClone(Cleaned(path), x)
  /\ ~HasIndex(path)

IndexOf(path) == IF HasIndex(path) THEN <<IndexFile>> ELSE <<>>

MayHaveIndex(x) == x = <<>> \/ Last(x).tail = ""

DocsLink(path, x) ==
  /\ path \in Seq(Segment) /\ Tidy(path) /\ DotsPaired(path)
  /\ HasIndex(path) => MayHaveIndex(x)
  /\ \E l \in Locales : LowerCase(Cleaned(path)) = l \o (x \o IndexOf(path))

LEMMA HasIndexAt ==
  ASSUME NEW p \in Seq(Segment)
  PROVE  HasIndex(p) <=> \E n \in 1..Len(p) : p[n] = IndexFile
BY DEF HasIndex, ToSet

LEMMA HasIndexAppend ==
  ASSUME NEW p \in Seq(Segment), NEW s \in Segment
  PROVE  HasIndex(Append(p, s)) <=> HasIndex(p) \/ s = IndexFile
<1>1. /\ Append(p, s) \in Seq(Segment)
      /\ Len(Append(p, s)) = Len(p) + 1 /\ Append(p, s)[Len(p) + 1] = s
      /\ \A i \in 1..Len(p) : Append(p, s)[i] = p[i]
  BY AppendParts
<1>2. Len(p) \in Nat
  OBVIOUS
<1> DEFINE q == Append(p, s)
<1>3. HasIndex(q) <=> \E n \in 1..Len(q) : q[n] = IndexFile
  BY <1>1, HasIndexAt
<1>4. HasIndex(p) <=> \E n \in 1..Len(p) : p[n] = IndexFile
  BY HasIndexAt
<1> HIDE DEF q
<1>5. \A n \in 1..Len(q) : n = Len(p) + 1 \/ n \in 1..Len(p)
  BY <1>1, <1>2 DEF q
<1>6. Len(p) + 1 \in 1..Len(q) /\ \A n \in 1..Len(p) : n \in 1..Len(q)
  BY <1>1, <1>2 DEF q
<1> QED BY <1>1, <1>3, <1>4, <1>5, <1>6 DEF q

(* A path of words ends in no index file that is a segment of its own.     *)
LEMMA WordsHaveNoIndex ==
  ASSUME NEW p \in Seq(Segment), OfWords(p)
  PROVE  ~HasIndex(p) /\ Tidy(p) /\ DotsPaired(p)
<1>1. IndexFile.word \notin Words /\ ".." \notin Words
  BY SegmentFacts, WordAssumption
<1> QED BY <1>1, HasIndexAt DEF OfWords, Tidy, DotsPaired

(* One step of AddDetour, segment by segment.                              *)
LEMMA InsertParts ==
  ASSUME NEW T, NEW p \in Seq(T), NEW i \in 0..Len(p), NEW d \in Seq(T)
  PROVE  /\ Insert(p, i, d) \in Seq(T)
         /\ Len(Insert(p, i, d)) = Len(p) + Len(d)
         /\ \A n \in 1..i : Insert(p, i, d)[n] = p[n]
         /\ \A n \in 1..Len(d) : Insert(p, i, d)[i + n] = d[n]
         /\ \A n \in (i + 1)..Len(p) : Insert(p, i, d)[Len(d) + n] = p[n]
         /\ \A n \in 1..Len(Insert(p, i, d)) : \/ n \in 1..i
                                               \/ \E m \in 1..Len(d) : n = i + m
                                               \/ \E m \in (i + 1)..Len(p) : n = Len(d) + m
<1> DEFINE a == SubSeq(p, 1, i)
           b == SubSeq(p, i + 1, Len(p))
<1>1. /\ a \in Seq(T) /\ b \in Seq(T)
      /\ Len(a) = i /\ Len(b) = Len(p) - i
      /\ \A n \in 1..i : a[n] = p[n]
      /\ \A n \in 1..(Len(p) - i) : b[n] = p[n + i]
  BY SplitSeq
<1>2. Insert(p, i, d) = a \o d \o b
  BY DEF Insert
<1> HIDE DEF a, b
<1>3. a \o d \in Seq(T) /\ Len(a \o d) = i + Len(d)
  BY <1>1, ConcatProperties
<1>4. /\ \A n \in 1..i : (a \o d)[n] = a[n]
      /\ \A n \in 1..Len(d) : (a \o d)[i + n] = d[n]
  BY <1>1, ConcatProperties
<1> DEFINE e == a \o d
<1>5. e \in Seq(T) /\ Len(e) = i + Len(d)
  BY <1>3
<1> HIDE DEF e
<1>6. /\ Len(e \o b) = Len(p) + Len(d)
      /\ \A n \in 1..Len(e) : (e \o b)[n] = e[n]
      /\ \A n \in 1..Len(b) : (e \o b)[Len(e) + n] = b[n]
  <2>1. /\ Len(e \o b) = Len(e) + Len(b)
        /\ \A n \in 1..(Len(e) + Len(b)) : (e \o b)[n] = IF n <= Len(e) THEN e[n] ELSE b[n - Len(e)]
    <3>1. e \in Seq(T) /\ b \in Seq(T)
      BY <1>1, <1>5
    <3> QED BY <3>1, ConcatProperties
  <2>2. Len(e) \in Nat /\ Len(b) \in Nat /\ Len(p) \in Nat /\ Len(d) \in Nat
    BY <1>1, <1>5
  <2>3. Len(e \o b) = Len(p) + Len(d)
    BY <1>1, <1>5, <2>1, <2>2
  <2>4. \A n \in 1..Len(e) : (e \o b)[n] = e[n]
    BY <2>1, <2>2
  <2>5. \A n \in 1..Len(b) : (e \o b)[Len(e) + n] = b[n]
    BY <2>1, <2>2
  <2> QED BY <2>3, <2>4, <2>5
<1>7. Insert(p, i, d) = e \o b
  BY <1>2 DEF e
<1>8. \A n \in 1..i : n \in 1..Len(e) /\ e[n] = p[n]
  BY <1>1, <1>4, <1>5 DEF e
<1>9. \A n \in 1..Len(d) : i + n \in 1..Len(e) /\ e[i + n] = d[n]
  BY <1>4, <1>5 DEF e
<1>10. \A n \in (i + 1)..Len(p) : n - i \in 1..Len(b) /\ b[n - i] = p[n] /\ Len(e) + (n - i) = Len(d) + n
  BY <1>1, <1>5
<1>11. \A n \in 1..i : (e \o b)[n] = p[n]
  BY <1>6, <1>8
<1>12. \A n \in 1..Len(d) : (e \o b)[i + n] = d[n]
  BY <1>6, <1>9
<1>13. \A n \in (i + 1)..Len(p) : (e \o b)[Len(d) + n] = p[n]
  BY <1>6, <1>10
<1>14. e \o b \in Seq(T)
  BY <1>1, <1>5
<1>15. \A n \in 1..Len(e \o b) :
         \/ n \in 1..i
         \/ \E m \in 1..Len(d) : n = i + m
         \/ \E m \in (i + 1)..Len(p) : n = Len(d) + m
  <2> SUFFICES ASSUME NEW n \in 1..Len(e \o b), n \notin 1..i,
                      ~ \E m \in 1..Len(d) : n = i + m
               PROVE  \E m \in (i + 1)..Len(p) : n = Len(d) + m
    OBVIOUS
  <2>1. Len(d) \in Nat /\ Len(p) \in Nat
    OBVIOUS
  <2>2. n - i \notin 1..Len(d)
    BY <2>1
  <2>3. n - Len(d) \in (i + 1)..Len(p) /\ n = Len(d) + (n - Len(d))
    BY <1>6, <2>1, <2>2
  <2> QED BY <2>3
<1> QED BY <1>6, <1>7, <1>11, <1>12, <1>13, <1>14, <1>15

LEMMA InsertSet ==
  ASSUME NEW T, NEW p \in Seq(T), NEW i \in 0..Len(p), NEW d \in Seq(T)
  PROVE  ToSet(Insert(p, i, d)) = ToSet(p) \union ToSet(d)
<1> DEFINE q == Insert(p, i, d)
<1>1. /\ q \in Seq(T) /\ Len(q) = Len(p) + Len(d)
      /\ \A n \in 1..i : q[n] = p[n]
      /\ \A n \in 1..Len(d) : q[i + n] = d[n]
      /\ \A n \in (i + 1)..Len(p) : q[Len(d) + n] = p[n]
      /\ \A n \in 1..Len(q) : \/ n \in 1..i
                              \/ \E m \in 1..Len(d) : n = i + m
                              \/ \E m \in (i + 1)..Len(p) : n = Len(d) + m
  BY InsertParts
<1> HIDE DEF q
<1>2. Len(p) \in Nat /\ Len(d) \in Nat
  OBVIOUS
<1>3. \A n \in 1..Len(q) : \/ \E m \in 1..Len(d) : q[n] = d[m]
                           \/ \E m \in 1..Len(p) : q[n] = p[m]
  <2> TAKE n \in 1..Len(q)
  <2>1. CASE n \in 1..i
    <3>1. n \in 1..Len(p) /\ q[n] = p[n]
      BY <1>1, <2>1
    <3> QED BY <3>1
  <2>2. CASE \E m \in 1..Len(d) : n = i + m
    BY <1>1, <2>2
  <2>3. ASSUME NEW m \in (i + 1)..Len(p), n = Len(d) + m
        PROVE  \E k \in 1..Len(p) : q[n] = p[k]
    <3>1. m \in 1..Len(p) /\ q[n] = p[m]
      BY <1>1, <2>3
    <3> QED BY <3>1
  <2> QED BY <1>1, <2>1, <2>2, <2>3
<1>4. \A m \in 1..Len(d) : i + m \in 1..Len(q) /\ q[i + m] = d[m]
  BY <1>1, <1>2
<1>5. \A m \in 1..Len(p) : \E n \in 1..Len(q) : q[n] = p[m]
  <2> TAKE m \in 1..Len(p)
  <2>1. CASE m <= i
    <3>1. m \in 1..Len(q) /\ q[m] = p[m]
      BY <1>1, <1>2, <2>1
    <3> QED BY <3>1
  <2>2. CASE ~(m <= i)
    <3>1. Len(d) + m \in 1..Len(q) /\ q[Len(d) + m] = p[m]
      BY <1>1, <1>2, <2>2
    <3> QED BY <3>1
  <2> QED BY <2>1, <2>2
<1>6. DOMAIN q = 1..Len(q) /\ DOMAIN p = 1..Len(p) /\ DOMAIN d = 1..Len(d)
  BY <1>1
<1>7. ToSet(q) \subseteq ToSet(p) \union ToSet(d)
  BY <1>3, <1>6 DEF ToSet
<1>8. ToSet(p) \subseteq ToSet(q)
  BY <1>5, <1>6 DEF ToSet
<1>9. ToSet(d) \subseteq ToSet(q)
  BY <1>4, <1>6 DEF ToSet
<1> QED BY <1>7, <1>8, <1>9 DEF q

(* A detour changes neither what is clean of a path nor its form.          *)
LEMMA DetourKeepsForm ==
  ASSUME NEW p \in Seq(Segment), NEW i \in 0..Len(p), NEW d \in Detours
  PROVE  /\ HasIndex(Insert(p, i, d)) <=> HasIndex(p)
         /\ Tidy(p) => Tidy(Insert(p, i, d))
         /\ (\A n \in 1..Len(p) : p[n].word # "..") => DotsPaired(Insert(p, i, d))
<1> DEFINE q == Insert(p, i, d)
<1>1. d \in Seq(Segment) /\ q \in Seq(Segment)
  BY DetourType, InsertDetour
<1>2. /\ Len(q) = Len(p) + Len(d)
      /\ \A n \in 1..i : q[n] = p[n]
      /\ \A n \in 1..Len(d) : q[i + n] = d[n]
      /\ \A n \in (i + 1)..Len(p) : q[Len(d) + n] = p[n]
  BY <1>1, InsertParts
<1>3. /\ \A n \in 1..Len(d) : d[n] # IndexFile /\ ~d[n].upper
      /\ \A n \in 1..Len(d) : d[n].word = ".." => n = 2 /\ d[1].word \in Words
  <2>1. \A w : Plain(w) # IndexFile /\ ~Plain(w).upper /\ Plain(w).word = w
    <3>1. \A w : Plain(w).tail = "" /\ Plain(w).upper = FALSE /\ Plain(w).word = w
      BY SegmentFacts
    <3>2. IndexFile.tail = "index"
      BY SegmentFacts
    <3> QED BY <3>1, <3>2
  <2>2. CASE d = <<Plain("")>> \/ d = <<Plain(".")>>
    <3>1. PICK w : d = <<Plain(w)>> /\ w # ".."
      <4>1. "" # ".." /\ "." # ".."
        OBVIOUS
      <4> QED BY <2>2, <4>1, Zenon
    <3>2. Len(d) = 1 /\ d[1] = Plain(w)
      BY <3>1
    <3>3. 1..Len(d) = {1}
      BY <3>2, SMT
    <3> QED BY <2>1, <3>1, <3>2, <3>3
  <2>3. CASE \E w \in Words : d = <<Plain(w), Plain("..")>>
    <3>1. PICK w \in Words : Len(d) = 2 /\ d[1] = Plain(w) /\ d[2] = Plain("..")
      BY <2>3
    <3>2. w # ".."
      BY WordAssumption
    <3>3. \A n \in 1..Len(d) : n = 1 \/ n = 2
      BY <3>1
    <3>4. \A n \in 1..Len(d) : d[n] # IndexFile /\ ~d[n].upper
      BY <2>1, <3>1, <3>3
    <3>5. d[1].word = w
      BY <2>1, <3>1
    <3> QED BY <3>2, <3>3, <3>4, <3>5
  <2> QED BY <2>2, <2>3 DEF Detours, Nothing
<1> HIDE DEF q
<1>4. \A n \in 1..Len(q) : \/ n \in 1..i
                           \/ \E m \in 1..Len(d) : n = i + m
                           \/ \E m \in (i + 1)..Len(p) : n = Len(d) + m
  <2>1. \A n \in 1..Len(Insert(p, i, d)) : \/ n \in 1..i
                                           \/ \E m \in 1..Len(d) : n = i + m
                                           \/ \E m \in (i + 1)..Len(p) : n = Len(d) + m
    BY <1>1, InsertParts
  <2> QED BY <2>1 DEF q
<1>5. DOMAIN d = 1..Len(d)
  BY <1>1
<1>6. HasIndex(q) <=> HasIndex(p)
  <2>1. ToSet(Insert(p, i, d)) = ToSet(p) \union ToSet(d)
    BY <1>1, InsertSet
  <2>2. IndexFile \notin ToSet(d)
    BY <1>3, <1>5 DEF ToSet
  <2> QED BY <2>1, <2>2 DEF HasIndex, q
<1>7. Tidy(p) => Tidy(q)
  <2> SUFFICES ASSUME Tidy(p), NEW n \in 1..Len(q), q[n].upper
               PROVE  q[n].word \in Words
    BY DEF Tidy
  <2>1. CASE n \in 1..i
    <3>1. q[n] = p[n] /\ n \in 1..Len(p)
      BY <1>2, <2>1
    <3> QED BY <3>1 DEF Tidy
  <2>2. CASE \E m \in 1..Len(d) : n = i + m
    <3>1. PICK m \in 1..Len(d) : n = i + m
      BY <2>2
    <3>2. q[n] = d[m]
      BY <1>2, <3>1
    <3>3. ~d[m].upper
      BY <1>3
    <3> QED BY <3>2, <3>3
  <2>3. CASE \E m \in (i + 1)..Len(p) : n = Len(d) + m
    <3>1. PICK m \in (i + 1)..Len(p) : n = Len(d) + m
      BY <2>3
    <3>2. q[n] = p[m]
      BY <1>2, <3>1
    <3>3. m \in 1..Len(p)
      BY <1>1
    <3> QED BY <3>2, <3>3 DEF Tidy
  <2> QED BY <1>4, <2>1, <2>2, <2>3
<1>8. (\A n \in 1..Len(p) : p[n].word # "..") => DotsPaired(q)
  <2> SUFFICES ASSUME \A n \in 1..Len(p) : p[n].word # "..", NEW n \in 1..Len(q), q[n].word = ".."
               PROVE  n > 1 /\ q[n - 1].word \in Words
    BY DEF DotsPaired
  <2>1. PICK m \in 1..Len(d) : n = i + m
    <3>1. CASE n \in 1..i
      BY <1>2, <3>1
    <3>2. ASSUME NEW m \in (i + 1)..Len(p), n = Len(d) + m PROVE FALSE
      <4>1. q[n] = p[m] /\ m \in 1..Len(p)
        BY <1>2, <3>2
      <4> QED BY <4>1
    <3> QED BY <1>4, <3>1, <3>2
  <2>2. m = 2 /\ d[1].word \in Words
    BY <1>2, <1>3, <2>1
  <2>3. 1 \in 1..Len(d)
    BY <2>2
  <2>4. q[i + 1] = d[1]
    BY <1>2, <2>3
  <2> QED BY <2>1, <2>2, <2>4
<1> QED BY <1>6, <1>7, <1>8 DEF q
-----------------------------------------------------------------------------
(* The key of a URL, field by field.                                       *)
NoWww(sub) == IF sub = "www." THEN "" ELSE sub
NoPort(u) == IF DefaultPort(u) THEN "" ELSE u.port
OnlyLines(fragment) == IF fragment \in LineNumbers THEN fragment ELSE ""

HasFields(u) ==
  u = [scheme |-> u.scheme, user |-> u.user, sub |-> u.sub, host |-> u.host,
       upper |-> u.upper, zeros |-> u.zeros, port |-> u.port,
       path |-> u.path, query |-> u.query, fragment |-> u.fragment]

LEMMA UrlHasFields ==
  ASSUME NEW u \in Url
  PROVE  /\ HasFields(u) /\ u.path \in Seq(Segment) /\ u.query \in Seq(Params)
         /\ u.fragment \in Fragments \union {""}
BY DEF Url, HasFields

LEMMA UrlEqual ==
  ASSUME NEW u, HasFields(u), NEW v, HasFields(v),
         u.scheme = v.scheme, u.user = v.user, u.sub = v.sub, u.host = v.host,
         u.upper = v.upper, u.zeros = v.zeros, u.port = v.port,
         u.path = v.path, u.query = v.query, u.fragment = v.fragment
  PROVE  u = v
BY DEF HasFields

LEMMA BaseFields ==
  ASSUME NEW u, HasFields(u), NEW b, b = BaseNormalizer(u)
  PROVE  /\ HasFields(b)
         /\ b.scheme = u.scheme /\ b.user = u.user /\ b.sub = NoWww(u.sub) /\ b.host = u.host
         /\ b.upper = FALSE /\ b.zeros = FALSE /\ b.port = NoPort(u)
         /\ b.path = BasePath(u.path) /\ b.query = CleanQuery(u.query)
         /\ b.fragment = u.fragment
<1> DEFINE s == NoWww(u.sub)
           n == NoPort(u)
           p == BasePath(u.path)
           q == CleanQuery(u.query)
<1>1. b = [u EXCEPT !.upper = FALSE, !.zeros = FALSE, !.sub = s, !.port = n, !.path = p, !.query = q]
  BY DEF BaseNormalizer, NoWww, NoPort, BasePath
<1> HIDE DEF s, n, p, q
<1>2. /\ HasFields(b)
      /\ b.scheme = u.scheme /\ b.user = u.user /\ b.sub = s /\ b.host = u.host
      /\ b.upper = FALSE /\ b.zeros = FALSE /\ b.port = n
      /\ b.path = p /\ b.query = q /\ b.fragment = u.fragment
  BY <1>1 DEF HasFields
<1> QED BY <1>2 DEF s, n, p, q

(* The rules of repositories.                                              *)
LEMMA KeyOnGit ==
  ASSUME NEW u, HasFields(u), isGitHost(u), NEW k, k = Key(u)
  PROVE  /\ HasFields(k)
         /\ k.scheme = "https" /\ k.user = FALSE /\ k.sub = NoWww(u.sub) /\ k.host = u.host
         /\ k.upper = FALSE /\ k.zeros = FALSE /\ k.port = NoPort(u)
         /\ k.path = GitKey(u.path) /\ k.query = CleanQuery(u.query)
         /\ k.fragment = OnlyLines(u.fragment)
<1> DEFINE b == BaseNormalizer(u)
           p == GitPath(b.path)
           f == OnlyLines(b.fragment)
<1>1. k = [b EXCEPT !.scheme = "https", !.user = FALSE, !.path = p, !.fragment = f]
  BY DEF Key, RunNormalizationPipeline, GitNormalizer, OnlyLines
<1>2. /\ HasFields(b)
      /\ b.sub = NoWww(u.sub) /\ b.host = u.host
      /\ b.upper = FALSE /\ b.zeros = FALSE /\ b.port = NoPort(u)
      /\ b.path = BasePath(u.path) /\ b.query = CleanQuery(u.query)
      /\ b.fragment = u.fragment
  BY BaseFields
<1>3. p = GitKey(u.path) /\ f = OnlyLines(u.fragment)
  BY <1>2 DEF GitKey
<1> HIDE DEF b, p, f
<1>4. /\ HasFields(k)
      /\ k.scheme = "https" /\ k.user = FALSE /\ k.sub = b.sub /\ k.host = b.host
      /\ k.upper = b.upper /\ k.zeros = b.zeros /\ k.port = b.port
      /\ k.path = p /\ k.query = b.query /\ k.fragment = f
  BY <1>1, <1>2 DEF HasFields
<1> QED BY <1>2, <1>3, <1>4

(* The rules of all other hosts.                                           *)
LEMMA KeyElsewhere ==
  ASSUME NEW u, HasFields(u), ~isGitHost(u), NEW k, k = Key(u)
  PROVE  /\ HasFields(k)
         /\ k.scheme = u.scheme /\ k.user = u.user /\ k.sub = NoWww(u.sub) /\ k.host = u.host
         /\ k.upper = FALSE /\ k.zeros = FALSE /\ k.port = NoPort(u)
         /\ k.path = DocsKey(u.path) /\ k.query = <<>>
         /\ k.fragment = u.fragment
<1> DEFINE b == BaseNormalizer(u)
           p == DocsPath(b.path)
<1>1. k = [b EXCEPT !.path = p, !.query = <<>>]
  BY DEF Key, RunNormalizationPipeline, DocsNormalizer
<1>2. /\ HasFields(b)
      /\ b.scheme = u.scheme /\ b.user = u.user /\ b.sub = NoWww(u.sub) /\ b.host = u.host
      /\ b.upper = FALSE /\ b.zeros = FALSE /\ b.port = NoPort(u)
      /\ b.path = BasePath(u.path)
      /\ b.fragment = u.fragment
  BY BaseFields
<1>3. p = DocsKey(u.path)
  BY <1>2 DEF DocsKey
<1> HIDE DEF b, p
<1>4. /\ HasFields(k)
      /\ k.scheme = b.scheme /\ k.user = b.user /\ k.sub = b.sub /\ k.host = b.host
      /\ k.upper = b.upper /\ k.zeros = b.zeros /\ k.port = b.port
      /\ k.path = p /\ k.query = <<>> /\ k.fragment = b.fragment
  BY <1>1, <1>2 DEF HasFields
<1> QED BY <1>2, <1>3, <1>4

(* The parameters that are kept come in one order, however they were given.*)
LEMMA CleanQueryFacts ==
  /\ \A q, r : ToSet(q) \ Tracking = ToSet(r) \ Tracking => CleanQuery(q) = CleanQuery(r)
  /\ CleanQuery(<<>>) = <<>>
<1>1. \A q, r : ToSet(q) \ Tracking = ToSet(r) \ Tracking => CleanQuery(q) = CleanQuery(r)
  BY DEF CleanQuery
<1>2. ToSet(<<>>) \ Tracking = {}
  BY DEF ToSet
<1>3. SetToSeq({}) = <<>>
  <2>1. Cardinality({}) = 0
    BY FS_EmptySet
  <2>2. [1..0 -> {}] = {<<>>}
    <3>1. <<>> \in [1..0 -> {}]
      OBVIOUS
    <3>2. \A f \in [1..0 -> {}] : f = <<>>
      OBVIOUS
    <3> QED BY <3>1, <3>2
  <2>3. IsInjective(<<>>)
    BY DEF IsInjective
  <2> QED BY <2>1, <2>2, <2>3 DEF SetToSeq
<1> QED BY <1>1, <1>2, <1>3 DEF CleanQuery
-----------------------------------------------------------------------------
(* The steps that respell a path.                                          *)
LEMMA SlashStep ==
  ASSUME NEW p \in Seq(Segment), NEW x
  PROVE  /\ GitLink(Append(p, Nothing), x) <=> GitLink(p, x)
         /\ DocsLink(Append(p, Nothing), x) <=> DocsLink(p, x)
<1>1. Append(p, Nothing) \in Seq(Segment)
  BY SpecialSegments, AppendParts
<1>2. Cleaned(Append(p, Nothing)) = Cleaned(p)
  BY SlashVanishes
<1>3. HasIndex(Append(p, Nothing)) <=> HasIndex(p)
  BY SegmentFacts, HasIndexAppend
<1>4. IndexOf(Append(p, Nothing)) = IndexOf(p)
  BY <1>3 DEF IndexOf
<1>5. Nothing.upper = FALSE /\ Nothing.word # ".."
  BY SegmentFacts
<1>6. Tidy(Append(p, Nothing)) <=> Tidy(p)
  BY <1>5, SpecialSegments, TidyAppend
<1>7. DotsPaired(Append(p, Nothing)) <=> DotsPaired(p)
  BY <1>5, SpecialSegments, DotsPairedAppend
<1>8. GitLink(Append(p, Nothing), x) <=> GitLink(p, x)
  BY <1>1, <1>2, <1>3 DEF GitLink
<1>9. DocsLink(Append(p, Nothing), x) <=> DocsLink(p, x)
  BY <1>1, <1>2, <1>3, <1>4, <1>6, <1>7 DEF DocsLink
<1> QED BY <1>8, <1>9

LEMMA DetourStep ==
  ASSUME NEW p \in Seq(Segment), NEW x, NEW i \in 0..Len(p), NEW d \in Detours,
         \A n \in 1..Len(p) : p[n].word # ".."
  PROVE  /\ GitLink(p, x) => GitLink(Insert(p, i, d), x)
         /\ DocsLink(p, x) => DocsLink(Insert(p, i, d), x)
<1>1. Insert(p, i, d) \in Seq(Segment) /\ Cleaned(Insert(p, i, d)) = Cleaned(p)
  BY InsertDetour
<1>2. /\ HasIndex(Insert(p, i, d)) <=> HasIndex(p)
      /\ Tidy(p) => Tidy(Insert(p, i, d))
      /\ DotsPaired(Insert(p, i, d))
  BY DetourKeepsForm
<1>3. IndexOf(Insert(p, i, d)) = IndexOf(p)
  BY <1>2 DEF IndexOf
<1> QED BY <1>1, <1>2, <1>3 DEF GitLink, DocsLink

LEMMA GitStep ==
  ASSUME NEW x, RepoPath(x), NEW c, RepoOrClone(c, x)
  PROVE  GitLink(c, x)
<1>1. PICK f \in Seq(Segment), k \in Segment : c = Append(f, k) /\ OfWords(f) /\ k.word \in Words
  <2>1. PICK f \in Seq(Segment), l \in Segment, k \in Segment :
           /\ x = Append(f, l) /\ c = Append(f, k) /\ l = Last(x)
           /\ l.word \in Words /\ l.tail # "git"
           /\ k.word = l.word /\ k.upper = l.upper /\ NoGit(k) = l
           /\ OfWords(f)
    BY RepoOrCloneForm
  <2> QED BY <2>1
<1>2. c \in Seq(Segment) /\ OfWords(c)
  <2>1. Append(f, k) \in Seq(Segment) /\ OfWords(Append(f, k))
    BY <1>1, OfWordsAppend, AppendParts
  <2> QED BY <1>1, <2>1
<1>3. Cleaned(c) = c /\ ~HasIndex(c)
  BY <1>2, WordsAreClean, WordsHaveNoIndex
<1> QED BY <1>2, <1>3 DEF GitLink

LEMMA UpperStep ==
  ASSUME NEW p, NEW x, DocsLink(p, x), NEW i \in 1..Len(p), p[i].word \in Words
  PROVE  DocsLink([p EXCEPT ![i].upper = TRUE], x)
<1> DEFINE q == [p EXCEPT ![i].upper = TRUE]
           s == [p[i] EXCEPT !.upper = TRUE]
<1>1. p \in Seq(Segment) /\ Tidy(p) /\ DotsPaired(p) /\ p[i] \in Segment
  <2>1. p \in Seq(Segment) /\ Tidy(p) /\ DotsPaired(p)
    BY DEF DocsLink
  <2> QED BY <2>1
<1>2. s \in Segment /\ s.word = p[i].word /\ s.tail = p[i].tail /\ Low(s) = Low(p[i])
  BY <1>1 DEF Segment, Low
<1>3. q = [p EXCEPT ![i] = s]
  OBVIOUS
<1> HIDE DEF q, s
<1>4. /\ q \in Seq(Segment) /\ Len(q) = Len(p) /\ q[i] = s
      /\ \A n \in 1..Len(p) : n # i => q[n] = p[n]
  BY <1>1, <1>2, <1>3
<1>5. \A n \in 1..Len(p) : q[n].word = p[n].word
  BY <1>2, <1>4
<1>6. HasIndex(q) <=> HasIndex(p)
  <2>1. IndexFile.word \notin Words
    BY SegmentFacts, WordAssumption
  <2>2. s # IndexFile /\ p[i] # IndexFile
    BY <1>2, <2>1
  <2> QED BY <1>1, <1>4, <2>2, HasIndexAt
<1>7. Tidy(q)
  BY <1>1, <1>2, <1>4 DEF Tidy
<1>8. DotsPaired(q)
  <2> SUFFICES ASSUME NEW n \in 1..Len(q), q[n].word = ".."
               PROVE  n > 1 /\ q[n - 1].word \in Words
    BY DEF DotsPaired
  <2>1. n > 1 /\ p[n - 1].word \in Words
    BY <1>1, <1>4, <1>5 DEF DotsPaired
  <2>2. n - 1 \in 1..Len(p)
    BY <1>4, <2>1
  <2> QED BY <1>5, <2>1, <2>2
<1>9. LowerCase(q) = LowerCase(p)
  <2>1. /\ LowerCase(p) \in Seq(Segment) /\ Len(LowerCase(p)) = Len(p)
        /\ \A n \in 1..Len(p) : LowerCase(p)[n] = Low(p[n])
    BY <1>1, LowerCaseParts
  <2>2. /\ LowerCase(q) \in Seq(Segment) /\ Len(LowerCase(q)) = Len(p)
        /\ \A n \in 1..Len(p) : LowerCase(q)[n] = Low(q[n])
    BY <1>4, LowerCaseParts
  <2>3. \A n \in 1..Len(p) : Low(q[n]) = Low(p[n])
    BY <1>2, <1>4
  <2> DEFINE a == LowerCase(p)
             b == LowerCase(q)
  <2>4. a \in Seq(Segment) /\ b \in Seq(Segment) /\ Len(a) = Len(b) /\ \A n \in 1..Len(a) : a[n] = b[n]
    BY <2>1, <2>2, <2>3
  <2> HIDE DEF a, b
  <2>5. a = b
    BY <2>4, SeqEqual
  <2> QED BY <2>5 DEF a, b
<1>10. LowerCase(Cleaned(q)) = LowerCase(Cleaned(p))
  BY <1>1, <1>4, <1>7, <1>9, CleanedLower
<1>11. IndexOf(q) = IndexOf(p)
  BY <1>6 DEF IndexOf
<1>12. DocsLink(q, x)
  BY <1>4, <1>6, <1>7, <1>8, <1>10, <1>11 DEF DocsLink
<1> QED BY <1>12 DEF q

LEMMA LocaleStep ==
  ASSUME NEW p, NEW x \in Seq(Segment), DocsLink(p, x), NEW w \in LocaleWords,
         \A n \in 1..Len(p) : p[n].word \notin LocaleWords
  PROVE  DocsLink(<<Plain(w)>> \o p, x)
<1> DEFINE s == Plain(w)
           q == <<s>> \o p
<1>1. s \in Segment /\ s.word \in Words /\ s.word # ".." /\ ~s.upper /\ s # IndexFile /\ s.word = w
  <2>1. s \in Segment /\ w \in Words /\ s.word = w /\ s.upper = FALSE
    BY LocaleFacts, SegmentFacts
  <2>2. IndexFile.word \notin Words /\ ".." \notin Words
    BY SegmentFacts, WordAssumption
  <2> QED BY <2>1, <2>2
<1>2. p \in Seq(Segment) /\ Tidy(p) /\ DotsPaired(p)
  BY DEF DocsLink
<1>3. <<s>> \in Locales
  BY DEF Locales
<1> HIDE DEF s
<1>4. /\ q \in Seq(Segment) /\ Len(q) = Len(p) + 1 /\ q[1] = s /\ Len(p) \in Nat
      /\ \A n \in 1..Len(p) : q[n + 1] = p[n]
  BY <1>1, <1>2, PutInFront
<1>5. Cleaned(q) = <<s>> \o Cleaned(p)
  BY <1>1, <1>2, UnderFolder
<1> HIDE DEF q
<1>6. \A n \in 1..Len(q) : n = 1 \/ \E m \in 1..Len(p) : n = m + 1 /\ q[n] = p[m]
  <2> SUFFICES ASSUME NEW n \in 1..Len(q), n # 1
               PROVE  \E m \in 1..Len(p) : n = m + 1 /\ q[n] = p[m]
    OBVIOUS
  <2>1. n - 1 \in 1..Len(p) /\ n = (n - 1) + 1
    BY <1>4
  <2> QED BY <1>4, <2>1
<1>7. HasIndex(q) <=> HasIndex(p)
  <2>1. \A n \in 1..Len(p) : n + 1 \in 1..Len(q)
    BY <1>4
  <2>2. HasIndex(p) <=> \E n \in 1..Len(p) : p[n] = IndexFile
    BY <1>2, HasIndexAt
  <2>3. HasIndex(q) <=> \E n \in 1..Len(q) : q[n] = IndexFile
    BY <1>4, HasIndexAt
  <2> QED BY <1>1, <1>4, <1>6, <2>1, <2>2, <2>3
<1>8. Tidy(q)
  BY <1>1, <1>2, <1>4, <1>6 DEF Tidy
<1>9. DotsPaired(q)
  <2> SUFFICES ASSUME NEW n \in 1..Len(q), q[n].word = ".."
               PROVE  n > 1 /\ q[n - 1].word \in Words
    BY DEF DotsPaired
  <2>1. PICK m \in 1..Len(p) : n = m + 1 /\ q[n] = p[m]
    BY <1>1, <1>4, <1>6
  <2>2. m > 1 /\ p[m - 1].word \in Words
    BY <1>2, <2>1 DEF DotsPaired
  <2>3. m - 1 \in 1..Len(p) /\ n - 1 = (m - 1) + 1
    BY <1>4, <2>1, <2>2
  <2> QED BY <1>4, <2>1, <2>2, <2>3
<1> DEFINE r == x \o IndexOf(p)
           c == Cleaned(p)
<1>10. LowerCase(c) = r
  <2>1. PICK l \in Locales : LowerCase(c) = l \o r
    BY DEF DocsLink
  <2>2. r \in Seq(Segment) /\ c \in Seq(Segment)
    <3>1. IndexOf(p) \in Seq(Segment)
      BY LocaleFacts DEF IndexOf, Indices
    <3>2. r \in Seq(Segment)
      BY <1>2, <3>1
    <3> QED BY <1>2, <3>2, CleanedType
  <2>3. l = <<>>
    <3> SUFFICES ASSUME NEW v \in LocaleWords, l = <<Plain(v)>> PROVE FALSE
      BY DEF Locales
    <3>1. Plain(v) \in Segment /\ Plain(v).word = v
      BY LocaleFacts, SegmentFacts
    <3> HIDE DEF r, c
    <3>2. Len(LowerCase(c)) = Len(r) + 1 /\ LowerCase(c)[1] = Plain(v) /\ Len(r) \in Nat
      BY <2>1, <2>2, <3>1, PutInFront
    <3>3. Len(LowerCase(c)) = Len(c) /\ \A n \in 1..Len(c) : LowerCase(c)[n] = Low(c[n])
      BY <2>2, LowerCaseParts
    <3>4. 1 \in 1..Len(c) /\ c[1] \in Segment
      BY <2>2, <3>2, <3>3
    <3>5. c[1].word = v
      <4>1. Low(c[1]) = Plain(v)
        BY <3>2, <3>3, <3>4
      <4>2. Low(c[1]).word = c[1].word
        BY <3>4, LowFacts
      <4> QED BY <3>1, <4>1, <4>2
    <3>6. PICK j \in 1..Len(p) : c[1] = p[j]
      <4>1. OutOf(c, p)
        BY <1>2, CleanedOutOfPath DEF c
      <4> QED BY <3>4, <4>1 DEF OutOf
    <3> QED BY <3>5, <3>6
  <2> HIDE DEF r, c
  <2> QED BY <2>1, <2>2, <2>3
<1>11. LowerCase(Cleaned(q)) = <<s>> \o (x \o IndexOf(q))
  <2>1. <<s>> \in Seq(Segment) /\ c \in Seq(Segment)
    BY <1>1, <1>2, ShortSeqs, CleanedType
  <2>2. LowerCase(<<s>> \o c) = LowerCase(<<s>>) \o LowerCase(c)
    <3> HIDE DEF c
    <3> QED BY <2>1, LowerConcat
  <2>3. LowerCase(<<s>>) = <<s>>
    <3>1. Len(<<s>>) = 1 /\ <<s>>[1] = s
      OBVIOUS
    <3>2. \A n \in 1..Len(<<s>>) : ~<<s>>[n].upper
      BY <1>1, <3>1
    <3> QED BY <2>1, <3>2, LowerOfLower
  <2>4. IndexOf(q) = IndexOf(p)
    BY <1>7 DEF IndexOf
  <2> QED BY <1>5, <1>10, <2>2, <2>3, <2>4
<1>12. DocsLink(q, x)
  <2>1. HasIndex(q) => MayHaveIndex(x)
    BY <1>7 DEF DocsLink
  <2>2. \E l \in Locales : LowerCase(Cleaned(q)) = l \o (x \o IndexOf(q))
    BY <1>3, <1>11
  <2> QED BY <1>4, <1>8, <1>9, <2>1, <2>2 DEF DocsLink
<1> QED BY <1>12 DEF q, s

LEMMA IndexStep ==
  ASSUME NEW p, NEW x \in Seq(Segment), DocsLink(p, x), ~HasIndex(p), MayHaveIndex(x)
  PROVE  DocsLink(Append(p, IndexFile), x)
<1>1. p \in Seq(Segment) /\ Tidy(p) /\ DotsPaired(p)
  BY DEF DocsLink
<1>2. IndexFile \in Segment /\ IndexFile.upper = FALSE /\ IndexFile.word # ".."
  BY SegmentFacts
<1>3. /\ Append(p, IndexFile) \in Seq(Segment)
      /\ Tidy(Append(p, IndexFile)) /\ DotsPaired(Append(p, IndexFile))
      /\ HasIndex(Append(p, IndexFile))
  BY <1>1, <1>2, AppendParts, TidyAppend, DotsPairedAppend, HasIndexAppend
<1>4. IndexOf(p) = <<>> /\ IndexOf(Append(p, IndexFile)) = <<IndexFile>>
  BY <1>3 DEF IndexOf
<1>5. PICK l \in Locales : LowerCase(Cleaned(p)) = l \o (x \o <<>>)
  BY <1>4 DEF DocsLink
<1>6. LowerCase(Cleaned(p)) = l \o x /\ l \in Seq(Segment)
  <2>1. x \o <<>> = x
    OBVIOUS
  <2> QED BY <1>5, <2>1, LocaleFacts
<1>7. LowerCase(Cleaned(Append(p, IndexFile))) = l \o (x \o <<IndexFile>>)
  <2>1. Cleaned(Append(p, IndexFile)) = Append(Cleaned(p), IndexFile)
    BY <1>1, <1>2, WordIsKept
  <2>2. Low(IndexFile) = IndexFile
    BY <1>2, LowOfLow
  <2>3. LowerCase(Append(Cleaned(p), IndexFile)) = Append(LowerCase(Cleaned(p)), IndexFile)
    BY <1>1, <1>2, <2>2, CleanedType, LowerAppend
  <2>4. Append(l \o x, IndexFile) = l \o (x \o <<IndexFile>>)
    <3>1. x \o <<IndexFile>> = Append(x, IndexFile)
      BY <1>2, ConcatShort
    <3>2. l \o Append(x, IndexFile) = Append(l \o x, IndexFile)
      BY <1>2, <1>6, ConcatAppend
    <3> QED BY <3>1, <3>2
  <2> QED BY <1>6, <2>1, <2>3, <2>4
<1> QED BY <1>3, <1>4, <1>7 DEF DocsLink
-----------------------------------------------------------------------------
(* The state.  A link is on the site of its page: what differs of its host,*)
(* its fragment and its query is what the rules take away, or is one of the*)
(* spellings that they do not undo; and its path leads to the page.        *)
Schemes == {"http", "https"}
Subs == {"", "www.", "gist."}
Ports == {"", "80", "443", "8080"}

SameSub(sub, own) == sub = own \/ (own = "" /\ sub = "www.")
SamePort(port, scheme, own) ==
  \/ port = own
  \/ own = "" /\ <<scheme, port>> \in {<<"http", "80">>, <<"https", "443">>}
SameFragment(fragment, own) ==
  \/ fragment = own
  \/ own = "" /\ fragment \in Fragments \ LineNumbers

LinkType == page \in Pages /\ link \in Url

SameSite ==
  /\ link.host = page.host
  /\ SameSub(link.sub, page.sub)
  /\ SamePort(link.port, link.scheme, page.port)
  /\ SameFragment(link.fragment, page.fragment)
  /\ ~OnGit => link.scheme = page.scheme /\ link.user = page.user
  /\ OnGit => ToSet(link.query) \ Tracking = ToSet(page.query) \ Tracking

SamePath ==
  IF OnGit THEN GitLink(link.path, page.path) ELSE DocsLink(link.path, page.path)

IInv == LinkType /\ SameSite /\ SamePath

LEMMA TypeOfUrl ==
  ASSUME NEW u
  PROVE  u \in Url <=>
           /\ HasFields(u)
           /\ u.scheme \in Schemes /\ u.user \in BOOLEAN /\ u.sub \in Subs
           /\ u.host \in GitHosts \union PlainHosts
           /\ u.upper \in BOOLEAN /\ u.zeros \in BOOLEAN /\ u.port \in Ports
           /\ u.path \in Seq(Segment) /\ u.query \in Seq(Params)
           /\ u.fragment \in Fragments \union {""}
<1> DEFINE f == Fragments \union {""}
           h == GitHosts \union PlainHosts
<1>1. Url = [scheme : Schemes, user : BOOLEAN, sub : Subs, host : h,
             upper : BOOLEAN, zeros : BOOLEAN, port : Ports,
             path : Seq(Segment), query : Seq(Params), fragment : f]
  BY DEF Url, Schemes, Subs, Ports
<1> HIDE DEF f, h
<1>2. u \in Url <=>
           /\ HasFields(u)
           /\ u.scheme \in Schemes /\ u.user \in BOOLEAN /\ u.sub \in Subs
           /\ u.host \in h
           /\ u.upper \in BOOLEAN /\ u.zeros \in BOOLEAN /\ u.port \in Ports
           /\ u.path \in Seq(Segment) /\ u.query \in Seq(Params)
           /\ u.fragment \in f
  BY <1>1 DEF HasFields
<1> QED BY <1>2 DEF f, h

(* The shortest URL of a page.                                             *)
DocsPage(x) == x = <<>> \/ (PagePath(x) /\ x[1].word \notin LocaleWords)

LEMMA PageFacts ==
  ASSUME NEW p \in Pages
  PROVE  /\ p \in Url /\ HasFields(p) /\ p.path \in Seq(Segment) /\ OfWords(p.path)
         /\ p.upper = FALSE /\ p.zeros = FALSE /\ NoWww(p.sub) = p.sub /\ NoPort(p) = p.port
         /\ p.query = CleanQuery(p.query) /\ p.sub # "www."
         /\ p.host \in GitHosts =>
              /\ isGitHost(p) /\ p.scheme = "https" /\ p.user = FALSE
              /\ RepoPage(p.path) /\ OnlyLines(p.fragment) = p.fragment
         /\ p.host \notin GitHosts =>
              /\ ~isGitHost(p) /\ p.query = <<>> /\ p.fragment = ""
              /\ DocsPage(p.path)
<1>1. /\ p \in Url /\ Shortest(p)
      /\ p.host \in GitHosts => ShortestOnGit(p)
      /\ p.host \notin GitHosts => ShortestElsewhere(p)
  BY PageAssumption
<1>2. /\ HasFields(p) /\ p.path \in Seq(Segment)
      /\ p.user \in BOOLEAN /\ p.upper \in BOOLEAN /\ p.zeros \in BOOLEAN
  BY <1>1, TypeOfUrl
<1>3. DOMAIN p.path = 1..Len(p.path)
  BY <1>2
<1>4. /\ ~p.upper /\ ~p.zeros /\ p.sub # "www." /\ ~DefaultPort(p)
      /\ \A i \in DOMAIN p.path : p.path[i].word \in Words
      /\ p.query = CleanQuery(p.query)
  BY <1>1 DEF Shortest
<1>5. OfWords(p.path)
  BY <1>3, <1>4 DEF OfWords
<1>6. NoWww(p.sub) = p.sub /\ NoPort(p) = p.port
  BY <1>4 DEF NoWww, NoPort
<1>7. ASSUME p.host \in GitHosts
      PROVE  /\ isGitHost(p) /\ p.scheme = "https" /\ p.user = FALSE
             /\ RepoPage(p.path) /\ OnlyLines(p.fragment) = p.fragment
  <2>1. /\ isGitHost(p) /\ p.scheme = "https" /\ ~p.user
        /\ p.path # <<>> => Last(p.path).tail # "git"
        /\ p.fragment \in LineNumbers \union {""}
    BY <1>1, <1>7 DEF ShortestOnGit
  <2>2. OnlyLines(p.fragment) = p.fragment
    BY <2>1 DEF OnlyLines
  <2>3. RepoPage(p.path)
    BY <1>2, <1>5, <2>1 DEF RepoPage, RepoPath
  <2> QED BY <1>2, <2>1, <2>2, <2>3
<1>8. ASSUME p.host \notin GitHosts
      PROVE  ~isGitHost(p) /\ p.query = <<>> /\ p.fragment = "" /\ DocsPage(p.path)
  <2>1. /\ \A i \in DOMAIN p.path : ~p.path[i].upper
        /\ p.path # <<>> => p.path[1].word \notin LocaleWords
        /\ p.query = <<>> /\ p.fragment = ""
    BY <1>1, <1>8 DEF ShortestElsewhere
  <2>2. ~isGitHost(p)
    BY <1>8 DEF isGitHost, GitHosts
  <2>3. ASSUME p.path # <<>> PROVE PagePath(p.path) /\ p.path[1].word \notin LocaleWords
    <3>1. \A i \in 1..Len(p.path) : ~p.path[i].upper
      BY <1>3, <2>1
    <3>2. p.path[1].word \notin LocaleWords
      BY <2>1, <2>3
    <3> QED BY <1>2, <1>5, <2>3, <3>1, <3>2 DEF PagePath
  <2> QED BY <2>1, <2>2, <2>3 DEF DocsPage
<1> QED BY <1>1, <1>2, <1>4, <1>5, <1>6, <1>7, <1>8

LEMMA InitHolds == Init => IInv
<1> SUFFICES ASSUME Init PROVE IInv
  OBVIOUS
<1>1. page \in Pages /\ link = page
  BY DEF Init
<1>2. page \in Url /\ page.path \in Seq(Segment) /\ OfWords(page.path)
  BY <1>1, PageFacts
<1>3. LinkType
  BY <1>1, <1>2 DEF LinkType
<1>4. SameSite
  BY <1>1 DEF SameSite, SameSub, SamePort, SameFragment
<1> DEFINE x == page.path
<1>5. ~HasIndex(x) /\ Tidy(x) /\ DotsPaired(x) /\ Cleaned(x) = x
  BY <1>2, WordsHaveNoIndex, WordsAreClean
<1>6. ASSUME OnGit PROVE GitLink(x, x)
  BY <1>2, <1>5 DEF GitLink, RepoOrClone
<1>7. ASSUME ~OnGit PROVE DocsLink(x, x)
  <2>1. LowerCase(x) = x
    <3>1. DocsPage(x)
      BY <1>1, <1>7, PageFacts DEF OnGit
    <3>2. CASE x = <<>>
      BY <1>2, <3>2, LowerEmpty
    <3>3. CASE PagePath(x)
      BY <3>3, PagePathIsPlain
    <3> QED BY <3>1, <3>2, <3>3 DEF DocsPage
  <2>2. IndexOf(x) = <<>>
    BY <1>5 DEF IndexOf
  <2>3. <<>> \o (x \o <<>>) = x
    BY <1>2
  <2>4. <<>> \in Locales
    BY DEF Locales
  <2> HIDE DEF x
  <2>5. LowerCase(Cleaned(x)) = <<>> \o (x \o IndexOf(x))
    BY <1>5, <2>1, <2>2, <2>3
  <2> QED BY <1>2, <1>5, <2>4, <2>5 DEF DocsLink, x
<1>8. SamePath
  BY <1>1, <1>6, <1>7 DEF SamePath
<1> QED BY <1>3, <1>4, <1>8 DEF IInv
-----------------------------------------------------------------------------
(* The steps.  What one of them changes of the URL it respells.            *)
LEMMA PathOnly ==
  ASSUME LinkType, SameSite, NEW p \in Seq(Segment), Respelled([link EXCEPT !.path = p])
  PROVE  LinkType' /\ SameSite' /\ link'.path = p /\ page' = page
<1>1. link' = [link EXCEPT !.path = p] /\ page' = page
  BY DEF Respelled
<1>2. HasFields(link)
  BY TypeOfUrl DEF LinkType
<1>3. /\ HasFields(link') /\ link'.path = p
      /\ link'.scheme = link.scheme /\ link'.user = link.user /\ link'.sub = link.sub
      /\ link'.host = link.host /\ link'.upper = link.upper /\ link'.zeros = link.zeros
      /\ link'.port = link.port /\ link'.query = link.query /\ link'.fragment = link.fragment
  BY <1>1, <1>2 DEF HasFields
<1>4. LinkType'
  BY <1>1, <1>3, TypeOfUrl DEF LinkType
<1>5. SameSite'
  BY <1>1, <1>3 DEF SameSite, OnGit
<1> QED BY <1>1, <1>3, <1>4, <1>5

LEMMA PathIsSeq == IInv => link.path \in Seq(Segment) /\ DOMAIN link.path = 1..Len(link.path)
<1> SUFFICES ASSUME IInv PROVE link.path \in Seq(Segment) /\ DOMAIN link.path = 1..Len(link.path)
  OBVIOUS
<1>1. link.path \in Seq(Segment)
  BY UrlHasFields DEF IInv, LinkType
<1> QED BY <1>1

LEMMA AddSlashStep == IInv /\ AddSlash => IInv'
<1> SUFFICES ASSUME IInv, AddSlash PROVE IInv'
  OBVIOUS
<1> DEFINE p == Append(link.path, Nothing)
<1>1. link.path \in Seq(Segment) /\ p \in Seq(Segment)
  BY PathIsSeq, SpecialSegments, AppendParts
<1>2. Respelled([link EXCEPT !.path = p])
  BY DEF AddSlash
<1>3. LinkType' /\ SameSite' /\ link'.path = p /\ page' = page
  <2> HIDE DEF p
  <2> QED BY <1>1, <1>2, PathOnly DEF IInv
<1>4. SamePath'
  BY <1>1, <1>3, SlashStep DEF IInv, SamePath, OnGit
<1> QED BY <1>3, <1>4 DEF IInv

LEMMA AddDetourStep == IInv /\ AddDetour => IInv'
<1> SUFFICES ASSUME IInv, AddDetour PROVE IInv'
  OBVIOUS
<1>1. PICK i \in 0..(Len(link.path) - 1), d \in Detours :
        /\ ~ \E n \in DOMAIN link.path : link.path[n].word \in {".", ".."}
        /\ Respelled([link EXCEPT !.path = Insert(link.path, i, d)])
  BY DEF AddDetour
<1> DEFINE p == Insert(link.path, i, d)
<1>2. link.path \in Seq(Segment) /\ DOMAIN link.path = 1..Len(link.path)
  BY PathIsSeq
<1>3. i \in 0..Len(link.path) /\ \A n \in 1..Len(link.path) : link.path[n].word # ".."
  BY <1>1, <1>2
<1>4. p \in Seq(Segment)
  BY <1>2, <1>3, InsertDetour
<1>5. LinkType' /\ SameSite' /\ link'.path = p /\ page' = page
  <2>1. Respelled([link EXCEPT !.path = p])
    BY <1>1
  <2> HIDE DEF p
  <2> QED BY <1>4, <2>1, PathOnly DEF IInv
<1>6. \A x : /\ GitLink(link.path, x) => GitLink(p, x)
             /\ DocsLink(link.path, x) => DocsLink(p, x)
  BY <1>2, <1>3, DetourStep
<1> HIDE DEF p
<1>7. SamePath'
  BY <1>5, <1>6 DEF IInv, SamePath, OnGit
<1> QED BY <1>5, <1>7 DEF IInv

LEMMA AddGitStep == IInv /\ AddGit => IInv'
<1> SUFFICES ASSUME IInv, AddGit PROVE IInv'
  OBVIOUS
<1>1. /\ OnGit /\ Len(page.path) > 1 /\ Last(page.path).tail = "" /\ link.path = page.path
      /\ Respelled([link EXCEPT !.path[Len(link.path)].tail = "git"])
  BY DEF AddGit
<1> DEFINE p == [page.path EXCEPT ![Len(page.path)].tail = "git"]
<1>2. page.path # <<>> /\ RepoPath(page.path)
  <2>1. page.path # <<>>
    <3>1. Len(page.path) > 1
      BY <1>1
    <3>2. Len(<<>>) = 0
      OBVIOUS
    <3> QED BY <3>1, <3>2
  <2> QED BY <1>1, <2>1, PageFacts DEF IInv, LinkType, OnGit, RepoPage
<1>3. RepoOrClone(p, page.path)
  BY <1>1, <1>2 DEF RepoOrClone
<1>4. Respelled([link EXCEPT !.path = p])
  BY <1>1
<1> HIDE DEF p
<1>5. GitLink(p, page.path)
  BY <1>2, <1>3, GitStep
<1>6. LinkType' /\ SameSite' /\ link'.path = p /\ page' = page
  BY <1>4, <1>5, PathOnly DEF IInv, GitLink
<1>7. SamePath'
  BY <1>1, <1>5, <1>6 DEF SamePath, OnGit
<1> QED BY <1>6, <1>7 DEF IInv

LEMMA UpperPathStep == IInv /\ UpperPath => IInv'
<1> SUFFICES ASSUME IInv, UpperPath PROVE IInv'
  OBVIOUS
<1>1. link.path \in Seq(Segment) /\ DOMAIN link.path = 1..Len(link.path)
  BY PathIsSeq
<1>2. ~OnGit
  BY DEF UpperPath
<1>3. PICK i \in 1..Len(link.path) :
        link.path[i].word \in Words /\ Respelled([link EXCEPT !.path[i].upper = TRUE])
  BY <1>1 DEF UpperPath
<1> DEFINE p == [link.path EXCEPT ![i].upper = TRUE]
<1>4. DocsLink(link.path, page.path)
  BY <1>2 DEF IInv, SamePath
<1>5. DocsLink(p, page.path)
  BY <1>3, <1>4, UpperStep
<1>6. Respelled([link EXCEPT !.path = p])
  BY <1>3
<1> HIDE DEF p
<1>7. LinkType' /\ SameSite' /\ link'.path = p /\ page' = page
  BY <1>5, <1>6, PathOnly DEF IInv, DocsLink
<1>8. SamePath'
  BY <1>2, <1>5, <1>7 DEF SamePath, OnGit
<1> QED BY <1>7, <1>8 DEF IInv

LEMMA AddLocaleStep == IInv /\ AddLocale => IInv'
<1> SUFFICES ASSUME IInv, AddLocale PROVE IInv'
  OBVIOUS
<1>1. link.path \in Seq(Segment) /\ DOMAIN link.path = 1..Len(link.path)
  BY PathIsSeq
<1>2. ~OnGit
  BY DEF AddLocale
<1>3. PICK w \in LocaleWords :
        /\ \A i \in 1..Len(link.path) : link.path[i].word \notin LocaleWords
        /\ Respelled([link EXCEPT !.path = <<Plain(w)>> \o link.path])
  BY <1>1 DEF AddLocale
<1> DEFINE p == <<Plain(w)>> \o link.path
<1>4. DocsLink(link.path, page.path) /\ page.path \in Seq(Segment)
  BY <1>2, PageFacts DEF IInv, LinkType, SamePath
<1>5. DocsLink(p, page.path)
  BY <1>3, <1>4, LocaleStep
<1>6. Respelled([link EXCEPT !.path = p])
  BY <1>3
<1> HIDE DEF p
<1>7. LinkType' /\ SameSite' /\ link'.path = p /\ page' = page
  BY <1>5, <1>6, PathOnly DEF IInv, DocsLink
<1>8. SamePath'
  BY <1>2, <1>5, <1>7 DEF SamePath, OnGit
<1> QED BY <1>7, <1>8 DEF IInv

LEMMA AddIndexStep == IInv /\ AddIndex => IInv'
<1> SUFFICES ASSUME IInv, AddIndex PROVE IInv'
  OBVIOUS
<1> DEFINE q == IF EndsInSlash(link.path) THEN Front(link.path) ELSE link.path
           p == Append(q, IndexFile)
<1>1. link.path \in Seq(Segment)
  BY PathIsSeq
<1>2. ~OnGit /\ ~HasIndex(link.path) /\ MayHaveIndex(page.path)
  BY DEF AddIndex, HasIndex, MayHaveIndex
<1>3. DocsLink(link.path, page.path) /\ page.path \in Seq(Segment)
  BY <1>2, PageFacts DEF IInv, LinkType, SamePath
<1>4. q \in Seq(Segment) /\ DocsLink(q, page.path) /\ ~HasIndex(q)
  <2>1. CASE ~EndsInSlash(link.path)
    BY <1>1, <1>2, <1>3, <2>1
  <2>2. CASE EndsInSlash(link.path)
    <3>1. link.path # <<>> /\ Last(link.path) = Nothing
      BY <2>2 DEF EndsInSlash
    <3>2. q \in Seq(Segment) /\ link.path = Append(q, Nothing)
      BY <1>1, <2>2, <3>1, FrontAndLast
    <3> HIDE DEF q
    <3>3. DocsLink(q, page.path)
      BY <1>3, <3>2, SlashStep
    <3>4. ~HasIndex(q)
      BY <1>2, <3>2, SpecialSegments, HasIndexAppend
    <3> QED BY <3>2, <3>3, <3>4
  <2> QED BY <2>1, <2>2
<1>5. Respelled([link EXCEPT !.path = p])
  BY DEF AddIndex
<1> HIDE DEF q
<1>6. DocsLink(p, page.path)
  BY <1>2, <1>3, <1>4, IndexStep
<1> HIDE DEF p
<1>7. LinkType' /\ SameSite' /\ link'.path = p /\ page' = page
  BY <1>5, <1>6, PathOnly DEF IInv, DocsLink
<1>8. SamePath'
  BY <1>2, <1>6, <1>7 DEF SamePath, OnGit
<1> QED BY <1>7, <1>8 DEF IInv
(* The steps that leave the path alone.                                    *)
LEMMA PathLeftAlone ==
  ASSUME IInv, page' = page, link'.path = link.path, LinkType', SameSite'
  PROVE  IInv'
BY DEF IInv, SamePath, OnGit

LEMMA UpperHostStep == IInv /\ (UpperHost \/ ZeroPad) => IInv'
<1> SUFFICES ASSUME IInv, UpperHost \/ ZeroPad PROVE IInv'
  OBVIOUS
<1>1. PICK b \in BOOLEAN, c \in BOOLEAN :
        link' = [link EXCEPT !.upper = b, !.zeros = c] /\ page' = page
  <2>1. HasFields(link) /\ link.upper \in BOOLEAN /\ link.zeros \in BOOLEAN
    BY TypeOfUrl DEF IInv, LinkType
  <2>2. \/ link' = [link EXCEPT !.upper = TRUE] /\ page' = page
        \/ link' = [link EXCEPT !.zeros = TRUE] /\ page' = page
    BY DEF UpperHost, ZeroPad, Respelled
  <2>3. /\ [link EXCEPT !.upper = TRUE] = [link EXCEPT !.upper = TRUE, !.zeros = link.zeros]
        /\ [link EXCEPT !.zeros = TRUE] = [link EXCEPT !.upper = link.upper, !.zeros = TRUE]
    BY <2>1 DEF HasFields
  <2>4. /\ link' = [link EXCEPT !.upper = TRUE] => link' = [link EXCEPT !.upper = TRUE, !.zeros = link.zeros]
        /\ link' = [link EXCEPT !.zeros = TRUE] => link' = [link EXCEPT !.upper = link.upper, !.zeros = TRUE]
    BY <2>3
  <2>5. TRUE \in BOOLEAN
    OBVIOUS
  <2> QED BY <2>1, <2>2, <2>4, <2>5
<1>2. HasFields(link)
  BY TypeOfUrl DEF IInv, LinkType
<1>3. /\ HasFields(link') /\ link'.upper = b /\ link'.zeros = c
      /\ link'.scheme = link.scheme /\ link'.user = link.user /\ link'.sub = link.sub
      /\ link'.host = link.host /\ link'.port = link.port
      /\ link'.path = link.path /\ link'.query = link.query /\ link'.fragment = link.fragment
  BY <1>1, <1>2 DEF HasFields
<1>4. LinkType'
  BY <1>1, <1>3, TypeOfUrl DEF IInv, LinkType
<1>5. SameSite'
  BY <1>1, <1>3 DEF IInv, SameSite, OnGit
<1> QED BY <1>1, <1>3, <1>4, <1>5, PathLeftAlone

LEMMA AddWwwStep == IInv /\ AddWww => IInv'
<1> SUFFICES ASSUME IInv, AddWww PROVE IInv'
  OBVIOUS
<1>1. link' = [link EXCEPT !.sub = "www."] /\ page' = page /\ link.sub = ""
  BY DEF AddWww, Respelled
<1>2. HasFields(link)
  BY TypeOfUrl DEF IInv, LinkType
<1>3. /\ HasFields(link') /\ link'.sub = "www."
      /\ link'.upper = link.upper /\ link'.zeros = link.zeros
      /\ link'.scheme = link.scheme /\ link'.user = link.user
      /\ link'.host = link.host /\ link'.port = link.port
      /\ link'.path = link.path /\ link'.query = link.query /\ link'.fragment = link.fragment
  <2>1. link' = [link EXCEPT !.sub = "www."]
    BY <1>1
  <2> QED BY <1>2, <2>1 DEF HasFields
<1>4. LinkType'
  BY <1>1, <1>3, TypeOfUrl DEF IInv, LinkType, Subs
<1>5. SameSub(link'.sub, page'.sub)
  BY <1>1, <1>3 DEF IInv, SameSite, SameSub
<1>6. SameSite'
  <2>1. page' = page
    BY <1>1
  <2> QED BY <1>3, <1>5, <2>1 DEF IInv, SameSite, OnGit
<1> QED BY <1>1, <1>3, <1>4, <1>6, PathLeftAlone

LEMMA AddPortStep == IInv /\ AddPort => IInv'
<1> SUFFICES ASSUME IInv, AddPort PROVE IInv'
  OBVIOUS
<1> DEFINE n == IF link.scheme = "http" THEN "80" ELSE "443"
<1>1. link' = [link EXCEPT !.port = n] /\ page' = page /\ link.port = ""
  BY DEF AddPort, Respelled
<1>2. HasFields(link) /\ link.scheme \in Schemes
  BY TypeOfUrl DEF IInv, LinkType
<1>3. n \in Ports /\ <<link.scheme, n>> \in {<<"http", "80">>, <<"https", "443">>}
  BY <1>2 DEF Schemes, Ports
<1> HIDE DEF n
<1>4. /\ HasFields(link') /\ link'.port = n
      /\ link'.upper = link.upper /\ link'.zeros = link.zeros
      /\ link'.scheme = link.scheme /\ link'.user = link.user
      /\ link'.host = link.host /\ link'.sub = link.sub
      /\ link'.path = link.path /\ link'.query = link.query /\ link'.fragment = link.fragment
  <2>1. link' = [link EXCEPT !.port = n]
    BY <1>1
  <2> QED BY <1>2, <2>1 DEF HasFields
<1>5. LinkType'
  BY <1>1, <1>3, <1>4, TypeOfUrl DEF IInv, LinkType
<1>6. SamePort(link'.port, link'.scheme, page'.port)
  <2>1. page.port = "" /\ page' = page
    BY <1>1 DEF IInv, SameSite, SamePort
  <2> QED BY <1>3, <1>4, <2>1 DEF SamePort
<1>7. SameSite'
  <2>1. page' = page
    BY <1>1
  <2> QED BY <1>4, <1>6, <2>1 DEF IInv, SameSite, OnGit
<1> QED BY <1>1, <1>4, <1>5, <1>7, PathLeftAlone

LEMMA AddFragmentStep == IInv /\ AddFragment => IInv'
<1> SUFFICES ASSUME IInv, AddFragment PROVE IInv'
  OBVIOUS
<1>1. PICK f \in Fragments \ LineNumbers :
        link' = [link EXCEPT !.fragment = f] /\ page' = page /\ link.fragment = ""
  BY DEF AddFragment, Respelled
<1>2. HasFields(link)
  BY TypeOfUrl DEF IInv, LinkType
<1>3. /\ HasFields(link') /\ link'.fragment = f
      /\ link'.upper = link.upper /\ link'.zeros = link.zeros
      /\ link'.scheme = link.scheme /\ link'.user = link.user
      /\ link'.host = link.host /\ link'.sub = link.sub /\ link'.port = link.port
      /\ link'.path = link.path /\ link'.query = link.query
  <2>1. link' = [link EXCEPT !.fragment = f]
    BY <1>1
  <2> QED BY <1>2, <2>1 DEF HasFields
<1>4. LinkType'
  BY <1>1, <1>3, TypeOfUrl DEF IInv, LinkType
<1>5. SameFragment(link'.fragment, page'.fragment)
  BY <1>1, <1>3 DEF IInv, SameSite, SameFragment
<1>6. SameSite'
  <2>1. page' = page
    BY <1>1
  <2> QED BY <1>3, <1>5, <2>1 DEF IInv, SameSite, OnGit
<1> QED BY <1>1, <1>3, <1>4, <1>6, PathLeftAlone

LEMMA OtherSchemeStep == IInv /\ OtherScheme => IInv'
<1> SUFFICES ASSUME IInv, OtherScheme PROVE IInv'
  OBVIOUS
<1>1. link' = [link EXCEPT !.scheme = "http"] /\ page' = page /\ OnGit /\ link.port = ""
  BY DEF OtherScheme, Respelled
<1>2. HasFields(link)
  BY TypeOfUrl DEF IInv, LinkType
<1>3. /\ HasFields(link') /\ link'.scheme = "http"
      /\ link'.upper = link.upper /\ link'.zeros = link.zeros
      /\ link'.user = link.user /\ link'.fragment = link.fragment
      /\ link'.host = link.host /\ link'.sub = link.sub /\ link'.port = link.port
      /\ link'.path = link.path /\ link'.query = link.query
  <2>1. link' = [link EXCEPT !.scheme = "http"]
    BY <1>1
  <2> QED BY <1>2, <2>1 DEF HasFields
<1>4. LinkType'
  BY <1>1, <1>3, TypeOfUrl DEF IInv, LinkType, Schemes
<1>5. SamePort(link'.port, link'.scheme, page'.port)
  <2>1. SamePort(link.port, link.scheme, page.port)
    BY DEF IInv, SameSite
  <2>2. link.port = page.port
    BY <1>1, <2>1 DEF SamePort
  <2> QED BY <1>1, <1>3, <2>2 DEF SamePort
<1>6. SameSite'
  <2>1. page' = page /\ OnGit
    BY <1>1
  <2> QED BY <1>3, <1>5, <2>1 DEF IInv, SameSite, OnGit
<1> QED BY <1>1, <1>3, <1>4, <1>6, PathLeftAlone

LEMMA AddUserStep == IInv /\ AddUser => IInv'
<1> SUFFICES ASSUME IInv, AddUser PROVE IInv'
  OBVIOUS
<1>1. link' = [link EXCEPT !.user = TRUE] /\ page' = page /\ OnGit
  BY DEF AddUser, Respelled
<1>2. HasFields(link)
  BY TypeOfUrl DEF IInv, LinkType
<1>3. /\ HasFields(link') /\ link'.user = TRUE
      /\ link'.upper = link.upper /\ link'.zeros = link.zeros
      /\ link'.scheme = link.scheme /\ link'.fragment = link.fragment
      /\ link'.host = link.host /\ link'.sub = link.sub /\ link'.port = link.port
      /\ link'.path = link.path /\ link'.query = link.query
  BY <1>1, <1>2 DEF HasFields
<1>4. LinkType'
  <2>1. page \in Pages /\ link \in Url
    BY DEF IInv, LinkType
  <2>2. /\ link.scheme \in Schemes /\ link.sub \in Subs
        /\ link.host \in GitHosts \union PlainHosts
        /\ link.upper \in BOOLEAN /\ link.zeros \in BOOLEAN /\ link.port \in Ports
        /\ link.path \in Seq(Segment) /\ link.query \in Seq(Params)
        /\ link.fragment \in Fragments \union {""}
    BY <2>1, TypeOfUrl
  <2>3. link'.user \in BOOLEAN
    BY <1>3
  <2>4. link' \in Url
    BY <1>3, <2>2, <2>3, TypeOfUrl
  <2> QED BY <1>1, <2>1, <2>4 DEF LinkType
<1>5. SameSite'
  BY <1>1, <1>3 DEF IInv, SameSite, OnGit
<1> QED BY <1>1, <1>3, <1>4, <1>5, PathLeftAlone

LEMMA QueryOnly ==
  ASSUME IInv, NEW q \in Seq(Params), Respelled([link EXCEPT !.query = q]),
         OnGit => ToSet(q) \ Tracking = ToSet(link.query) \ Tracking
  PROVE  IInv'
<1>1. link' = [link EXCEPT !.query = q] /\ page' = page
  BY DEF Respelled
<1>2. HasFields(link)
  BY TypeOfUrl DEF IInv, LinkType
<1>3. /\ HasFields(link') /\ link'.query = q
      /\ link'.upper = link.upper /\ link'.zeros = link.zeros
      /\ link'.scheme = link.scheme /\ link'.user = link.user /\ link'.fragment = link.fragment
      /\ link'.host = link.host /\ link'.sub = link.sub /\ link'.port = link.port
      /\ link'.path = link.path
  BY <1>1, <1>2 DEF HasFields
<1>4. LinkType'
  BY <1>1, <1>3, TypeOfUrl DEF IInv, LinkType
<1>5. SameSite'
  BY <1>1, <1>3 DEF IInv, SameSite, OnGit
<1> QED BY <1>1, <1>3, <1>4, <1>5, PathLeftAlone

LEMMA AddTrackingStep == IInv /\ AddTracking => IInv'
<1> SUFFICES ASSUME IInv, AddTracking PROVE IInv'
  OBVIOUS
<1>1. PICK t \in Tracking, i \in 0..Len(link.query) :
        Respelled([link EXCEPT !.query = InsertAt(link.query, i + 1, t)])
  BY DEF AddTracking
<1>2. link.query \in Seq(Params) /\ t \in Params
  BY UrlHasFields, ParamAssumption DEF IInv, LinkType
<1> DEFINE q == Insert(link.query, i, <<t>>)
<1>3. InsertAt(link.query, i + 1, t) = q
  <2>1. (i + 1) - 1 = i
    OBVIOUS
  <2> QED BY <2>1 DEF InsertAt, Insert
<1>4. <<t>> \in Seq(Params) /\ ToSet(<<t>>) = {t}
  BY <1>2 DEF ToSet
<1>5. q \in Seq(Params) /\ ToSet(q) = ToSet(link.query) \union {t}
  <2> DEFINE p == link.query
             d == <<t>>
  <2>1. p \in Seq(Params) /\ i \in 0..Len(p) /\ d \in Seq(Params) /\ ToSet(d) = {t}
    BY <1>2, <1>4
  <2> HIDE DEF p, d
  <2>2. Insert(p, i, d) \in Seq(Params)
    BY <2>1, InsertParts
  <2>3. ToSet(Insert(p, i, d)) = ToSet(p) \union ToSet(d)
    BY <2>1, InsertSet
  <2> QED BY <2>1, <2>2, <2>3 DEF p, d
<1>6. ToSet(q) \ Tracking = ToSet(link.query) \ Tracking
  BY <1>5
<1> HIDE DEF q
<1> QED BY <1>1, <1>3, <1>5, <1>6, QueryOnly

LEMMA SwapQueryStep == IInv /\ SwapQuery => IInv'
<1> SUFFICES ASSUME IInv, SwapQuery PROVE IInv'
  OBVIOUS
<1> DEFINE p == link.query
           q == Reverse(p)
<1>1. Respelled([link EXCEPT !.query = q])
  BY DEF SwapQuery
<1>2. p \in Seq(Params)
  BY UrlHasFields DEF IInv, LinkType
<1>3. q = [i \in 1..Len(p) |-> p[(Len(p) - i) + 1]]
  BY DEF Reverse
<1> HIDE DEF p, q
<1>4. /\ Len(p) \in Nat /\ DOMAIN p = 1..Len(p)
      /\ \A i \in 1..Len(p) : p[i] \in Params /\ (Len(p) - i) + 1 \in 1..Len(p)
  BY <1>2
<1>5. q \in Seq(Params)
  <2>1. q \in [1..Len(p) -> Params]
    BY <1>3, <1>4
  <2> QED BY <1>4, <2>1
<1>6. ToSet(q) = ToSet(p)
  <2>1. DOMAIN q = 1..Len(p) /\ \A i \in 1..Len(p) : q[i] = p[(Len(p) - i) + 1]
    BY <1>3
  <2>2. \A i \in 1..Len(p) : \E j \in 1..Len(p) : p[i] = q[j]
    <3> TAKE i \in 1..Len(p)
    <3>1. (Len(p) - ((Len(p) - i) + 1)) + 1 = i
      BY <1>4
    <3>2. q[(Len(p) - i) + 1] = p[i]
      BY <1>4, <2>1, <3>1
    <3> QED BY <1>4, <3>2
  <2>3. ToSet(p) \subseteq ToSet(q)
    BY <1>4, <2>1, <2>2 DEF ToSet
  <2>4. ToSet(q) \subseteq ToSet(p)
    BY <1>4, <2>1 DEF ToSet
  <2> QED BY <2>3, <2>4
<1> QED BY <1>1, <1>5, <1>6, QueryOnly DEF p

LEMMA AddQueryStep == IInv /\ AddQuery => IInv'
<1> SUFFICES ASSUME IInv, AddQuery PROVE IInv'
  OBVIOUS
<1>1. ~OnGit
  BY DEF AddQuery
<1>2. PICK t \in Params : Respelled([link EXCEPT !.query = Append(link.query, t)])
  BY DEF AddQuery
<1>3. link.query \in Seq(Params)
  BY UrlHasFields DEF IInv, LinkType
<1>4. Append(link.query, t) \in Seq(Params)
  BY <1>3, AppendParts
<1> QED BY <1>1, <1>2, <1>4, QueryOnly

(* Every step keeps the invariant.                                         *)
LEMMA NextHolds == IInv /\ [Next]_vars => IInv'
<1>1. IInv /\ UNCHANGED vars => IInv'
  BY DEF vars, IInv, LinkType, SameSite, SamePath, OnGit
<1>2. IInv /\ Next => IInv'
  BY UpperHostStep, AddWwwStep, AddPortStep, AddSlashStep, AddDetourStep,
     AddTrackingStep, SwapQueryStep, AddFragmentStep, OtherSchemeStep, AddUserStep, AddGitStep,
     AddQueryStep, UpperPathStep, AddLocaleStep, AddIndexStep DEF Next
<1> QED BY <1>1, <1>2

(* The URL in the link is a URL; it is on the site of its page, and its    *)
(* path, cleaned, is the path of the page but for what the rules of the    *)
(* site take away: all that the steps of LinkSpellings can do to it.       *)
THEOREM LinkLeadsToPage == Spec => []IInv
BY InitHolds, NextHolds, PTL DEF Spec
-----------------------------------------------------------------------------
(* The keys of the links to a page of documentation, by their paths.       *)
LEMMA RootPathKeys ==
  ASSUME NEW p, DocsLink(p, <<>>)
  PROVE  /\ p = <<>> => DocsKey(p) = <<>>
         /\ p # <<>> => DocsKey(p) \in RootForms
<1>1. p \in Seq(Segment)
  BY DEF DocsLink
<1>2. PICK l \in Locales : LowerCase(Cleaned(p)) = l \o (<<>> \o IndexOf(p))
  BY DEF DocsLink
<1>3. IndexOf(p) \in Indices /\ IndexOf(p) \in Seq(Segment)
  BY LocaleFacts DEF IndexOf, Indices
<1>4. <<>> \o IndexOf(p) = IndexOf(p)
  BY <1>3
<1> QED BY <1>1, <1>2, <1>3, <1>4, DocsKeyOfEmpty, DocsKeyOfRoot

LEMMA PagePathKeys ==
  ASSUME NEW x, PagePath(x), x[1].word \notin LocaleWords, NEW p, DocsLink(p, x)
  PROVE  /\ p # <<>>
         /\ DocsKey(p) = IF HasIndex(p) THEN Append(x, Nothing) ELSE SlashForm(x)
         /\ DocsKey(x) = SlashForm(x)
<1>1. p \in Seq(Segment) /\ x \in Seq(Segment) /\ x # <<>>
  BY DEF DocsLink, PagePath
<1>2. PICK l \in Locales : LowerCase(Cleaned(p)) = l \o (x \o IndexOf(p))
  BY DEF DocsLink
<1>3. IndexOf(p) \in Indices /\ IndexOf(p) \in Seq(Segment) /\ l \in Seq(Segment)
  BY LocaleFacts DEF IndexOf, Indices
<1>4. DocsKey(p) = IF IndexOf(p) = <<>> THEN SlashForm(x) ELSE Append(x, Nothing)
  BY <1>1, <1>2, <1>3, DocsKeyOfLink
<1>5. IndexOf(p) = <<>> <=> ~HasIndex(p)
  <2>1. <<IndexFile>> # <<>>
    BY SpecialSegments, ShortSeqs
  <2> QED BY <2>1 DEF IndexOf
<1>6. p # <<>>
  <2> SUFFICES ASSUME p = <<>> PROVE FALSE
    OBVIOUS
  <2>1. LowerCase(Cleaned(p)) = <<>>
    <3>1. Cleaned(p) = <<>> /\ <<>> \in Seq(Segment)
      BY CleanedEmpty
    <3> QED BY <3>1, LowerEmpty
  <2> DEFINE r == x \o IndexOf(p)
  <2>2. r \in Seq(Segment) /\ r # <<>>
    BY <1>1, <1>3
  <2> HIDE DEF r
  <2>3. l \o r # <<>>
    BY <1>3, <2>2
  <2> QED BY <1>2, <2>1, <2>3 DEF r
<1>7. DocsKey(x) = SlashForm(x)
  <2>1. LowerCase(Cleaned(x)) = x
    BY PagePathIsPlain
  <2> QED BY <1>1, <2>1, DocsKeyOfPage
<1> QED BY <1>4, <1>5, <1>6, <1>7

(* Without an index file in its name, the key of a page is its path, with  *)
(* or without a "/".                                                       *)
LEMMA FormWithoutIndex ==
  ASSUME NEW x, PagePath(x), Last(x).tail # "index"
  PROVE  SlashForm(x) = IF Last(x).tail # "" \/ Last(x).word \in DottedWords
                        THEN x ELSE Append(x, Nothing)
<1>1. PICK f \in Seq(Segment), l \in Segment : x = Append(f, l) /\ l = Last(x)
  <2>1. x \in Seq(Segment) /\ x # <<>>
    BY DEF PagePath
  <2>2. Front(x) \in Seq(Segment) /\ Last(x) \in Segment /\ x = Append(Front(x), Last(x))
    BY <2>1, FrontAndLast
  <2> QED BY <2>2
<1>2. NoIndex(l) = l
  <2>1. /\ NoIndex(l) \in Segment /\ NoIndex(l).word = l.word /\ NoIndex(l).upper = l.upper
        /\ NoIndex(l).tail = l.tail
    BY <1>1, NoTailFacts
  <2> QED BY <2>1, SegmentEqual
<1>3. SlashForm(Append(f, l)) = IF l.tail # "" \/ l.word \in DottedWords
                                THEN Append(f, l) ELSE Append(Append(f, l), Nothing)
  <2>1. PagePath(Append(f, l)) /\ l = NoIndex(l)
    BY <1>1, <1>2
  <2> QED BY <2>1, FormOfPage
<1> QED BY <1>1, <1>3

LEMMA SlashIsMore ==
  ASSUME NEW x \in Seq(Segment)
  PROVE  Append(x, Nothing) # x
<1>1. Len(Append(x, Nothing)) = Len(x) + 1 /\ Len(x) \in Nat
  BY SpecialSegments, AppendParts
<1> QED BY <1>1

LEMMA DirectoryForms ==
  ASSUME NEW x, PagePath(x), Last(x).tail = ""
  PROVE  Append(x, Nothing) = SlashForm(x) <=> Last(x).word \notin DottedWords
<1>1. SlashForm(x) = IF Last(x).word \in DottedWords THEN x ELSE Append(x, Nothing)
  BY FormWithoutIndex
<1>2. Append(x, Nothing) # x
  <2>1. x \in Seq(Segment)
    BY DEF PagePath
  <2> QED BY <2>1, SlashIsMore
<1> QED BY <1>1, <1>2

(* The key of a page begins with the first word of its path.               *)
LEMMA FirstOfForm ==
  ASSUME NEW x, PagePath(x)
  PROVE  SlashForm(x) # <<>> /\ SlashForm(x)[1].word = x[1].word /\ x[1].word \in Words
<1>1. x \in Seq(Segment) /\ x # <<>> /\ OfWords(x)
  BY DEF PagePath
<1>2. PICK f \in Seq(Segment), l \in Segment : x = Append(f, l)
  BY <1>1, TakeLast
<1>3. PICK m \in Segment :
        /\ m.word = l.word
        /\ SlashForm(x) = IF m.tail # "" \/ m.word \in DottedWords
                          THEN Append(f, m) ELSE Append(Append(f, m), Nothing)
  <2>1. /\ NoIndex(l) \in Segment /\ NoIndex(l).word = l.word
        /\ SlashForm(Append(f, l)) = IF NoIndex(l).tail # "" \/ NoIndex(l).word \in DottedWords
                          THEN Append(f, NoIndex(l)) ELSE Append(Append(f, NoIndex(l)), Nothing)
    BY <1>2, FormOfPage
  <2> QED BY <1>2, <2>1
<1>4. PICK r \in Seq(Segment) : r = Append(f, m) /\ r # <<>> /\ r[1].word = x[1].word
  <2>1. /\ Append(f, m) \in Seq(Segment) /\ Append(f, m) # <<>>
        /\ Append(f, m)[Len(f) + 1] = m
        /\ \A i \in 1..Len(f) : Append(f, m)[i] = f[i]
    BY AppendParts
  <2>2. x[Len(f) + 1] = l /\ \A i \in 1..Len(f) : x[i] = f[i]
    BY <1>2, AppendParts
  <2>3. Len(f) + 1 = 1 \/ 1 \in 1..Len(f)
    OBVIOUS
  <2>4. Append(f, m)[1].word = x[1].word
    BY <1>3, <2>1, <2>2, <2>3
  <2> QED BY <2>1, <2>4
<1>5. Append(r, Nothing) # <<>> /\ Append(r, Nothing)[1].word = x[1].word
  <2>1. /\ Append(r, Nothing) # <<>> /\ \A i \in 1..Len(r) : Append(r, Nothing)[i] = r[i]
    BY SpecialSegments, AppendParts
  <2>2. 1 \in 1..Len(r)
    BY <1>4
  <2> QED BY <1>4, <2>1, <2>2
<1>6. SlashForm(x) \in {r, Append(r, Nothing)}
  BY <1>3, <1>4
<1>7. 1 \in 1..Len(x)
  BY <1>1
<1> QED BY <1>1, <1>4, <1>5, <1>6, <1>7 DEF OfWords

(* Two pages whose names end in no index file have different keys.         *)
LEMMA FormsApart ==
  ASSUME NEW x, PagePath(x), Last(x).tail # "index",
         NEW y, PagePath(y), Last(y).tail # "index",
         SlashForm(y) \in {SlashForm(x), Append(x, Nothing)}
  PROVE  x = y
<1>1. /\ x \in Seq(Segment) /\ x # <<>> /\ Last(x) # Nothing
      /\ y \in Seq(Segment) /\ y # <<>> /\ Last(y) # Nothing
  <2>1. ASSUME NEW z, PagePath(z) PROVE z \in Seq(Segment) /\ z # <<>> /\ Last(z) # Nothing
    <3>1. z \in Seq(Segment) /\ z # <<>> /\ OfWords(z)
      BY <2>1 DEF PagePath
    <3>2. Last(z) = z[Len(z)]
      BY <3>1, FrontAndLast
    <3>3. Last(z).word \in Words
      <4>1. Len(z) \in 1..Len(z)
        BY <3>1
      <4> QED BY <3>1, <3>2, <4>1 DEF OfWords
    <3>4. Nothing.word \notin Words
      BY SegmentFacts, WordAssumption
    <3> QED BY <3>1, <3>3, <3>4
  <2> QED BY <2>1
<1>2. SlashForm(x) \in {x, Append(x, Nothing)} /\ SlashForm(y) \in {y, Append(y, Nothing)}
  BY FormWithoutIndex
<1>3. /\ Front(Append(x, Nothing)) = x /\ Last(Append(x, Nothing)) = Nothing
      /\ Front(Append(y, Nothing)) = y /\ Last(Append(y, Nothing)) = Nothing
  BY <1>1, SpecialSegments, AppendParts
<1> QED BY <1>1, <1>2, <1>3

(* Two passes settle the key of a page, one does but for a directory with a*)
(* dot in its name.                                                        *)
LEMMA PathSettles ==
  ASSUME NEW x, DocsPage(x), NEW p, DocsLink(p, x), NEW k, k = DocsKey(p)
  PROVE  /\ DocsKey(DocsKey(k)) = DocsKey(k)
         /\ \/ DocsKey(k) = k
            \/ x # <<>> /\ Last(x).word \in DottedWords /\ HasIndex(p)
<1>1. CASE x = <<>>
  <2>1. k = <<>> \/ k \in RootForms
    BY <1>1, RootPathKeys
  <2> QED BY <2>1, DocsKeyOfEmpty, RootFormsAreStable
<1>2. CASE PagePath(x) /\ x[1].word \notin LocaleWords
  <2>1. k = IF HasIndex(p) THEN Append(x, Nothing) ELSE SlashForm(x)
    BY <1>2, PagePathKeys
  <2>2. DocsKey(SlashForm(x)) = SlashForm(x)
    BY <1>2, FormIsStable
  <2>3. DocsKey(Append(x, Nothing)) = SlashForm(x)
    <3>1. x \in Seq(Segment) /\ Cleaned(x) = x /\ LowerCase(x) = x
      BY <1>2, PagePathIsPlain DEF PagePath
    <3>2. Append(x, Nothing) \in Seq(Segment) /\ Append(x, Nothing) # <<>>
      BY <3>1, SpecialSegments, AppendParts
    <3>3. LowerCase(Cleaned(Append(x, Nothing))) = x
      BY <3>1, SlashVanishes
    <3> QED BY <1>2, <3>2, <3>3, DocsKeyOfPage
  <2>4. HasIndex(p) => Last(x).tail = ""
    BY <1>2 DEF DocsLink, MayHaveIndex, PagePath
  <2>5. HasIndex(p) /\ Last(x).word \notin DottedWords => Append(x, Nothing) = SlashForm(x)
    BY <1>2, <2>4, DirectoryForms
  <2>6. x # <<>>
    BY <1>2 DEF PagePath
  <2> QED BY <2>1, <2>2, <2>3, <2>5, <2>6
<1> QED BY <1>1, <1>2 DEF DocsPage
-----------------------------------------------------------------------------
(* The keys of a link and of its page.                                     *)
LEMMA HostOfLink ==
  ASSUME IInv
  PROVE  /\ isGitHost(page) <=> OnGit
         /\ isGitHost(link) => OnGit
         /\ OtherRules <=> OnGit /\ ~isGitHost(link)
         /\ NoWww(link.sub) = page.sub /\ NoPort(link) = page.port
         /\ OnGit => page.port = ""
         /\ HasFields(link) /\ HasFields(page)
<1>1. page \in Pages /\ link \in Url /\ link.host = page.host
  BY DEF IInv, LinkType, SameSite
<1>2. isGitHost(page) <=> OnGit
  BY <1>1, PageFacts DEF OnGit
<1>3. isGitHost(link) => OnGit
  BY <1>1 DEF isGitHost, OnGit, GitHosts
<1>4. NoWww(link.sub) = page.sub
  <2>1. SameSub(link.sub, page.sub) /\ page.sub # "www."
    BY <1>1, PageFacts DEF IInv, SameSite
  <2> QED BY <2>1 DEF SameSub, NoWww
<1>5. OnGit => page.port = ""
  BY <1>2 DEF isGitHost
<1>6. NoPort(link) = page.port
  <2>1. SamePort(link.port, link.scheme, page.port)
    BY DEF IInv, SameSite
  <2>2. CASE link.port = page.port /\ page.port = ""
    BY <2>2 DEF NoPort
  <2>3. CASE link.port = page.port /\ page.port # ""
    <3>1. link.scheme = page.scheme
      BY <1>5, <2>3 DEF IInv, SameSite
    <3>2. DefaultPort(link) <=> DefaultPort(page)
      BY <2>3, <3>1 DEF DefaultPort
    <3>3. ~DefaultPort(page)
      BY <1>1, PageAssumption DEF Shortest
    <3> QED BY <2>3, <3>2, <3>3 DEF NoPort
  <2>4. CASE page.port = "" /\ <<link.scheme, link.port>> \in {<<"http", "80">>, <<"https", "443">>}
    <3>1. DefaultPort(link)
      BY <2>4 DEF DefaultPort
    <3> QED BY <2>4, <3>1 DEF NoPort
  <2> QED BY <2>1, <2>2, <2>3, <2>4 DEF SamePort
<1>7. HasFields(link) /\ HasFields(page)
  BY <1>1, PageFacts, TypeOfUrl
<1>8. OtherRules <=> OnGit /\ ~isGitHost(link)
  <2>1. isGitHost(link) \in BOOLEAN /\ isGitHost(page) \in BOOLEAN
    BY DEF isGitHost
  <2>2. isGitHost(link) = isGitHost(page) <=> (isGitHost(link) <=> isGitHost(page))
    BY <2>1
  <2> QED BY <1>2, <1>3, <2>2 DEF OtherRules
<1> QED BY <1>2, <1>3, <1>4, <1>5, <1>6, <1>7, <1>8

(* The key of a page is the page, but for its path.                        *)
LEMMA KeyOfPage ==
  ASSUME NEW q \in Pages, NEW k, k = Key(q)
  PROVE  /\ HasFields(k)
         /\ k.scheme = q.scheme /\ k.user = q.user /\ k.sub = q.sub /\ k.host = q.host
         /\ k.upper = q.upper /\ k.zeros = q.zeros /\ k.port = q.port
         /\ k.query = q.query /\ k.fragment = q.fragment
         /\ k.path = IF q.host \in GitHosts THEN GitKey(q.path) ELSE DocsKey(q.path)
<1>1. /\ HasFields(q) /\ q.upper = FALSE /\ q.zeros = FALSE
      /\ NoWww(q.sub) = q.sub /\ NoPort(q) = q.port /\ q.query = CleanQuery(q.query)
  BY PageFacts
<1>2. CASE q.host \in GitHosts
  <2>1. /\ isGitHost(q) /\ q.scheme = "https" /\ q.user = FALSE
        /\ OnlyLines(q.fragment) = q.fragment
    BY <1>2, PageFacts
  <2> QED BY <1>1, <1>2, <2>1, KeyOnGit
<1>3. CASE q.host \notin GitHosts
  <2>1. ~isGitHost(q) /\ q.query = <<>>
    BY <1>3, PageFacts
  <2> QED BY <1>1, <1>3, <2>1, KeyElsewhere
<1> QED BY <1>2, <1>3

(* On a host of repositories that is seen as one.                          *)
LEMMA GitKeysMeet ==
  ASSUME IInv, isGitHost(link)
  PROVE  Key(link) = Key(page)
<1>1. /\ OnGit /\ NoWww(link.sub) = page.sub /\ NoPort(link) = page.port
      /\ HasFields(link) /\ page \in Pages /\ link.host = page.host
  BY HostOfLink DEF IInv, LinkType, SameSite
<1>2. page.host \in GitHosts
  BY <1>1 DEF OnGit
<1> DEFINE k == Key(link)
           g == Key(page)
<1>3. /\ HasFields(k)
      /\ k.scheme = "https" /\ k.user = FALSE /\ k.sub = page.sub /\ k.host = page.host
      /\ k.upper = FALSE /\ k.zeros = FALSE /\ k.port = page.port
      /\ k.path = GitKey(link.path) /\ k.query = CleanQuery(link.query)
      /\ k.fragment = OnlyLines(link.fragment)
  BY <1>1, KeyOnGit
<1>4. /\ HasFields(g)
      /\ g.scheme = page.scheme /\ g.user = page.user /\ g.sub = page.sub /\ g.host = page.host
      /\ g.upper = page.upper /\ g.zeros = page.zeros /\ g.port = page.port
      /\ g.query = page.query /\ g.fragment = page.fragment /\ g.path = GitKey(page.path)
  BY <1>1, <1>2, KeyOfPage
<1>5. /\ page.scheme = "https" /\ page.user = FALSE /\ page.upper = FALSE /\ page.zeros = FALSE
      /\ page.query = CleanQuery(page.query) /\ OnlyLines(page.fragment) = page.fragment
      /\ RepoPage(page.path)
  BY <1>1, <1>2, PageFacts
<1>6. CleanQuery(link.query) = CleanQuery(page.query)
  BY <1>1, CleanQueryFacts DEF IInv, SameSite
<1>7. OnlyLines(link.fragment) = OnlyLines(page.fragment)
  BY DEF IInv, SameSite, SameFragment, OnlyLines
<1>8. GitKey(link.path) = GitKey(page.path)
  <2>1. link.path \in Seq(Segment) /\ RepoOrClone(Cleaned(link.path), page.path)
    BY <1>1 DEF IInv, SamePath, GitLink
  <2>2. CASE page.path = <<>>
    BY <2>1, <2>2, FrontPageOfHost
  <2>3. CASE RepoPath(page.path)
    BY <2>1, <2>3, GitKeyOfLink
  <2> QED BY <1>5, <2>2, <2>3 DEF RepoPage
<1> HIDE DEF k, g
<1>9. k = g
  BY <1>3, <1>4, <1>5, <1>6, <1>7, <1>8, UrlEqual
<1> QED BY <1>9 DEF k, g

(* The key of a link by the rules of other hosts.                          *)
LEMMA KeyByOtherRules ==
  ASSUME IInv, ~isGitHost(link), NEW k, k = Key(link)
  PROVE  /\ HasFields(k)
         /\ k.scheme = link.scheme /\ k.user = link.user /\ k.sub = page.sub /\ k.host = page.host
         /\ k.upper = FALSE /\ k.zeros = FALSE /\ k.port = page.port
         /\ k.path = DocsKey(link.path) /\ k.query = <<>> /\ k.fragment = link.fragment
<1>1. /\ NoWww(link.sub) = page.sub /\ NoPort(link) = page.port
      /\ HasFields(link) /\ link.host = page.host
  BY HostOfLink DEF IInv, SameSite
<1> QED BY <1>1, KeyElsewhere

(* A page on a host of repositories that the rules of other hosts see has  *)
(* the key of such a page only if its path is empty or ends in a name with *)
(* a dot in it.                                                            *)
LEMMA OtherRulesApart ==
  ASSUME IInv, OtherRules, NEW q \in Pages, Key(link) = Key(q)
  PROVE  NoSlashByOtherRules
<1>1. OnGit /\ ~isGitHost(link) /\ page \in Pages
  BY HostOfLink DEF IInv, LinkType
<1> DEFINE k == Key(link)
<1>2. k.path = DocsKey(link.path) /\ k.host = page.host
  BY <1>1, KeyByOtherRules
<1>3. /\ k.host = q.host
      /\ k.path = IF q.host \in GitHosts THEN GitKey(q.path) ELSE DocsKey(q.path)
  BY KeyOfPage
<1>4. q.host \in GitHosts /\ page.host \in GitHosts
  BY <1>1, <1>2, <1>3 DEF OnGit
<1>5. RepoPage(q.path) /\ RepoPage(page.path) /\ q.path \in Seq(Segment)
  BY <1>1, <1>4, PageFacts
<1>6. link.path \in Seq(Segment) /\ RepoOrClone(Cleaned(link.path), page.path)
  BY <1>1 DEF IInv, SamePath, GitLink
<1>7. DocsKey(link.path) = GitKey(q.path)
  BY <1>2, <1>3, <1>4
<1>8. ASSUME page.path # <<>> PROVE Last(page.path).word \in DottedWords
  <2>1. RepoPath(page.path)
    BY <1>5, <1>8 DEF RepoPage
  <2>2. RepoPath(q.path)
    <3>1. q.path # <<>>
      BY <1>6, <1>7, <2>1, OtherRulesSettle, GitKeyOfEmpty
    <3> QED BY <1>5, <3>1 DEF RepoPage
  <2>3. GitKey(q.path) = GitPath(q.path)
    <3>1. q.path # <<>> /\ Cleaned(q.path) = q.path
      BY <2>2, WordsAreClean DEF RepoPath
    <3> QED BY <1>5, <3>1, GitKeyInSteps
  <2> QED BY <1>6, <1>7, <2>1, <2>2, <2>3, OtherRulesMeet
<1> QED BY <1>8 DEF NoSlashByOtherRules

(* A link to a page of documentation has the key of the page but for its   *)
(* fragment, the "/" of a bare host, and that of a directory with a dot.   *)
LEMMA DocsKeysMeet ==
  ASSUME IInv, ~OnGit
  PROVE  Key(link) = Key(page) <=> ~(FragmentStays \/ RootHasTwoForms \/ DotHidesDirectory)
<1>1. ~isGitHost(link) /\ page \in Pages /\ page.host \notin GitHosts
  BY HostOfLink DEF IInv, LinkType, OnGit
<1>2. /\ page.fragment = "" /\ page.query = <<>> /\ page.upper = FALSE /\ page.zeros = FALSE
      /\ DocsPage(page.path) /\ page.path \in Seq(Segment)
  BY <1>1, PageFacts
<1>3. DocsLink(link.path, page.path) /\ link.scheme = page.scheme /\ link.user = page.user
  BY DEF IInv, SamePath, SameSite
<1> DEFINE k == Key(link)
           g == Key(page)
           x == page.path
           p == link.path
<1>4. /\ HasFields(k)
      /\ k.scheme = link.scheme /\ k.user = link.user /\ k.sub = page.sub /\ k.host = page.host
      /\ k.upper = FALSE /\ k.zeros = FALSE /\ k.port = page.port
      /\ k.path = DocsKey(p) /\ k.query = <<>> /\ k.fragment = link.fragment
  BY <1>1, KeyByOtherRules
<1>5. /\ HasFields(g)
      /\ g.scheme = page.scheme /\ g.user = page.user /\ g.sub = page.sub /\ g.host = page.host
      /\ g.upper = page.upper /\ g.zeros = page.zeros /\ g.port = page.port
      /\ g.query = page.query /\ g.fragment = page.fragment /\ g.path = DocsKey(x)
  BY <1>1, KeyOfPage
<1>6. k = g <=> link.fragment = page.fragment /\ DocsKey(p) = DocsKey(x)
  <2>1. /\ page.query = <<>> /\ page.upper = FALSE /\ page.zeros = FALSE
    BY <1>2
  <2> HIDE DEF k, g, x, p
  <2>2. k = g => k.fragment = g.fragment /\ k.path = g.path
    OBVIOUS
  <2> QED BY <1>3, <1>4, <1>5, <2>1, <2>2, UrlEqual
<1>7. DocsKey(p) = DocsKey(x) <=> ~(RootHasTwoForms \/ DotHidesDirectory)
  <2>1. CASE x = <<>>
    <3>1. /\ p = <<>> => DocsKey(p) = <<>>
          /\ p # <<>> => DocsKey(p) \in RootForms
      BY <1>3, <2>1, RootPathKeys
    <3>2. p # <<>> => DocsKey(p) # <<>>
      BY <3>1, RootFormsAreStable
    <3>3. DocsKey(p) = DocsKey(x) <=> p = <<>>
      BY <2>1, <3>1, <3>2, DocsKeyOfEmpty
    <3>4. ~(RootHasTwoForms \/ DotHidesDirectory) <=> p = <<>>
      BY <1>1, <2>1 DEF RootHasTwoForms, DotHidesDirectory
    <3> QED BY <3>3, <3>4
  <2>2. CASE PagePath(x) /\ x[1].word \notin LocaleWords
    <3>1. /\ DocsKey(p) = IF HasIndex(p) THEN Append(x, Nothing) ELSE SlashForm(x)
          /\ DocsKey(x) = SlashForm(x)
      BY <1>3, <2>2, PagePathKeys
    <3>2. x # <<>>
      BY <2>2 DEF PagePath
    <3>3. HasIndex(p) => Last(x).tail = ""
      BY <1>3, <3>2 DEF DocsLink, MayHaveIndex
    <3>4. HasIndex(p) => (Append(x, Nothing) = SlashForm(x) <=> Last(x).word \notin DottedWords)
      BY <2>2, <3>3, DirectoryForms
    <3>5. RootHasTwoForms \/ DotHidesDirectory <=> HasIndex(p) /\ Last(x).word \in DottedWords
      BY <3>2 DEF RootHasTwoForms, DotHidesDirectory, HasIndex
    <3> QED BY <3>1, <3>4, <3>5
  <2> QED BY <1>2, <2>1, <2>2 DEF DocsPage
<1>8. FragmentStays <=> link.fragment # page.fragment
  BY <1>1 DEF FragmentStays
<1> QED BY <1>6, <1>7, <1>8

LEMMA SpellingsMeetNow == IInv => SpellingsMeet
<1> SUFFICES ASSUME IInv PROVE SpellingsMeet
  OBVIOUS
<1>1. CASE isGitHost(link)
  <2>1. OnGit /\ ~OtherRules
    BY <1>1, HostOfLink
  <2>2. ~FragmentStays /\ ~RootHasTwoForms
    BY <1>1 DEF FragmentStays, RootHasTwoForms
  <2>3. ~DotHidesDirectory
    BY <2>1 DEF IInv, SamePath, GitLink, HasIndex, DotHidesDirectory
  <2>4. Key(link) = Key(page)
    BY <1>1, GitKeysMeet
  <2> QED BY <2>1, <2>2, <2>3, <2>4 DEF SpellingsMeet, Escapes
<1>2. CASE OtherRules
  <2>1. page \in Pages
    BY DEF IInv, LinkType
  <2>2. Key(link) = Key(page) => NoSlashByOtherRules
    BY <1>2, <2>1, OtherRulesApart
  <2> QED BY <1>2, <2>2 DEF SpellingsMeet, Escapes
<1>3. CASE ~OnGit
  <2>1. ~OtherRules
    BY <1>3, HostOfLink
  <2>2. Key(link) = Key(page) <=> ~(FragmentStays \/ RootHasTwoForms \/ DotHidesDirectory)
    BY <1>3, DocsKeysMeet
  <2> QED BY <2>1, <2>2 DEF SpellingsMeet, Escapes
<1> QED BY <1>1, <1>2, <1>3, HostOfLink

(* However a link to a page is spelled, RunNormalizationPipeline gives it  *)
(* the key of the page, or it is one of the spellings that the rules do not*)
(* undo, and then it gives a second key - for all words, hosts, pages and  *)
(* any number of respellings.                                              *)
THEOREM SpellingsMeetHolds == Spec => []SpellingsMeet
BY LinkLeadsToPage, SpellingsMeetNow, PTL
-----------------------------------------------------------------------------
(* Two pages have two keys.                                                *)
LEMMA GitKeysApart ==
  ASSUME IInv, isGitHost(link), NEW q \in Pages, Key(link) = Key(q)
  PROVE  q = page \/ Blurred(q) \/ Blurred(page)
<1>1. OnGit /\ page \in Pages /\ Key(page) = Key(q)
  BY HostOfLink, GitKeysMeet DEF IInv, LinkType
<1> DEFINE k == Key(q)
<1>2. /\ k.scheme = q.scheme /\ k.user = q.user /\ k.sub = q.sub /\ k.host = q.host
      /\ k.upper = q.upper /\ k.zeros = q.zeros /\ k.port = q.port
      /\ k.query = q.query /\ k.fragment = q.fragment
      /\ k.path = IF q.host \in GitHosts THEN GitKey(q.path) ELSE DocsKey(q.path)
  BY KeyOfPage
<1>3. /\ k.scheme = page.scheme /\ k.user = page.user /\ k.sub = page.sub /\ k.host = page.host
      /\ k.upper = page.upper /\ k.zeros = page.zeros /\ k.port = page.port
      /\ k.query = page.query /\ k.fragment = page.fragment
      /\ k.path = IF page.host \in GitHosts THEN GitKey(page.path) ELSE DocsKey(page.path)
  BY <1>1, KeyOfPage
<1>4. HasFields(q) /\ HasFields(page) /\ q.host \in GitHosts /\ page.host \in GitHosts
  BY <1>1, <1>2, <1>3, PageFacts DEF OnGit
<1>5. ASSUME NEW p \in Pages, p.host \in GitHosts
      PROVE  isGitHost(p) /\ GitKey(p.path) = IF IsBanned(p.path) THEN <<>> ELSE p.path
  <2>1. isGitHost(p) /\ RepoPage(p.path) /\ p.path \in Seq(Segment)
    BY <1>5, PageFacts
  <2>2. CASE p.path = <<>>
    BY <2>1, <2>2, GitKeyOfEmpty
  <2>3. CASE RepoPath(p.path)
    <3>1. RepoOrClone(Cleaned(p.path), p.path)
      BY <2>1, <2>3, WordsAreClean DEF RepoPath, RepoOrClone
    <3> QED BY <2>1, <2>3, <3>1, GitKeyOfLink
  <2> QED BY <2>1, <2>2, <2>3 DEF RepoPage
<1>6. CASE IsBanned(q.path) \/ IsBanned(page.path)
  BY <1>1, <1>4, <1>5, <1>6 DEF Blurred
<1>7. CASE ~IsBanned(q.path) /\ ~IsBanned(page.path)
  <2>1. q.path = page.path
    BY <1>1, <1>2, <1>3, <1>4, <1>5, <1>7
  <2> HIDE DEF k
  <2> QED BY <1>2, <1>3, <1>4, <2>1, UrlEqual
<1> QED BY <1>6, <1>7

LEMMA NotBlurred ==
  ASSUME NEW q, PagePath(q.path), ~Blurred(q)
  PROVE  Last(q.path).tail # "index"
<1> DEFINE x == q.path
<1>1. x \in Seq(Segment) /\ x # <<>> /\ OfWords(x)
  BY DEF PagePath
<1>2. Last(x) = x[Len(x)]
  BY <1>1, FrontAndLast
<1>3. Last(x).word \in Words
  <2>1. Len(x) \in 1..Len(x)
    BY <1>1
  <2> QED BY <1>1, <1>2, <2>1 DEF OfWords
<1>4. Last(x).word # ""
  BY <1>3, WordAssumption
<1> QED BY <1>1, <1>4 DEF Blurred

LEMMA DocsKeysApart ==
  ASSUME IInv, ~OnGit, NEW q \in Pages, Key(link) = Key(q)
  PROVE  q = page \/ Blurred(q) \/ Blurred(page)
<1> SUFFICES ASSUME ~Blurred(q), ~Blurred(page) PROVE q = page
  OBVIOUS
<1>1. ~isGitHost(link) /\ page \in Pages /\ page.host \notin GitHosts
  BY HostOfLink DEF IInv, LinkType, OnGit
<1> DEFINE k == Key(link)
           x == page.path
           y == q.path
           p == link.path
<1>2. /\ k.scheme = link.scheme /\ k.user = link.user /\ k.sub = page.sub /\ k.host = page.host
      /\ k.port = page.port /\ k.path = DocsKey(p) /\ k.fragment = link.fragment
  BY <1>1, KeyByOtherRules
<1>3. /\ k.scheme = q.scheme /\ k.user = q.user /\ k.sub = q.sub /\ k.host = q.host
      /\ k.port = q.port
      /\ k.path = IF q.host \in GitHosts THEN GitKey(y) ELSE DocsKey(y)
  BY KeyOfPage
<1>4. q.host \notin GitHosts
  BY <1>1, <1>2, <1>3
<1>5. /\ HasFields(page) /\ page.upper = FALSE /\ page.zeros = FALSE
      /\ page.query = <<>> /\ page.fragment = "" /\ DocsPage(x)
  BY <1>1, PageFacts
<1>6. /\ HasFields(q) /\ q.upper = FALSE /\ q.zeros = FALSE
      /\ q.query = <<>> /\ q.fragment = "" /\ DocsPage(y)
  BY <1>4, PageFacts
<1>7. DocsLink(p, x) /\ link.scheme = page.scheme /\ link.user = page.user
  BY <1>1 DEF IInv, SamePath, SameSite
<1>8. DocsKey(p) = DocsKey(y)
  BY <1>2, <1>3, <1>4
<1>9. x = y
  <2>1. CASE x = <<>> /\ y = <<>>
    BY <2>1
  <2>2. CASE x = <<>> /\ y # <<>>
    <3>1. PagePath(y) /\ y[1].word \notin LocaleWords
      BY <1>6, <2>2 DEF DocsPage
    <3>2. DocsKey(y) = SlashForm(y)
      <4>1. y \in Seq(Segment) /\ y # <<>> /\ LowerCase(Cleaned(y)) = y
        BY <3>1, PagePathIsPlain DEF PagePath
      <4> QED BY <3>1, <4>1, DocsKeyOfPage
    <3>3. DocsKey(p) = <<>> \/ DocsKey(p) \in RootForms
      BY <1>7, <2>2, RootPathKeys
    <3>4. /\ SlashForm(y) # <<>> /\ SlashForm(y)[1].word = y[1].word
          /\ y[1].word \in Words
      BY <3>1, FirstOfForm
    <3>5. SlashForm(y)[1].word \in LocaleWords \union {""}
      BY <1>8, <3>2, <3>3, <3>4, RootFormsAreStable
    <3> QED BY <3>1, <3>4, <3>5, WordAssumption
  <2>3. CASE x # <<>>
    <3>1. PagePath(x) /\ x[1].word \notin LocaleWords
      BY <1>5, <2>3 DEF DocsPage
    <3>2. DocsKey(p) \in {SlashForm(x), Append(x, Nothing)}
      BY <1>7, <3>1, PagePathKeys
    <3>3. y # <<>>
      <4>1. SlashForm(x) # <<>>
        BY <3>1, FirstOfForm
      <4>2. Append(x, Nothing) # <<>>
        BY <3>1, SpecialSegments, AppendParts DEF PagePath
      <4>3. DocsKey(p) # <<>>
        BY <3>2, <4>1, <4>2
      <4> QED BY <1>8, <4>3, DocsKeyOfEmpty
    <3>4. PagePath(y)
      BY <1>6, <3>3 DEF DocsPage
    <3>5. DocsKey(y) = SlashForm(y)
      <4>1. y \in Seq(Segment) /\ y # <<>> /\ LowerCase(Cleaned(y)) = y
        BY <3>4, PagePathIsPlain DEF PagePath
      <4> QED BY <3>4, <4>1, DocsKeyOfPage
    <3>6. Last(x).tail # "index" /\ Last(y).tail # "index"
      BY <3>1, <3>4, NotBlurred
    <3>7. SlashForm(y) \in {SlashForm(x), Append(x, Nothing)}
      BY <1>8, <3>2, <3>5
    <3> HIDE DEF x, y, p
    <3> QED BY <3>1, <3>4, <3>6, <3>7, FormsApart
  <2> QED BY <2>1, <2>2, <2>3
<1> HIDE DEF k
<1> QED BY <1>2, <1>3, <1>5, <1>6, <1>7, <1>9, UrlEqual

LEMMA PagesApartNow == IInv => PagesApart
<1> SUFFICES ASSUME IInv, NEW q \in Pages, Key(link) = Key(q)
             PROVE  q = page \/ Blurred(q) \/ Blurred(page) \/ NoSlashByOtherRules
  BY DEF PagesApart
<1>1. CASE isGitHost(link)
  BY <1>1, GitKeysApart
<1>2. CASE OtherRules
  BY <1>2, OtherRulesApart
<1>3. CASE ~OnGit
  BY <1>3, DocsKeysApart
<1> QED BY <1>1, <1>2, <1>3, HostOfLink

(* No link has the key of another page, so no page is taken for one that   *)
(* was crawled, but for the pages that the rules blur: those with a banned *)
(* word, files whose names end in "index.html", and, when another rule than*)
(* GitNormalizer sees them, front pages and repositories with a dot in     *)
(* their names.                                                            *)
THEOREM PagesApartHolds == Spec => []PagesApart
BY LinkLeadsToPage, PagesApartNow, PTL

-----------------------------------------------------------------------------
(* The second pass, and the third.                                         *)
LEMMA KeyAgainOnGit ==
  ASSUME NEW k, HasFields(k), isGitHost(k), k.scheme = "https", k.user = FALSE,
         k.upper = FALSE, k.zeros = FALSE, NoWww(k.sub) = k.sub, NoPort(k) = k.port,
         CleanQuery(k.query) = k.query, OnlyLines(k.fragment) = k.fragment,
         GitKey(k.path) = k.path
  PROVE  Key(k) = k
<1> DEFINE g == Key(k)
<1>1. /\ HasFields(g)
      /\ g.scheme = "https" /\ g.user = FALSE /\ g.sub = NoWww(k.sub) /\ g.host = k.host
      /\ g.upper = FALSE /\ g.zeros = FALSE /\ g.port = NoPort(k)
      /\ g.path = GitKey(k.path) /\ g.query = CleanQuery(k.query)
      /\ g.fragment = OnlyLines(k.fragment)
  BY KeyOnGit
<1> HIDE DEF g
<1>2. g = k
  BY <1>1, UrlEqual
<1> QED BY <1>2 DEF g

LEMMA KeyAgainElsewhere ==
  ASSUME NEW k, HasFields(k), ~isGitHost(k),
         k.upper = FALSE, k.zeros = FALSE, NoWww(k.sub) = k.sub, NoPort(k) = k.port,
         k.query = <<>>, DocsKey(k.path) = k.path
  PROVE  Key(k) = k
<1> DEFINE g == Key(k)
<1>1. /\ HasFields(g)
      /\ g.scheme = k.scheme /\ g.user = k.user /\ g.sub = NoWww(k.sub) /\ g.host = k.host
      /\ g.upper = FALSE /\ g.zeros = FALSE /\ g.port = NoPort(k)
      /\ g.path = DocsKey(k.path) /\ g.query = <<>> /\ g.fragment = k.fragment
  BY KeyElsewhere
<1> HIDE DEF g
<1>2. g = k
  BY <1>1, UrlEqual
<1> QED BY <1>2 DEF g

LEMMA KeyStableOnGit ==
  ASSUME IInv, isGitHost(link)
  PROVE  Key(Key(link)) = Key(link)
<1>1. OnGit /\ page \in Pages /\ page.host \in GitHosts /\ Key(link) = Key(page) /\ page.port = ""
  BY HostOfLink, GitKeysMeet DEF IInv, LinkType, OnGit
<1> DEFINE k == Key(page)
<1>2. /\ HasFields(k)
      /\ k.scheme = page.scheme /\ k.user = page.user /\ k.sub = page.sub /\ k.host = page.host
      /\ k.upper = page.upper /\ k.zeros = page.zeros /\ k.port = page.port
      /\ k.query = page.query /\ k.fragment = page.fragment /\ k.path = GitKey(page.path)
  BY <1>1, KeyOfPage
<1>3. /\ page.upper = FALSE /\ page.zeros = FALSE /\ NoWww(page.sub) = page.sub
      /\ page.query = CleanQuery(page.query)
      /\ isGitHost(page) /\ page.scheme = "https" /\ page.user = FALSE
      /\ RepoPage(page.path) /\ OnlyLines(page.fragment) = page.fragment
  BY <1>1, PageFacts
<1>4. GitKey(k.path) = k.path
  <2>1. CASE page.path = <<>>
    BY <1>2, <2>1, GitKeyOfEmpty
  <2>2. CASE RepoPath(page.path)
    <3>1. /\ page.path \in Seq(Segment) /\ page.path # <<>> /\ OfWords(page.path)
          /\ Cleaned(page.path) = page.path
      BY <2>2, WordsAreClean DEF RepoPath
    <3> QED BY <1>2, <3>1, GitKeyInSteps, GitKeyIsStable
  <2> QED BY <1>3, <2>1, <2>2 DEF RepoPage
<1> HIDE DEF k
<1>5. isGitHost(k)
  BY <1>2, <1>3 DEF isGitHost
<1>6. NoPort(k) = k.port
  BY <1>1, <1>2 DEF NoPort
<1>7. Key(k) = k
  BY <1>2, <1>3, <1>4, <1>5, <1>6, KeyAgainOnGit
<1> QED BY <1>1, <1>7 DEF k

(* A repository that other rules see has a key without what hid it.        *)
LEMMA KeySettlesByOtherRules ==
  ASSUME IInv, OtherRules
  PROVE  Key(Key(Key(link))) = Key(Key(link))
<1>1. /\ OnGit /\ ~isGitHost(link) /\ page \in Pages /\ page.host \in GitHosts
      /\ page.port = "" /\ isGitHost(page)
  BY HostOfLink DEF IInv, LinkType, OnGit
<1> DEFINE k == Key(link)
           g == Key(k)
<1>2. /\ HasFields(k) /\ k.sub = page.sub /\ k.host = page.host /\ k.port = page.port
      /\ k.path = DocsKey(link.path) /\ k.query = <<>>
  BY <1>1, KeyByOtherRules
<1>3. NoWww(page.sub) = page.sub /\ RepoPage(page.path)
  BY <1>1, PageFacts
<1>4. link.path \in Seq(Segment) /\ RepoOrClone(Cleaned(link.path), page.path)
  BY <1>1 DEF IInv, SamePath, GitLink
<1>5. GitKey(GitKey(k.path)) = GitKey(k.path)
  <2>1. CASE page.path = <<>>
    BY <1>2, <1>4, <2>1, FrontPageOfHost
  <2>2. CASE RepoPath(page.path)
    BY <1>2, <1>4, <2>2, OtherRulesSettle
  <2> QED BY <1>3, <2>1, <2>2 DEF RepoPage
<1> HIDE DEF k
<1>6. isGitHost(k) /\ NoPort(k) = k.port
  BY <1>1, <1>2 DEF isGitHost, NoPort
<1>7. /\ HasFields(g)
      /\ g.scheme = "https" /\ g.user = FALSE /\ g.sub = NoWww(k.sub) /\ g.host = k.host
      /\ g.upper = FALSE /\ g.zeros = FALSE /\ g.port = NoPort(k)
      /\ g.path = GitKey(k.path) /\ g.query = CleanQuery(k.query)
      /\ g.fragment = OnlyLines(k.fragment)
  BY <1>2, <1>6, KeyOnGit
<1> HIDE DEF g
<1>8. g.sub = k.sub /\ g.port = k.port /\ g.query = <<>> /\ NoWww(g.sub) = g.sub
  BY <1>2, <1>3, <1>6, <1>7, CleanQueryFacts
<1>9. isGitHost(g) /\ NoPort(g) = g.port
  BY <1>1, <1>2, <1>6, <1>7, <1>8 DEF isGitHost, NoPort
<1>10. OnlyLines(g.fragment) = g.fragment
  BY <1>7 DEF OnlyLines
<1>11. CleanQuery(g.query) = g.query /\ GitKey(g.path) = g.path
  BY <1>5, <1>7, <1>8, CleanQueryFacts
<1>12. Key(g) = g
  BY <1>7, <1>8, <1>9, <1>10, <1>11, KeyAgainOnGit
<1> QED BY <1>12 DEF g, k

LEMMA KeySettlesElsewhere ==
  ASSUME IInv, ~OnGit
  PROVE  /\ Key(Key(link)) = Key(link) \/ DotHidesDirectory
         /\ Key(Key(Key(link))) = Key(Key(link))
<1>1. ~isGitHost(link) /\ page \in Pages /\ page.host \notin GitHosts
  BY HostOfLink DEF IInv, LinkType, OnGit
<1> DEFINE k == Key(link)
           g == Key(k)
<1>2. /\ HasFields(k)
      /\ k.scheme = link.scheme /\ k.sub = page.sub /\ k.host = page.host
      /\ k.upper = FALSE /\ k.zeros = FALSE /\ k.port = page.port
      /\ k.path = DocsKey(link.path) /\ k.query = <<>>
  BY <1>1, KeyByOtherRules
<1>3. DocsPage(page.path) /\ NoWww(page.sub) = page.sub /\ NoPort(page) = page.port
  BY <1>1, PageFacts
<1>4. DocsLink(link.path, page.path) /\ link.scheme = page.scheme
  BY <1>1 DEF IInv, SamePath, SameSite
<1>5. /\ DocsKey(DocsKey(k.path)) = DocsKey(k.path)
      /\ DocsKey(k.path) = k.path \/ DotHidesDirectory
  BY <1>2, <1>3, <1>4, PathSettles DEF DotHidesDirectory, HasIndex
<1> HIDE DEF k
<1>6. ASSUME NEW u, u.host = page.host PROVE ~isGitHost(u)
  BY <1>1, <1>6 DEF isGitHost, GitHosts
<1>7. ASSUME NEW u, u.scheme = page.scheme, u.port = page.port PROVE NoPort(u) = u.port
  BY <1>3, <1>7 DEF NoPort, DefaultPort
<1>8. ~isGitHost(k) /\ NoPort(k) = k.port
  BY <1>2, <1>4, <1>6, <1>7
<1>9. /\ HasFields(g)
      /\ g.scheme = k.scheme /\ g.sub = NoWww(k.sub) /\ g.host = k.host
      /\ g.upper = FALSE /\ g.zeros = FALSE /\ g.port = NoPort(k)
      /\ g.path = DocsKey(k.path) /\ g.query = <<>>
  BY <1>2, <1>8, KeyElsewhere
<1> HIDE DEF g
<1>10. /\ ~isGitHost(g) /\ NoPort(g) = g.port /\ NoWww(g.sub) = g.sub
  BY <1>2, <1>3, <1>4, <1>6, <1>7, <1>8, <1>9
<1>11. Key(g) = g
  BY <1>5, <1>9, <1>10, KeyAgainElsewhere
<1>12. Key(k) = k \/ DotHidesDirectory
  BY <1>2, <1>3, <1>5, <1>8, KeyAgainElsewhere
<1> QED BY <1>11, <1>12 DEF g, k

LEMMA KeyIsStableNow == IInv => KeyIsStable
<1> SUFFICES ASSUME IInv PROVE KeyIsStable
  OBVIOUS
<1>1. CASE isGitHost(link)
  BY <1>1, KeyStableOnGit DEF KeyIsStable
<1>2. CASE OtherRules
  BY <1>2, KeySettlesByOtherRules DEF KeyIsStable
<1>3. CASE ~OnGit
  BY <1>3, KeySettlesElsewhere DEF KeyIsStable
<1> QED BY <1>1, <1>2, <1>3, HostOfLink

(* The key is a URL that RunNormalizationPipeline leaves as it is, so a    *)
(* page that links to itself by its key is seen as itself - but where the  *)
(* rules of the second pass are others, or the "/" that the first leaves   *)
(* is in the way; and after the second pass nothing ever changes.          *)
THEOREM KeyIsStableHolds == Spec => []KeyIsStable
BY LinkLeadsToPage, KeyIsStableNow, PTL
=============================================================================
