-------------------------- MODULE VectorIndexProofs --------------------------
(***************************************************************************)
(* Proofs about module VectorIndex, for any regulation, any number of runs *)
(* of the pipeline, any sizes of batches and any limits of the search.     *)
(*                                                                         *)
(* IndexInv says how far a run has come from what it has in memory and     *)
(* what is stored: the vectors it holds are those of the first chunks, in  *)
(* order, as many as it is through with, and while it stores them the      *)
(* chunks it is through with are in the collection.  It is what makes zip  *)
(* pair a chunk with its own vector and "Done" mean that nothing is        *)
(* missing.  The search needs, besides, that a nonempty set of scores has  *)
(* a greatest one.                                                         *)
(***************************************************************************)
EXTENDS VectorIndex, FiniteSetTheorems, SequenceTheorems, WellFoundedInduction, TLAPS

\* The number of chunks.
N == Len(KeyOf)

\* The values step may have.
Limit == Max({Len(KeyOf), Len(PayloadIndex)})

Stored(r, c) == \E p \in points : p.run = r /\ p.chunk = c

VectorsInPlace(r) == \A i \in 1..Len(vectors[r]) : vectors[r][i] = i

Progress(r) ==
  /\ pc[r] \in {"idle", "ensure", "create", "index"} => vectors[r] = <<>>
  /\ pc[r] \in {"idle", "ensure", "create"} => step[r] = 0
  /\ pc[r] = "index" =>
       /\ collection
       /\ step[r] < Len(PayloadIndex)
       /\ \A i \in 1..step[r] : PayloadIndex[i] \in indexed
  /\ pc[r] = "embed" => step[r] = Len(vectors[r])
  /\ pc[r] = "upsert" =>
       /\ Len(vectors[r]) = Len(KeyOf)
       /\ step[r] <= Len(KeyOf)
       /\ \A c \in 1..step[r] : Stored(r, c)
  /\ pc[r] = "done" => \A c \in Chunk : Stored(r, c)

IndexInv ==
  /\ TypeOK
  /\ IsFiniteSet(points)
  /\ VectorsMatchTexts
  /\ IndexesAccountedFor
  /\ \A r \in Run : VectorsInPlace(r) /\ Progress(r)

-----------------------------------------------------------------------------
(* Lemmas about numbers *)

LEMMA MinOfTwo == \A a, b \in Nat : Min({a, b}) = IF a <= b THEN a ELSE b
  BY DEF Min

LEMMA MaxOfTwo == \A a, b \in Nat : Max({a, b}) = IF a >= b THEN a ELSE b
  BY DEF Max

\* A set of numbers that is not empty has a least one.
LEMMA LeastOf ==
  ASSUME NEW S \in SUBSET Nat, S # {}
  PROVE  \E m \in S : \A n \in S : m <= n
<1> DEFINE Less == {p \in Nat \X Nat : p[1] < p[2]}
<1>1. IsWellFoundedOn(Less, Nat)
  BY NatLessThanWellFounded, Zenon DEF OpToRel
<1>2. \A n, m \in Nat : n < m => <<n, m>> \in Less
  OBVIOUS
<1> HIDE DEF Less
<1>3. PICK m \in S : \A n \in S : <<n, m>> \notin Less
  BY <1>1, WFMin
<1>4. ASSUME NEW n \in S PROVE m <= n
  <2>1. ~ n < m
    BY <1>2, <1>3
  <2> QED
    BY <2>1
<1> QED
  BY <1>4

\* Among things with a score there is one with the best.
LEMMA GreatestOf ==
  ASSUME NEW S, NEW f \in [S -> 0..MaxScore], S # {}
  PROVE  \E p \in S : \A q \in S : f[p] >= f[q]
<1> DEFINE Below == {MaxScore - f[p] : p \in S}
<1>0. MaxScore \in Nat
  BY IndexAssumption
<1>1. Below \in SUBSET Nat /\ Below # {}
  BY <1>0
<1>2. PICK m \in Below : \A n \in Below : m <= n
  <2> HIDE DEF Below
  <2> QED BY <1>1, LeastOf
<1>3. PICK p \in S : m = MaxScore - f[p]
  OBVIOUS
<1>4. ASSUME NEW q \in S PROVE f[p] >= f[q]
  <2>1. MaxScore - f[p] <= MaxScore - f[q]
    BY <1>2, <1>3
  <2>2. f[p] \in 0..MaxScore /\ f[q] \in 0..MaxScore
    OBVIOUS
  <2> QED
    BY <2>1, <2>2, <1>0
<1> QED
  BY <1>4

-----------------------------------------------------------------------------
(* Lemmas about the constants and the batches *)

LEMMA Chunks == N \in Nat /\ Chunk = 1..N /\ \A c \in Chunk : KeyOf[c] \in Key
  BY IndexAssumption DEF N, Chunk, Key, Range

\* A batch is of the chunks that follow the first n, and full unless it is the last.
LEMMA BatchIs ==
  ASSUME NEW n \in 0..N, NEW size \in Nat \ {0}
  PROVE  LET batch == Batch(n, size)
         IN  /\ batch \in Seq(Chunk)
             /\ Len(batch) \in Nat
             /\ n + Len(batch) \in 0..N
             /\ n + Len(batch) = N \/ Len(batch) = size
             /\ \A i \in 1..Len(batch) : batch[i] = n + i
             /\ Range(batch) = (n + 1)..(n + Len(batch))
<1> DEFINE m == IF n + size <= N THEN n + size ELSE N
           batch == Batch(n, size)
           all == [c \in Chunk |-> c]
<1>1. N \in Nat /\ Chunk = 1..N
  BY Chunks
<1>2. m \in Nat /\ n <= m /\ m <= N /\ Min({n + size, N}) = m
  BY <1>1, MinOfTwo
<1>3. batch = SubSeq(all, n + 1, m)
  BY <1>2 DEF Batch, N
<1>4. \A i \in (n + 1)..m : all[i] = i /\ i \in Chunk
  BY <1>1, <1>2
<1> HIDE DEF all, m, batch
<1>5. /\ batch \in Seq(Chunk)
      /\ Len(batch) = IF n + 1 <= m THEN m - (n + 1) + 1 ELSE 0
      /\ \A i \in 1..(m - (n + 1) + 1) : batch[i] = all[(n + 1) + i - 1]
  <2>1. n + 1 \in Int /\ m \in Int
    BY <1>2
  <2>2. \A i \in (n + 1)..m : all[i] \in Chunk
    BY <1>4
  <2> QED
    BY <1>3, <2>1, <2>2, SubSeqProperties
<1>6. Len(batch) = m - n
  BY <1>5, <1>2
<1>7. ASSUME NEW i \in 1..Len(batch) PROVE batch[i] = n + i
  <2>1. i \in 1..(m - (n + 1) + 1) /\ (n + 1) + i - 1 = n + i /\ n + i \in (n + 1)..m
    BY <1>6, <1>2
  <2> QED
    BY <2>1, <1>4, <1>5
<1>8. Range(batch) = (n + 1)..m
  <2>1. DOMAIN batch = 1..(m - n)
    BY <1>5, <1>6
  <2>2. ASSUME NEW c \in (n + 1)..m PROVE c \in Range(batch)
    <3>1. c - n \in 1..(m - n) /\ n + (c - n) = c
      BY <1>2
    <3>2. batch[c - n] = c
      BY <3>1, <1>6, <1>7
    <3> QED
      BY <3>1, <3>2, <2>1 DEF Range
  <2>3. ASSUME NEW c \in Range(batch) PROVE c \in (n + 1)..m
    <3>1. PICK i \in 1..(m - n) : c = batch[i]
      BY <2>1 DEF Range
    <3>2. c = n + i
      BY <3>1, <1>6, <1>7
    <3> QED
      BY <3>2, <1>2
  <2> QED
    BY <2>2, <2>3
<1>9. /\ Len(batch) \in Nat /\ n + Len(batch) = m
      /\ m \in 0..N /\ (m = N \/ Len(batch) = size)
  BY <1>1, <1>2, <1>6 DEF m
<1> QED
  BY <1>5, <1>7, <1>8, <1>9 DEF batch

LEMMA PayloadIndexes ==
  /\ Len(PayloadIndex) = 5
  /\ DOMAIN PayloadIndex = 1..5
  BY DEF PayloadIndex

LEMMA LimitIs == Limit \in Nat /\ N <= Limit /\ 5 <= Limit
<1>1. Limit = IF N >= 5 THEN N ELSE 5
  BY MaxOfTwo, PayloadIndexes, Chunks DEF Limit, N
<1> QED
  BY <1>1, Chunks

LEMMA NoVectors == <<>> \in Seq(Chunk) /\ Len(<<>>) = 0
  OBVIOUS

-----------------------------------------------------------------------------
(* The first state, and what a step leaves alone *)

LEMMA InitEstablishesInv == Init => IndexInv
<1> SUFFICES ASSUME Init PROVE IndexInv
  OBVIOUS
<1>1. TypeOK
  <2>1. Limit \in Nat /\ N \in Nat /\ Attempts - 1 \in Nat
    BY LimitIs, Chunks, IndexAssumption
  <2>2. step \in [Run -> 0..Limit] /\ attempt \in [Run -> 0..(Attempts - 1)]
    BY <2>1 DEF Init
  <2>3. vectors \in [Run -> Seq(Chunk)] /\ \A r \in Run : Len(vectors[r]) <= N
    BY <2>1, NoVectors DEF Init
  <2> QED
    BY <2>2, <2>3 DEF Init, TypeOK, Limit, N
<1>2. IsFiniteSet(points)
  BY FS_EmptySet DEF Init
<1>3. VectorsMatchTexts /\ IndexesAccountedFor
  BY DEF Init, VectorsMatchTexts, IndexesAccountedFor
<1>4. ASSUME NEW r \in Run PROVE VectorsInPlace(r) /\ Progress(r)
  <2>1. pc[r] = "idle" /\ step[r] = 0 /\ vectors[r] = <<>>
    BY DEF Init
  <2> QED
    BY <2>1, NoVectors DEF VectorsInPlace, Progress
<1> QED
  BY <1>1, <1>2, <1>3, <1>4 DEF IndexInv

\* A run is not disturbed by what others add to the collection.
LEMMA Undisturbed ==
  ASSUME NEW r \in Run, VectorsInPlace(r), Progress(r),
         collection => collection', indexed \subseteq indexed', points \subseteq points',
         pc'[r] = pc[r], step'[r] = step[r], vectors'[r] = vectors[r]
  PROVE  VectorsInPlace(r)' /\ Progress(r)'
<1>1. VectorsInPlace(r)'
  BY DEF VectorsInPlace
<1>2. \A c : Stored(r, c) => Stored(r, c)'
  BY DEF Stored
<1>3. Progress(r)'
  BY <1>2 DEF Progress
<1> QED
  BY <1>1, <1>3

\* A run that is gone has nothing left in memory.
LEMMA GoneForGood ==
  ASSUME TypeOK, NEW r \in Run, Gone(r)
  PROVE  /\ pc' = [pc EXCEPT ![r] = "dead"]
         /\ pc' \in [Run -> {"idle", "ensure", "create", "index", "embed", "hung", "upsert", "done", "dead"}]
         /\ step' \in [Run -> 0..Limit]
         /\ attempt' \in [Run -> 0..(Attempts - 1)]
         /\ vectors' \in [Run -> Seq(Chunk)]
         /\ \A q \in Run : Len(vectors'[q]) <= N
         /\ VectorsInPlace(r)' /\ Progress(r)'
         /\ \A q \in Run \ {r} : pc'[q] = pc[q] /\ step'[q] = step[q] /\ vectors'[q] = vectors[q]
<1>1. 0 \in 0..Limit /\ 0 \in 0..(Attempts - 1) /\ N \in Nat
  BY LimitIs, Chunks, IndexAssumption
<1>2. pc'[r] = "dead" /\ vectors'[r] = <<>>
  BY DEF Gone, Goto, TypeOK
<1>3. VectorsInPlace(r)' /\ Progress(r)'
  BY <1>2, NoVectors DEF VectorsInPlace, Progress
<1>4. vectors' \in [Run -> Seq(Chunk)] /\ \A q \in Run : Len(vectors'[q]) <= N
  BY <1>1, NoVectors DEF Gone, TypeOK, N
<1> QED
  BY <1>1, <1>3, <1>4 DEF Gone, Goto, Through, TypeOK, Limit

-----------------------------------------------------------------------------

(* ensure_collection *)

LEMMA CollectionStepsKeepInv ==
  ASSUME IndexInv, NEW r \in Run,
         StartPipeline(r) \/ EnsureCollection(r) \/ CreateCollection(r) \/ CreatePayloadIndex(r)
  PROVE  IndexInv'
<1> USE DEF IndexInv
<1>0. 0 \in 0..Limit /\ N \in Nat
  BY LimitIs, Chunks
<1>1. CASE StartPipeline(r)
  <2>1. UNCHANGED <<collection, indexed, points, step, attempt, vectors, search, maimed>>
    BY <1>1 DEF StartPipeline, index
  <2>2. pc' = [pc EXCEPT ![r] = "ensure"] /\ pc[r] = "idle"
    BY <1>1 DEF StartPipeline, Goto
  <2>3. TypeOK'
    BY <2>1, <2>2 DEF TypeOK, search, Doc, Point
  <2>4. IndexesAccountedFor'
    BY <2>1, <2>2 DEF IndexesAccountedFor, TypeOK
  <2>5. ASSUME NEW q \in Run PROVE VectorsInPlace(q)' /\ Progress(q)'
    <3>1. CASE q = r
      <4>1. pc'[r] = "ensure" /\ step'[r] = 0 /\ vectors'[r] = <<>>
        BY <2>1, <2>2 DEF TypeOK, Progress
      <4> QED
        BY <4>1, <3>1, NoVectors DEF VectorsInPlace, Progress
    <3>2. CASE q # r
      BY <3>2, <2>1, <2>2, Undisturbed DEF TypeOK
    <3> QED
      BY <3>1, <3>2
  <2> QED
    BY <2>1, <2>3, <2>4, <2>5 DEF VectorsMatchTexts
<1>2. CASE EnsureCollection(r)
  <2>1. UNCHANGED <<collection, indexed, points, step, attempt, vectors, search, maimed>>
    BY <1>2 DEF EnsureCollection, index
  <2>2. /\ pc' = [pc EXCEPT ![r] = IF collection THEN "embed" ELSE "create"]
        /\ pc[r] = "ensure"
    BY <1>2 DEF EnsureCollection, Goto
  <2>3. TypeOK'
    BY <2>1, <2>2 DEF TypeOK, search, Doc, Point
  <2>4. IndexesAccountedFor'
    BY <2>1, <2>2 DEF IndexesAccountedFor, TypeOK
  <2>5. ASSUME NEW q \in Run PROVE VectorsInPlace(q)' /\ Progress(q)'
    <3>1. CASE q = r
      <4>1. pc'[r] \in {"embed", "create"} /\ step'[r] = 0 /\ vectors'[r] = <<>>
        BY <2>1, <2>2 DEF TypeOK, Progress
      <4> QED
        BY <4>1, <3>1, NoVectors DEF VectorsInPlace, Progress
    <3>2. CASE q # r
      BY <3>2, <2>1, <2>2, Undisturbed DEF TypeOK
    <3> QED
      BY <3>1, <3>2
  <2> QED
    BY <2>1, <2>3, <2>4, <2>5 DEF VectorsMatchTexts
<1>3. CASE CreateCollection(r)
  <2>1. /\ pc[r] = "create" /\ collection' = TRUE
        /\ UNCHANGED <<indexed, points, search, maimed>>
    BY <1>3 DEF CreateCollection
  <2>2. CASE ~ collection /\ Goto(r, "index") /\ UNCHANGED <<step, attempt, vectors>>
    <3>1. TypeOK'
      BY <2>1, <2>2 DEF TypeOK, search, Doc, Point, Goto
    <3>2. pc'[r] = "index" /\ \A q \in Run \ {r} : pc'[q] = pc[q]
      BY <2>2 DEF Goto, TypeOK
    <3>3. IndexesAccountedFor'
      BY <3>2 DEF IndexesAccountedFor
    <3>4. ASSUME NEW q \in Run PROVE VectorsInPlace(q)' /\ Progress(q)'
      <4>1. CASE q = r
        <5>1. step'[r] = 0 /\ vectors'[r] = <<>>
          BY <2>1, <2>2 DEF Progress
        <5> QED
          BY <5>1, <4>1, <3>2, <2>1, NoVectors, PayloadIndexes DEF VectorsInPlace, Progress
      <4>2. CASE q # r
        BY <4>2, <2>1, <2>2, <3>2, Undisturbed
      <4> QED
        BY <4>1, <4>2
    <3> QED
      BY <2>1, <3>1, <3>3, <3>4 DEF VectorsMatchTexts
  <2>3. CASE collection /\ Gone(r)
    <3>1. TypeOK'
      BY <2>1, <2>3, GoneForGood DEF TypeOK, search, Doc, Point, Limit, N
    <3>2. IndexesAccountedFor'
      <4>1. \A q \in Run : pc[q] = "index" => pc'[q] = "index"
        BY <2>1, <2>3, GoneForGood
      <4> QED
        BY <4>1, <2>1, <2>3 DEF IndexesAccountedFor
    <3>3. ASSUME NEW q \in Run PROVE VectorsInPlace(q)' /\ Progress(q)'
      <4>1. CASE q = r
        BY <4>1, <2>3, GoneForGood
      <4>2. CASE q # r
        BY <4>2, <2>1, <2>3, GoneForGood, Undisturbed
      <4> QED
        BY <4>1, <4>2
    <3> QED
      BY <2>1, <3>1, <3>2, <3>3 DEF VectorsMatchTexts
  <2> QED
    BY <1>3, <2>2, <2>3 DEF CreateCollection
<1>4. CASE CreatePayloadIndex(r)
  <2>1. /\ pc[r] = "index"
        /\ indexed' = indexed \cup {PayloadIndex[step[r] + 1]}
        /\ UNCHANGED <<collection, points, attempt, vectors, search, maimed>>
    BY <1>4 DEF CreatePayloadIndex
  <2>2. /\ collection /\ step[r] \in Nat /\ step[r] < 5 /\ vectors[r] = <<>>
        /\ \A i \in 1..step[r] : PayloadIndex[i] \in indexed
    BY <2>1, PayloadIndexes, LimitIs DEF Progress, TypeOK, Limit
  <2>3. PayloadIndex[step[r] + 1] \in Range(PayloadIndex)
    BY <2>2, PayloadIndexes DEF Range
  <2>4. CASE step[r] + 1 < 5
    <3>1. step' = [step EXCEPT ![r] = step[r] + 1] /\ pc' = pc
      BY <1>4, <2>4, PayloadIndexes DEF CreatePayloadIndex, Through
    <3>2. step[r] + 1 \in 0..Limit
      BY <2>2, <2>4, LimitIs
    <3>3. TypeOK'
      BY <2>1, <2>3, <3>1, <3>2 DEF TypeOK, search, Doc, Point, Limit
    <3>4. IndexesAccountedFor'
      BY <2>1, <3>1 DEF IndexesAccountedFor
    <3>5. ASSUME NEW q \in Run PROVE VectorsInPlace(q)' /\ Progress(q)'
      <4>1. CASE q = r
        <5>1. step'[r] = step[r] + 1 /\ vectors'[r] = <<>> /\ pc'[r] = "index"
          BY <2>1, <2>2, <3>1 DEF TypeOK
        <5>2. \A i \in 1..(step[r] + 1) : PayloadIndex[i] \in indexed'
          BY <2>1, <2>2
        <5> QED
          BY <5>1, <5>2, <4>1, <2>1, <2>2, <2>4, NoVectors, PayloadIndexes
             DEF VectorsInPlace, Progress
      <4>2. CASE q # r
        BY <4>2, <2>1, <3>1, Undisturbed DEF TypeOK
      <4> QED
        BY <4>1, <4>2
    <3> QED
      BY <2>1, <3>3, <3>4, <3>5 DEF VectorsMatchTexts
  <2>5. CASE ~ step[r] + 1 < 5
    <3>1. step' = [step EXCEPT ![r] = 0] /\ pc' = [pc EXCEPT ![r] = "embed"]
      BY <1>4, <2>5, PayloadIndexes DEF CreatePayloadIndex, Through, Goto
    <3>2. TypeOK'
      BY <2>1, <2>3, <3>1, <1>0 DEF TypeOK, search, Doc, Point, Limit
    <3>3. indexed' = Range(PayloadIndex)
      <4>1. step[r] + 1 = 5 /\ \A i \in 1..5 : i \in 1..step[r] \/ i = step[r] + 1
        BY <2>2, <2>5
      <4>2. \A i \in 1..5 : PayloadIndex[i] \in indexed'
        BY <4>1, <2>1, <2>2
      <4> QED
        BY <4>2, <2>1, <2>3, PayloadIndexes DEF Range, TypeOK
    <3>4. IndexesAccountedFor'
      BY <3>3 DEF IndexesAccountedFor
    <3>5. ASSUME NEW q \in Run PROVE VectorsInPlace(q)' /\ Progress(q)'
      <4>1. CASE q = r
        <5>1. step'[r] = 0 /\ vectors'[r] = <<>> /\ pc'[r] = "embed"
          BY <2>1, <2>2, <3>1 DEF TypeOK
        <5> QED
          BY <5>1, <4>1, NoVectors DEF VectorsInPlace, Progress
      <4>2. CASE q # r
        BY <4>2, <2>1, <3>1, Undisturbed DEF TypeOK
      <4> QED
        BY <4>1, <4>2
    <3> QED
      BY <2>1, <3>2, <3>4, <3>5 DEF VectorsMatchTexts
  <2> QED
    BY <2>4, <2>5
<1> QED
  BY <1>1, <1>2, <1>3, <1>4

-----------------------------------------------------------------------------

(* embed_all *)

LEMMA EmbedStepsKeepInv ==
  ASSUME IndexInv, NEW r \in Run, EmbedBatch(r) \/ EmbedRateLimited(r) \/ EmbedHangs(r)
  PROVE  IndexInv'
<1> USE DEF IndexInv
<1>0. 0 \in 0..Limit /\ N \in Nat /\ N <= Limit /\ Attempts \in Nat \ {0}
  BY LimitIs, Chunks, IndexAssumption
<1>1. CASE EmbedBatch(r)
  <2> DEFINE n == step[r]
             batch == Batch(n, EmbedSize)
             old == vectors[r]
             m == n + Len(batch)
  <2>1. /\ pc[r] = "embed"
        /\ vectors' = [vectors EXCEPT ![r] = old \o batch]
        /\ attempt' = [attempt EXCEPT ![r] = 0]
        /\ UNCHANGED <<collection, indexed, points, search, maimed>>
    BY <1>1 DEF EmbedBatch, index, TypeOK
  <2>2. /\ old \in Seq(Chunk) /\ Len(old) = n /\ n \in 0..N
        /\ \A i \in 1..n : old[i] = i
    BY <2>1, <1>0 DEF TypeOK, Progress, VectorsInPlace, N
  <2>3. /\ batch \in Seq(Chunk) /\ Len(batch) \in Nat
        /\ \A i \in 1..Len(batch) : batch[i] = n + i
        /\ m \in 0..N
    <3>1. EmbedSize \in Nat \ {0} /\ n \in 0..N
      BY <2>2, IndexAssumption
    <3> HIDE DEF n
    <3> QED
      BY <3>1, BatchIs
  <2>4. IF m < N THEN step' = [step EXCEPT ![r] = m] /\ pc' = pc
                 ELSE step' = [step EXCEPT ![r] = 0] /\ pc' = [pc EXCEPT ![r] = "upsert"]
    BY <1>1 DEF EmbedBatch, NextBatch, Through, Goto, N
  <2> HIDE DEF n, batch
  <2> PICK k : k = n
    OBVIOUS
  <2> PICK b : b = batch
    OBVIOUS
  <2> PICK o : o = old
    OBVIOUS
  <2>5. /\ o \o b \in Seq(Chunk) /\ Len(o \o b) = m /\ m = k + Len(b)
        /\ \A i \in 1..m : (o \o b)[i] = i
    <3>1. /\ o \o b \in Seq(Chunk)
          /\ Len(o \o b) = Len(o) + Len(b)
          /\ \A i \in 1..(Len(o) + Len(b)) :
               (o \o b)[i] = IF i <= Len(o) THEN o[i] ELSE b[i - Len(o)]
      <4>1. o \in Seq(Chunk) /\ b \in Seq(Chunk)
        BY <2>2, <2>3
      <4> HIDE DEF old
      <4> QED
        BY <4>1, ConcatProperties
    <3>2. k \in Nat /\ Len(b) \in Nat /\ Len(o) = k
      BY <2>2, <2>3, <1>0
    <3>3. ASSUME NEW i \in 1..(k + Len(b)) PROVE (o \o b)[i] = i
      <4>1. CASE i <= k
        BY <4>1, <3>1, <3>2, <2>2
      <4>2. CASE ~ i <= k
        <5>1. i - k \in 1..Len(b) /\ k + (i - k) = i
          BY <4>2, <3>2
        <5>2. (o \o b)[i] = b[i - k]
          BY <4>2, <3>1, <3>2
        <5>3. b[i - k] = k + (i - k)
          BY <5>1, <2>3
        <5> QED
          BY <5>1, <5>2, <5>3
      <4> QED
        BY <4>1, <4>2
    <3> QED
      BY <3>1, <3>2, <3>3
  <2>6. vectors' \in [Run -> Seq(Chunk)] /\ \A q \in Run : Len(vectors'[q]) <= N
    BY <2>1, <2>3, <2>5, <1>0 DEF TypeOK, N
  <2>7. step' \in [Run -> 0..Limit]
    <3>1. m \in 0..Limit
      BY <2>3, <1>0, LimitIs
    <3>2. step \in [Run -> 0..Limit]
      BY DEF TypeOK, Limit
    <3>3. PICK x \in 0..Limit : step' = [step EXCEPT ![r] = x]
      <4> HIDE DEF m
      <4> QED
        BY <3>1, <2>4, <1>0
    <3> QED
      BY <3>2, <3>3
  <2>8. /\ pc' \in [Run -> {"idle", "ensure", "create", "index", "embed", "hung", "upsert", "done", "dead"}]
        /\ attempt' \in [Run -> 0..(Attempts - 1)]
    <3>1. pc' \in {pc, [pc EXCEPT ![r] = "upsert"]}
      BY <2>4
    <3>2. 0 \in 0..(Attempts - 1)
      BY <1>0
    <3> QED
      BY <2>1, <3>1, <3>2 DEF TypeOK
  <2>9. TypeOK'
    BY <2>1, <2>6, <2>7, <2>8 DEF TypeOK, search, Doc, Point, Limit, N
  <2>10. IndexesAccountedFor'
    <3>1. \A q \in Run : pc[q] = "index" => pc'[q] = "index"
      BY <2>1, <2>4 DEF TypeOK
    <3> QED
      BY <3>1, <2>1 DEF IndexesAccountedFor
  <2>11. ASSUME NEW q \in Run PROVE VectorsInPlace(q)' /\ Progress(q)'
    <3>1. CASE q = r
      <4>1. vectors'[r] = o \o b
        BY <2>1 DEF TypeOK
      <4>2. VectorsInPlace(r)'
        BY <4>1, <2>5 DEF VectorsInPlace
      <4>3. CASE m < N
        <5>1. pc'[r] = "embed" /\ step'[r] = m
          BY <4>3, <2>1, <2>4 DEF TypeOK
        <5> QED
          BY <5>1, <4>1, <4>2, <3>1, <2>5 DEF Progress
      <4>4. CASE ~ m < N
        <5>1. pc'[r] = "upsert" /\ step'[r] = 0 /\ m = N
          BY <4>4, <2>3, <2>4, <1>0 DEF TypeOK
        <5>2. /\ Len(vectors'[r]) = Len(KeyOf) /\ step'[r] <= Len(KeyOf)
              /\ \A c \in 1..step'[r] : Stored(r, c)'
          BY <5>1, <4>1, <2>5, <1>0 DEF N
        <5> QED
          BY <5>1, <5>2, <4>2, <3>1 DEF Progress
      <4> QED
        BY <4>3, <4>4
    <3>2. CASE q # r
      BY <3>2, <2>1, <2>4, Undisturbed DEF TypeOK
    <3> QED
      BY <3>1, <3>2
  <2> QED
    BY <2>1, <2>9, <2>10, <2>11 DEF VectorsMatchTexts
<1>2. CASE EmbedRateLimited(r)
  <2>1. /\ attempt' = [attempt EXCEPT ![r] = @ + 1] /\ attempt[r] < Attempts - 1
        /\ UNCHANGED <<collection, indexed, points, pc, step, vectors, search, maimed>>
    BY <1>2 DEF EmbedRateLimited, index
  <2>2. attempt' \in [Run -> 0..(Attempts - 1)]
    <3>1. attempt[r] + 1 \in 0..(Attempts - 1)
      BY <2>1, <1>0 DEF TypeOK
    <3> QED
      BY <2>1, <3>1 DEF TypeOK
  <2>3. TypeOK'
    BY <2>1, <2>2 DEF TypeOK, search, Doc, Point
  <2>4. ASSUME NEW q \in Run PROVE VectorsInPlace(q)' /\ Progress(q)'
    BY <2>1, Undisturbed
  <2> QED
    BY <2>1, <2>3, <2>4 DEF VectorsMatchTexts, IndexesAccountedFor
<1>3. CASE EmbedHangs(r)
  <2>1. /\ pc[r] = "embed" /\ pc' = [pc EXCEPT ![r] = "hung"]
        /\ UNCHANGED <<collection, indexed, points, step, attempt, vectors, search, maimed>>
    BY <1>3 DEF EmbedHangs, Goto, index
  <2>2. pc'[r] = "hung" /\ \A q \in Run \ {r} : pc'[q] = pc[q]
    BY <2>1 DEF TypeOK
  <2>3. TypeOK'
    BY <2>1 DEF TypeOK, search, Doc, Point
  <2>4. IndexesAccountedFor'
    <3>1. \A q \in Run : pc[q] = "index" => pc'[q] = "index"
      BY <2>1, <2>2
    <3> QED
      BY <3>1, <2>1 DEF IndexesAccountedFor
  <2>5. ASSUME NEW q \in Run PROVE VectorsInPlace(q)' /\ Progress(q)'
    <3>1. CASE q = r
      BY <3>1, <2>1, <2>2 DEF VectorsInPlace, Progress
    <3>2. CASE q # r
      BY <3>2, <2>1, <2>2, Undisturbed
    <3> QED
      BY <3>1, <3>2
  <2> QED
    BY <2>1, <2>3, <2>4, <2>5 DEF VectorsMatchTexts
<1> QED
  BY <1>1, <1>2, <1>3

-----------------------------------------------------------------------------

(* _upsert_to_qdrant *)

\* zip gives the chunks of the batch, each with its own vector.
LEMMA PointsOfBatch ==
  ASSUME IndexInv, NEW r \in Run, pc[r] = "upsert"
  PROVE  LET batch == Batch(step[r], UpsertSize)
             new == PointsOf(r, batch)
         IN  /\ new \subseteq Point
             /\ IsFiniteSet(new)
             /\ \A p \in new : p.vector = p.chunk
             /\ step[r] + Len(batch) \in 0..N
             /\ \A c \in (step[r] + 1)..(step[r] + Len(batch)) :
                  \E p \in new : p.run = r /\ p.chunk = c
<1> DEFINE n == step[r]
           batch == Batch(n, UpsertSize)
           new == PointsOf(r, batch)
           some == Range(batch) \cap DOMAIN vectors[r]
<1> USE DEF IndexInv
<1>1. N \in Nat /\ Chunk = 1..N /\ UpsertSize \in Nat \ {0}
  BY Chunks, IndexAssumption
<1>2. /\ n \in 0..N /\ vectors[r] \in Seq(Chunk) /\ Len(vectors[r]) = N
      /\ \A i \in 1..N : vectors[r][i] = i
  BY <1>1 DEF TypeOK, Progress, VectorsInPlace, N
<1>3. /\ n + Len(batch) \in 0..N
      /\ Range(batch) = (n + 1)..(n + Len(batch))
  <2> HIDE DEF n
  <2> QED
    BY <1>1, <1>2, BatchIs
<1> HIDE DEF n, batch
<1>4. some = (n + 1)..(n + Len(batch)) /\ some \subseteq Chunk
  <2>1. DOMAIN vectors[r] = 1..N
    BY <1>2
  <2> QED
    BY <2>1, <1>1, <1>2, <1>3
<1>5. new = {[run |-> r, chunk |-> c, vector |-> vectors[r][c]] : c \in some}
  BY DEF PointsOf
<1>6. \A c \in some : vectors[r][c] = c /\ c \in Chunk
  BY <1>1, <1>2, <1>4
<1>7. new \subseteq Point /\ \A p \in new : p.vector = p.chunk
  BY <1>5, <1>6 DEF Point
<1>8. ASSUME NEW c \in some PROVE \E p \in new : p.run = r /\ p.chunk = c
  <2>1. [run |-> r, chunk |-> c, vector |-> vectors[r][c]] \in new
    BY <1>5
  <2> HIDE DEF new
  <2> QED
    BY <2>1
<1>9. IsFiniteSet(new)
  <2> DEFINE f == [c \in some |-> [run |-> r, chunk |-> c, vector |-> vectors[r][c]]]
  <2>1. IsFiniteSet(some)
    <3>1. n + 1 \in Int /\ n + Len(batch) \in Int
      BY <1>2, <1>3, <1>1
    <3> QED
      BY <3>1, <1>4, FS_Interval
  <2>2. f \in Surjection(some, new)
    BY <1>5 DEF Surjection
  <2> HIDE DEF f, some, new
  <2> QED
    BY <2>1, <2>2, FS_Surjection
<1> QED
  BY <1>3, <1>4, <1>7, <1>8, <1>9 DEF n, batch

LEMMA UpsertStepsKeepInv ==
  ASSUME IndexInv, NEW r \in Run, UpsertBatch(r) \/ UpsertTimesOut(r)
  PROVE  IndexInv'
<1> USE DEF IndexInv
<1> DEFINE batch == Batch(step[r], UpsertSize)
           new == PointsOf(r, batch)
           m == step[r] + Len(batch)
<1>0. 0 \in 0..Limit /\ N \in Nat /\ N <= Limit
  BY LimitIs, Chunks
<1>1. /\ pc[r] = "upsert" /\ points' = points \cup new
      /\ UNCHANGED <<collection, indexed, search, maimed>>
  BY DEF UpsertBatch, UpsertTimesOut
<1>2. /\ new \subseteq Point /\ IsFiniteSet(new)
      /\ \A p \in new : p.vector = p.chunk
      /\ m \in 0..N
      /\ \A c \in (step[r] + 1)..m : \E p \in new : p.run = r /\ p.chunk = c
  BY <1>1, PointsOfBatch
<1> HIDE DEF new
<1>3. points' \subseteq Point /\ IsFiniteSet(points') /\ VectorsMatchTexts'
  BY <1>1, <1>2, FS_Union DEF TypeOK, VectorsMatchTexts
<1>4. /\ step[r] \in 0..N /\ Len(vectors[r]) = N
      /\ \A c \in 1..step[r] : Stored(r, c)
  BY <1>0, <1>1 DEF Progress, TypeOK, N
<1>5. \A c \in 1..m : Stored(r, c)'
  <2>1. TAKE c \in 1..m
  <2>2. CASE c <= step[r]
    BY <2>2, <1>1, <1>4 DEF Stored
  <2>3. CASE ~ c <= step[r]
    <3>1. c \in (step[r] + 1)..m
      BY <2>3, <1>2, <1>4
    <3> QED
      BY <3>1, <1>1, <1>2 DEF Stored
  <2> QED
    BY <2>2, <2>3
<1>6. CASE UpsertBatch(r) /\ m < N
  <2>1. step' = [step EXCEPT ![r] = m] /\ UNCHANGED <<pc, attempt, vectors>>
    <3>1. m < Len(KeyOf)
      BY <1>6 DEF N
    <3>2. m < Len(KeyOf) => Through(r, m) /\ UNCHANGED <<pc, attempt, vectors>>
      BY <1>6, Zenon DEF UpsertBatch
    <3> QED
      BY <3>1, <3>2 DEF Through
  <2>2. m \in 0..Limit
    BY <1>0, <1>2, LimitIs
  <2>3. TypeOK'
    BY <1>1, <1>3, <2>1, <2>2 DEF TypeOK, search, Doc, Point, Limit
  <2>4. IndexesAccountedFor'
    BY <1>1, <2>1 DEF IndexesAccountedFor
  <2>5. ASSUME NEW q \in Run PROVE VectorsInPlace(q)' /\ Progress(q)'
    <3>1. CASE q = r
      <4>1. pc'[r] = "upsert" /\ step'[r] = m /\ vectors'[r] = vectors[r]
        BY <1>1, <2>1 DEF TypeOK
      <4>2. m <= Len(KeyOf) /\ Len(vectors'[r]) = Len(KeyOf)
        BY <4>1, <1>0, <1>2, <1>4 DEF N
      <4>3. VectorsInPlace(r)'
        BY <4>1 DEF VectorsInPlace
      <4> HIDE DEF m
      <4> QED
        BY <4>1, <4>2, <4>3, <3>1, <1>5 DEF Progress
    <3>2. CASE q # r
      BY <3>2, <1>1, <2>1, Undisturbed DEF TypeOK
    <3> QED
      BY <3>1, <3>2
  <2> QED
    BY <1>3, <2>3, <2>4, <2>5
<1>7. CASE UpsertBatch(r) /\ ~ m < N
  <2>1. /\ pc' = [pc EXCEPT ![r] = "done"] /\ step' = [step EXCEPT ![r] = 0]
        /\ vectors' = [vectors EXCEPT ![r] = <<>>] /\ UNCHANGED attempt
    BY <1>7 DEF UpsertBatch, Through, Goto, N
  <2>2. vectors' \in [Run -> Seq(Chunk)] /\ \A q \in Run : Len(vectors'[q]) <= N
    BY <2>1, <1>0, NoVectors DEF TypeOK, N
  <2>3. TypeOK'
    BY <1>0, <1>1, <1>3, <2>1, <2>2 DEF TypeOK, search, Doc, Point, Limit, N
  <2>4. IndexesAccountedFor'
    <3>1. \A q \in Run : pc[q] = "index" => pc'[q] = "index"
      BY <1>1, <2>1 DEF TypeOK
    <3> QED
      BY <1>1, <3>1 DEF IndexesAccountedFor
  <2>5. ASSUME NEW q \in Run PROVE VectorsInPlace(q)' /\ Progress(q)'
    <3>1. CASE q = r
      <4>1. pc'[r] = "done" /\ vectors'[r] = <<>>
        BY <2>1 DEF TypeOK
      <4>2. m = N /\ Chunk = 1..N
        BY <1>0, <1>2, <1>7, Chunks
      <4>3. \A c \in Chunk : Stored(r, c)'
        BY <4>2, <1>5
      <4> QED
        BY <4>1, <4>3, <3>1, NoVectors DEF VectorsInPlace, Progress
    <3>2. CASE q # r
      BY <3>2, <1>1, <2>1, Undisturbed DEF TypeOK
    <3> QED
      BY <3>1, <3>2
  <2> QED
    BY <1>3, <2>3, <2>4, <2>5
<1>8. CASE UpsertTimesOut(r)
  <2>1. Gone(r)
    BY <1>8 DEF UpsertTimesOut
  <2>2. TypeOK'
    BY <1>1, <1>3, <2>1, GoneForGood DEF TypeOK, search, Doc, Point, Limit, N
  <2>3. IndexesAccountedFor'
    <3>1. \A q \in Run : pc[q] = "index" => pc'[q] = "index"
      BY <1>1, <2>1, GoneForGood
    <3> QED
      BY <1>1, <3>1 DEF IndexesAccountedFor
  <2>4. ASSUME NEW q \in Run PROVE VectorsInPlace(q)' /\ Progress(q)'
    <3>1. CASE q = r
      BY <3>1, <2>1, GoneForGood
    <3>2. CASE q # r
      BY <3>2, <1>1, <2>1, GoneForGood, Undisturbed
    <3> QED
      BY <3>1, <3>2
  <2> QED
    BY <1>3, <2>2, <2>3, <2>4
<1> QED
  BY <1>6, <1>7, <1>8

LEMMA DieKeepsInv ==
  ASSUME IndexInv, NEW r \in Run, Die(r)
  PROVE  IndexInv'
<1> USE DEF IndexInv
<1>1. /\ Gone(r) /\ UNCHANGED <<collection, indexed, points, search>>
      /\ maimed' = IF pc[r] = "index" THEN maimed \cup {r} ELSE maimed
  BY DEF Die, index
<1>2. TypeOK'
  BY <1>1, GoneForGood DEF TypeOK, search, Doc, Point, Limit, N
<1>3. IndexesAccountedFor'
  <2>1. CASE pc[r] = "index"
    BY <2>1, <1>1 DEF IndexesAccountedFor
  <2>2. CASE pc[r] # "index"
    <3>1. \A q \in Run : pc[q] = "index" => pc'[q] = "index"
      BY <1>1, <2>2, GoneForGood
    <3> QED
      BY <1>1, <2>2, <3>1 DEF IndexesAccountedFor
  <2> QED
    BY <2>1, <2>2
<1>4. ASSUME NEW q \in Run PROVE VectorsInPlace(q)' /\ Progress(q)'
  <2>1. CASE q = r
    BY <2>1, <1>1, GoneForGood
  <2>2. CASE q # r
    BY <2>2, <1>1, GoneForGood, Undisturbed
  <2> QED
    BY <2>1, <2>2
<1> QED
  BY <1>1, <1>2, <1>3, <1>4 DEF VectorsMatchTexts

-----------------------------------------------------------------------------
(* The search *)

\* The best hit of an article is a hit of it, and there is one.
LEMMA BestHit ==
  ASSUME TypeOK, NEW hits, hits \subseteq points, NEW h \in hits
  PROVE  LET k == KeyOf[h.chunk]
             best == CHOOSE p \in hits : /\ KeyOf[p.chunk] = k
                                         /\ \A q \in hits : KeyOf[q.chunk] = k => Score(p) >= Score(q)
         IN  /\ best \in DeduplicateByArticle(hits)
             /\ best \in hits
             /\ KeyOf[best.chunk] = k
             /\ \A q \in hits : KeyOf[q.chunk] = k => Score(best) >= Score(q)
<1> DEFINE k == KeyOf[h.chunk]
           Best(p) == /\ KeyOf[p.chunk] = k
                      /\ \A q \in hits : KeyOf[q.chunk] = k => Score(p) >= Score(q)
           best == CHOOSE p \in hits : Best(p)
           ofKey == {p \in hits : KeyOf[p.chunk] = k}
           f == [p \in ofKey |-> Score(p)]
<1>1. f \in [ofKey -> 0..MaxScore] /\ h \in ofKey
  BY DEF Score, TypeOK, Point
<1>2. PICK b \in ofKey : \A q \in ofKey : f[b] >= f[q]
  <2> HIDE DEF f, ofKey
  <2> QED
    BY <1>1, GreatestOf
<1>3. Best(b)
  BY <1>2
<1>4. best \in hits /\ Best(best)
  <2> HIDE DEF Best
  <2> QED
    BY <1>2, <1>3
<1>5. best \in DeduplicateByArticle(hits)
  BY DEF DeduplicateByArticle
<1> QED
  BY <1>4, <1>5

\* What is kept of the hits: of each article one, and none is better.
LEMMA OnlyBest ==
  ASSUME TypeOK, NEW hits, hits \subseteq points, NEW b \in DeduplicateByArticle(hits)
  PROVE  /\ b \in hits
         /\ \A q \in hits : KeyOf[q.chunk] = KeyOf[b.chunk] => Score(b) >= Score(q)
         /\ \A c \in DeduplicateByArticle(hits) : KeyOf[c.chunk] = KeyOf[b.chunk] => c = b
<1> DEFINE BestOf(k) == CHOOSE p \in hits : /\ KeyOf[p.chunk] = k
                                 /\ \A q \in hits : KeyOf[q.chunk] = k => Score(p) >= Score(q)
<1>0. DeduplicateByArticle(hits) = {BestOf(k) : k \in {KeyOf[p.chunk] : p \in hits}}
  BY DEF DeduplicateByArticle
<1>1. \A c \in DeduplicateByArticle(hits) : \E h \in hits : c = BestOf(KeyOf[h.chunk])
  <2> HIDE DEF BestOf
  <2> QED
    BY <1>0
<1>2. ASSUME NEW h \in hits
      PROVE  /\ BestOf(KeyOf[h.chunk]) \in hits
             /\ KeyOf[BestOf(KeyOf[h.chunk]).chunk] = KeyOf[h.chunk]
             /\ \A q \in hits : KeyOf[q.chunk] = KeyOf[h.chunk] => Score(BestOf(KeyOf[h.chunk])) >= Score(q)
  BY BestHit
<1> HIDE DEF BestOf
<1>3. \A c \in DeduplicateByArticle(hits) : c \in hits /\ c = BestOf(KeyOf[c.chunk])
  BY <1>1, <1>2
<1> QED
  BY <1>1, <1>2, <1>3

LEMMA SearchStepsKeepInv ==
  ASSUME IndexInv, Retrieve \/ RetrievalFails
  PROVE  IndexInv'
<1> USE DEF IndexInv
<1>1. UNCHANGED <<collection, indexed, points, pc, step, attempt, vectors, score, maimed>>
  BY DEF Retrieve, RetrievalFails, index, pipeline
<1>2. docs' \subseteq Doc /\ \A d, e \in docs' : d.key = e.key => d = e
  <2>1. CASE RetrievalFails
    BY <2>1 DEF RetrievalFails
  <2>2. CASE Retrieve
    <3>1. PICK hits \in SUBSET points :
            docs' = FormatRetrievedDocs(DeduplicateByArticle(FilterByThreshold(hits)))
      BY <2>2 DEF Retrieve
    <3> DEFINE good == FilterByThreshold(hits)
    <3>2. good \subseteq points
      BY DEF FilterByThreshold
    <3> HIDE DEF good
    <3>3. \A b \in DeduplicateByArticle(good) : b \in Point
      BY <3>2, OnlyBest DEF TypeOK
    <3>4. docs' \subseteq Doc
      <4>1. ASSUME NEW p \in Point
            PROVE  [key |-> KeyOf[p.chunk], parent_text |-> ParentText(KeyOf[p.chunk]),
                    score |-> Score(p)] \in Doc
        <5>1. KeyOf[p.chunk] \in Key /\ Score(p) \in 0..MaxScore
          BY Chunks DEF Point, Score, TypeOK
        <5> QED
          BY <5>1 DEF Doc, ParentText
      <4> QED
        BY <3>1, <3>3, <4>1 DEF FormatRetrievedDocs, good
    <3>5. ASSUME NEW d \in docs', NEW e \in docs', d.key = e.key PROVE d = e
      <4>1. PICK b \in DeduplicateByArticle(good) :
              d = [key |-> KeyOf[b.chunk], parent_text |-> ParentText(KeyOf[b.chunk]),
                   score |-> Score(b)]
        BY <3>1 DEF FormatRetrievedDocs, good
      <4>2. PICK c \in DeduplicateByArticle(good) :
              e = [key |-> KeyOf[c.chunk], parent_text |-> ParentText(KeyOf[c.chunk]),
                   score |-> Score(c)]
        BY <3>1 DEF FormatRetrievedDocs, good
      <4>3. KeyOf[b.chunk] = KeyOf[c.chunk]
        BY <3>5, <4>1, <4>2
      <4>4. b = c
        BY <4>3, <3>2, OnlyBest
      <4> QED
        BY <4>1, <4>2, <4>4
    <3> QED
      BY <3>4, <3>5
  <2> QED
    BY <2>1, <2>2
<1>3. TypeOK'
  BY <1>1, <1>2 DEF TypeOK, Doc, Point
<1>4. ASSUME NEW q \in Run PROVE VectorsInPlace(q)' /\ Progress(q)'
  BY <1>1, Undisturbed
<1> QED
  BY <1>1, <1>3, <1>4 DEF VectorsMatchTexts, IndexesAccountedFor

LEMMA NextKeepsInv == IndexInv /\ [Next]_vars => IndexInv'
<1> SUFFICES ASSUME IndexInv, [Next]_vars PROVE IndexInv'
  OBVIOUS
<1>1. ASSUME NEW r \in Run,
             StartPipeline(r) \/ Continue(r) \/ EmbedHangs(r) \/ UpsertTimesOut(r) \/ Die(r)
      PROVE  IndexInv'
  BY <1>1, CollectionStepsKeepInv, EmbedStepsKeepInv, UpsertStepsKeepInv, DieKeepsInv
     DEF Continue
<1>2. CASE Retrieve \/ RetrievalFails
  BY <1>2, SearchStepsKeepInv
<1>3. CASE UNCHANGED vars
  <2>1. UNCHANGED <<collection, indexed, points, pc, step, attempt, vectors, score, docs, maimed>>
    BY <1>3 DEF vars, index, pipeline, search
  <2>2. ASSUME NEW q \in Run PROVE VectorsInPlace(q)' /\ Progress(q)'
    BY <2>1, Undisturbed DEF IndexInv
  <2> QED
    BY <2>1, <2>2 DEF IndexInv, TypeOK, Doc, Point, VectorsMatchTexts, IndexesAccountedFor
<1> QED
  BY <1>1, <1>2, <1>3 DEF Next

-----------------------------------------------------------------------------
(* Theorems *)

\* The strengthened invariant holds in every state of any number of overlapping
\* runs of the pipeline.
THEOREM IndexInvariant == Spec => []IndexInv
<1> QED
  BY InitEstablishesInv, NextKeepsInv, PTL DEF Spec

\* Every variable has its type: step and attempt stay within their limits, and a
\* search has at most one document of an article.
THEOREM TypeCorrect == Spec => []TypeOK
<1>1. IndexInv => TypeOK
  BY DEF IndexInv
<1> QED
  BY <1>1, IndexInvariant, PTL

\* Every point carries the vector of its own text: neither the sizes of the batches
\* nor retries, deaths or overlapping runs shift all_embeddings against the chunks.
THEOREM EveryVectorOfItsText == Spec => []VectorsMatchTexts
<1>1. IndexInv => VectorsMatchTexts
  BY DEF IndexInv
<1> QED
  BY <1>1, IndexInvariant, PTL

\* A run that reports "Done" has stored every chunk of the regulation.
THEOREM DoneIsStored == Spec => []DoneMeansStored
<1>1. IndexInv => DoneMeansStored
  BY DEF IndexInv, DoneMeansStored, Progress, Stored
<1> QED
  BY <1>1, IndexInvariant, PTL

\* A collection that lacks a payload index has a run at it, or a run died there.
THEOREM MissingIndexesExplained == Spec => []IndexesAccountedFor
<1>1. IndexInv => IndexesAccountedFor
  BY DEF IndexInv
<1> QED
  BY <1>1, IndexInvariant, PTL

\* Whatever hits a search gets, what it makes of them has the best chunk of each
\* article, and the best chunk of all if it is relevant.
LEMMA SearchIsRight ==
  ASSUME IndexInv, Retrieve
  PROVE  /\ \A d \in docs' :
              /\ d.score >= Threshold
              /\ \A p \in points : KeyOf[p.chunk] = d.key => Score(p) <= d.score
         /\ \A p \in points :
              Score(p) >= Threshold /\ (\A q \in points : Score(q) <= Score(p))
                => \E d \in docs' : d.score = Score(p)
<1> USE DEF IndexInv
<1>1. PICK hits \in SUBSET points :
        /\ Hits(hits)
        /\ docs' = FormatRetrievedDocs(DeduplicateByArticle(FilterByThreshold(hits)))
  BY DEF Retrieve
<1> DEFINE good == FilterByThreshold(hits)
           DocOf(p) == [key |-> KeyOf[p.chunk], parent_text |-> ParentText(KeyOf[p.chunk]),
                        score |-> Score(p)]
<1>2. docs' = {DocOf(p) : p \in DeduplicateByArticle(good)}
  BY <1>1 DEF FormatRetrievedDocs
<1>3. good \subseteq hits /\ \A p \in hits : p \in good <=> Score(p) >= Threshold
  BY DEF FilterByThreshold
<1>4. \A p \in points : Score(p) \in Nat
  BY IndexAssumption DEF Score, TypeOK, Point
<1>5. Threshold \in Nat
  BY IndexAssumption
<1>6. \A p \in hits, q \in points \ hits : Score(p) >= Score(q)
  BY <1>1 DEF Hits
<1> HIDE DEF good
<1>7. ASSUME NEW d \in docs'
      PROVE  /\ d.score >= Threshold
             /\ \A p \in points : KeyOf[p.chunk] = d.key => Score(p) <= d.score
  <2>1. PICK b \in DeduplicateByArticle(good) : d = DocOf(b)
    BY <1>2
  <2>2. /\ b \in good
        /\ \A q \in good : KeyOf[q.chunk] = KeyOf[b.chunk] => Score(b) >= Score(q)
    BY <1>3, OnlyBest
  <2>3. d.score = Score(b) /\ d.key = KeyOf[b.chunk] /\ Score(b) >= Threshold
    BY <2>1, <2>2, <1>3
  <2>4. ASSUME NEW p \in points, KeyOf[p.chunk] = KeyOf[b.chunk] PROVE Score(p) <= Score(b)
    <3>1. CASE p \in good
      BY <3>1, <2>2, <2>4, <1>3, <1>4
    <3>2. CASE p \in hits \ good
      <4>1. ~ Score(p) >= Threshold
        BY <3>2, <1>3
      <4> QED
        BY <4>1, <2>2, <2>3, <1>3, <1>4, <1>5
    <3>3. CASE p \notin hits
      BY <3>3, <2>2, <1>3, <1>4, <1>6
    <3> QED
      BY <3>1, <3>2, <3>3
  <2> QED
    BY <2>3, <2>4
<1>8. ASSUME NEW p \in points, Score(p) >= Threshold, \A q \in points : Score(q) <= Score(p)
      PROVE  \E d \in docs' : d.score = Score(p)
  <2>1. hits # {}
    <3>1. Cardinality(points) \in Nat /\ Cardinality(points) # 0
      BY FS_CardinalityType, FS_EmptySet
    <3>2. Cardinality(hits) = IF TopK <= Cardinality(points) THEN TopK ELSE Cardinality(points)
      <4>1. TopK \in Nat
        BY IndexAssumption
      <4> QED
        BY <1>1, <3>1, <4>1, MinOfTwo DEF Hits
    <3>3. Cardinality(hits) # 0
      BY <3>1, <3>2, IndexAssumption
    <3> QED
      BY <3>3, FS_EmptySet
  <2>2. PICK h \in hits : Score(h) = Score(p)
    <3>1. CASE p \in hits
      BY <3>1
    <3>2. CASE p \notin hits
      <4>1. PICK h \in hits : TRUE
        BY <2>1
      <4>2. Score(h) >= Score(p) /\ Score(h) <= Score(p)
        BY <3>2, <1>6, <1>8
      <4> QED
        BY <4>2, <1>4
    <3> QED
      BY <3>1, <3>2
  <2>3. h \in good /\ good \subseteq points
    BY <2>2, <1>3, <1>8
  <2>4. PICK b \in DeduplicateByArticle(good) : b \in good /\ Score(b) >= Score(h)
    BY <2>3, BestHit
  <2>5. Score(b) = Score(p)
    BY <2>2, <2>3, <2>4, <1>4, <1>8
  <2>6. DocOf(b) \in docs' /\ DocOf(b).score = Score(b)
    BY <1>2, <2>4
  <2> QED
    BY <2>5, <2>6
<1> QED
  BY <1>7, <1>8

\* A search gives for each article its best chunk in the collection, and the best
\* chunk of all whenever it is relevant, for any TopK of at least one and any threshold.
THEOREM SearchesGiveTheBest == Spec => BestOfEachArticle
<1>1. IndexInv /\ [Next]_vars =>
        [Retrieve =>
           /\ \A d \in docs' :
                /\ d.score >= Threshold
                /\ \A p \in points : KeyOf[p.chunk] = d.key => Score(p) <= d.score
           /\ \A p \in points :
                Score(p) >= Threshold /\ (\A q \in points : Score(q) <= Score(p))
                  => \E d \in docs' : d.score = Score(p)]_vars
  BY SearchIsRight
<1> QED
  BY <1>1, IndexInvariant, PTL DEF Spec, BestOfEachArticle

=============================================================================
