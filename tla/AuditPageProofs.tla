--------------------------- MODULE AuditPageProofs ---------------------------
(***************************************************************************)
(* What is proved of the chat page and its list of sessions, for any       *)
(* number of audits, sessions and tokens.                                  *)
(*                                                                         *)
(* The list has an inductive invariant of its own, ListInv: between two    *)
(* answers the sidebar shows the rows of the backend, without those whose  *)
(* creation is still to be answered and with those whose deletion is.      *)
(* PageInv adds what the page knows of its streams: with no session on     *)
(* screen there is no answer, no token and no stream that is not aborted,  *)
(* so that nothing has to be cleared when the first session comes; and of  *)
(* a fetch it says that the stream of the session is not aborted and that  *)
(* an answer written before the fetch ends is of an audit that raced it    *)
(* (FetchBesideStream).                                                    *)
(***************************************************************************)
EXTENDS AuditPage, FiniteSetTheorems, SequenceTheorems, WellFoundedInduction, TLAPS

(* The list of sessions *)

\* A creation is on its way to the backend, or its answer on its way back, and
\* no two make the same session.
CreationsApart ==
  /\ \A c \in sent : created[c] = NoSession
  /\ \A c, d \in Creation : created[c] # NoSession /\ created[c] = created[d] => c = d

\* Sessions whose row is gone and whose deletion is still to be answered.
Gone == {s \in Session : deleting[s] = "done"}

DeletionsOfListed ==
  /\ ~ Loaded => \A s \in Session : deleting[s] = "no"
  /\ \A s \in Session : deleting[s] # "no" => s <= last
  /\ Gone \cap rows = {}

\* A session is not deleted before the answer that brings it into the list.
UnansweredThere ==
  ~ untold => Unanswered \subseteq rows /\ \A s \in Unanswered : deleting[s] = "no"

\* What the list shows at any time, changes under way included.
ListTrue ==
  Loaded /\ ~ untold => Shown = (rows \ Unanswered) \cup Gone /\ IsInjective(sessions)

ListInv ==
  /\ ListTypeOK
  /\ IsInjective(fetched)
  /\ listing = "failed" => untold
  /\ CreationsApart
  /\ DeletionsOfListed
  /\ UnansweredThere
  /\ ListTrue
  /\ ActiveSessionListed

\* Takes the place of induction in the lemmas about Without.
LEMMA LeastNumber ==
  ASSUME NEW S \in SUBSET Nat, S # {}
  PROVE  \E m \in S : \A n \in S : m <= n
<1> DEFINE Less == {p \in Nat \X Nat : p[1] < p[2]}
<1>1. IsWellFoundedOn(Less, Nat)
  BY NatLessThanWellFounded, Zenon DEF OpToRel
<1>2. \A n, m \in Nat : n < m => <<n, m>> \in Less
  OBVIOUS
<1> HIDE DEF Less
<1>3. PICK m \in S : \A n \in S : <<n, m>> \notin Less
  BY <1>1, WFMin
<1>4. ASSUME NEW n \in S PROVE m <= n
  <2>1. ~ n < m
    BY <1>2, <1>3
  <2> QED
    BY <2>1
<1> QED
  BY <1>4

\* The recursion of Without, as a property of a function up to n.
Keeps(f, s, l, n) ==
  \A i \in 0..n : f[i] = IF i = 0 THEN <<>>
                         ELSE IF l[i] = s THEN f[i - 1]
                         ELSE Append(f[i - 1], l[i])

\* A function with this recursion exists: a least length without one is neither 0
\* nor the next of a length with one.
LEMMA KeepsExists ==
  ASSUME NEW X, NEW l \in Seq(X), NEW s
  PROVE  \E f \in [0..Len(l) -> Seq(X)] : Keeps(f, s, l, Len(l))
<1> DEFINE Missing == {n \in 0..Len(l) : ~ \E f \in [0..n -> Seq(X)] : Keeps(f, s, l, n)}
<1>0. Len(l) \in Nat /\ <<>> \in Seq(X)
  BY LenProperties
<1> SUFFICES ASSUME Missing # {} PROVE FALSE
  BY <1>0
<1>1. Missing \in SUBSET Nat
  OBVIOUS
<1> HIDE DEF Missing
<1>2. PICK n \in Missing : \A k \in Missing : n <= k
  BY <1>1, LeastNumber
<1>3. n \in 0..Len(l) /\ n \in Nat /\ ~ \E f \in [0..n -> Seq(X)] : Keeps(f, s, l, n)
  BY DEF Missing
<1>4. CASE n = 0
  <2> DEFINE f == [i \in 0..0 |-> <<>>]
  <2>1. f \in [0..0 -> Seq(X)] /\ f[0] = <<>>
    BY <1>0
  <2> HIDE DEF f
  <2>2. Keeps(f, s, l, 0)
    BY <2>1 DEF Keeps
  <2> QED
    BY <1>3, <1>4, <2>1, <2>2
<1>5. CASE n # 0
  <2>1. n - 1 \in 0..Len(l) /\ ~ n <= n - 1 /\ n \in 1..Len(l)
    BY <1>0, <1>3, <1>5
  <2>2. PICK g \in [0..(n - 1) -> Seq(X)] : Keeps(g, s, l, n - 1)
    BY <1>2, <2>1 DEF Missing
  <2> DEFINE more == IF l[n] = s THEN g[n - 1] ELSE Append(g[n - 1], l[n])
             f == [i \in 0..n |-> IF i = n THEN more ELSE g[i]]
  <2>3. more \in Seq(X)
    <3>1. g[n - 1] \in Seq(X) /\ l[n] \in X
      BY <1>3, <2>1, ElementOfSeq
    <3> QED
      BY <3>1, AppendProperties
  <2>4. \A i \in 0..(n - 1) : g[i] \in Seq(X)
    OBVIOUS
  <2> HIDE DEF more
  <2>5. /\ f \in [0..n -> Seq(X)] /\ f[n] = more
        /\ \A i \in 0..(n - 1) : f[i] = g[i]
    BY <1>3, <2>3, <2>4
  <2> HIDE DEF f
  <2>6. ASSUME NEW i \in 0..n
        PROVE  f[i] = IF i = 0 THEN <<>> ELSE IF l[i] = s THEN f[i - 1] ELSE Append(f[i - 1], l[i])
    <3>1. CASE i = n
      <4>1. f[n - 1] = g[n - 1]
        BY <1>3, <2>1, <2>5
      <4> QED
        BY <1>5, <2>5, <3>1, <4>1 DEF more
    <3>2. CASE i # n
      <4>1. i \in 0..(n - 1) /\ (i # 0 => i - 1 \in 0..(n - 1))
        BY <1>3, <3>2
      <4>2. g[i] = IF i = 0 THEN <<>> ELSE IF l[i] = s THEN g[i - 1] ELSE Append(g[i - 1], l[i])
        BY <2>2, <4>1 DEF Keeps
      <4>3. f[i] = g[i] /\ (i # 0 => f[i - 1] = g[i - 1])
        BY <2>5, <4>1
      <4> QED
        BY <4>2, <4>3
    <3> QED
      BY <3>1, <3>2
  <2>7. Keeps(f, s, l, n)
    BY <2>6 DEF Keeps
  <2> QED
    BY <1>3, <2>5, <2>7
<1> QED
  BY <1>4, <1>5

\* Two such functions agree.
LEMMA KeepsOne ==
  ASSUME NEW s, NEW l, NEW n \in Nat, NEW f, NEW g, Keeps(f, s, l, n), Keeps(g, s, l, n)
  PROVE  f[n] = g[n]
<1> DEFINE Apart == {i \in 0..n : f[i] # g[i]}
<1> SUFFICES ASSUME Apart # {} PROVE FALSE
  OBVIOUS
<1>1. Apart \in SUBSET Nat
  OBVIOUS
<1> HIDE DEF Apart
<1>2. PICK i \in Apart : \A k \in Apart : i <= k
  BY <1>1, LeastNumber
<1>3. i \in 0..n /\ f[i] # g[i]
  BY DEF Apart
<1>4. CASE i = 0
  BY <1>3, <1>4 DEF Keeps
<1>5. CASE i # 0
  <2>1. i - 1 \in 0..n /\ ~ i <= i - 1
    BY <1>3, <1>5
  <2>2. f[i - 1] = g[i - 1]
    BY <1>2, <2>1 DEF Apart
  <2> QED
    BY <1>3, <1>5, <2>2 DEF Keeps
<1> QED
  BY <1>4, <1>5

\* Without is the last value of one of them.
LEMMA WithoutKeeps ==
  ASSUME NEW X, NEW l \in Seq(X), NEW s
  PROVE  \E f \in [0..Len(l) -> Seq(X)] : Keeps(f, s, l, Len(l)) /\ Without(s, l) = f[Len(l)]
<1> DEFINE Def(f) == f = [i \in 0..Len(l) |-> IF i = 0 THEN <<>>
                                             ELSE IF l[i] = s THEN f[i - 1]
                                             ELSE Append(f[i - 1], l[i])]
           kept == CHOOSE f : Def(f)
<1>1. PICK g \in [0..Len(l) -> Seq(X)] : Keeps(g, s, l, Len(l))
  BY KeepsExists
<1>2. Def(g)
  BY <1>1 DEF Keeps
<1>3. Def(kept)
  <2> HIDE DEF Def
  <2> QED
    BY <1>2
<1>4. Without(s, l) = kept[Len(l)]
  BY DEF Without
<1>5. Keeps(kept, s, l, Len(l))
  <2> HIDE DEF kept
  <2> QED
    BY <1>3 DEF Keeps
<1> HIDE DEF kept
<1>6. kept[Len(l)] = g[Len(l)]
  BY <1>1, <1>5, KeepsOne, LenProperties
<1> QED
  BY <1>1, <1>4, <1>6

\* What is left is the sequence of the other elements, each as often as before:
\* once, when it was in it once.
LEMMA WithoutProperties ==
  ASSUME NEW X, NEW l \in Seq(X), NEW s
  PROVE  /\ Without(s, l) \in Seq(X)
         /\ ToSet(Without(s, l)) = ToSet(l) \ {s}
         /\ IsInjective(l) => IsInjective(Without(s, l))
<1> DEFINE n == Len(l)
           Before(i) == {l[j] : j \in 1..i} \ {s}
           Good(f, i) == ToSet(f[i]) = Before(i) /\ (IsInjective(l) => IsInjective(f[i]))
<1>1. n \in Nat /\ DOMAIN l = 1..n
  BY LenProperties
<1>2. PICK f \in [0..n -> Seq(X)] : Keeps(f, s, l, n) /\ Without(s, l) = f[n]
  BY WithoutKeeps
<1> DEFINE Bad == {i \in 0..n : ~ Good(f, i)}
<1>3. ASSUME Bad # {} PROVE FALSE
  <2>1. Bad \in SUBSET Nat
    OBVIOUS
  <2> HIDE DEF Bad
  <2>2. PICK i \in Bad : \A k \in Bad : i <= k
    BY <1>3, <2>1, LeastNumber
  <2>3. i \in 0..n /\ ~ Good(f, i)
    BY DEF Bad
  <2>4. CASE i = 0
    <3>1. f[i] = <<>>
      BY <1>2, <2>3, <2>4 DEF Keeps
    <3>2. DOMAIN <<>> = {} /\ 1..0 = {}
      OBVIOUS
    <3>3. Good(f, i)
      BY <2>4, <3>1, <3>2 DEF ToSet, IsInjective
    <3> QED
      BY <2>3, <3>3
  <2>5. CASE i # 0
    <3>1. i - 1 \in 0..n /\ ~ i <= i - 1 /\ i \in 1..n
      BY <1>1, <2>3, <2>5
    <3>2. Good(f, i - 1)
      BY <2>2, <3>1 DEF Bad
    <3>3. f[i] = IF l[i] = s THEN f[i - 1] ELSE Append(f[i - 1], l[i])
      BY <1>2, <2>3, <2>5 DEF Keeps
    <3>4. Before(i) = Before(i - 1) \cup ({l[i]} \ {s})
      <4>1. 1..i = 1..(i - 1) \cup {i}
        BY <3>1
      <4> QED
        BY <4>1
    <3>5. CASE l[i] = s
      BY <2>3, <3>2, <3>3, <3>4, <3>5
    <3>6. CASE l[i] # s
      <4> DEFINE g == f[i - 1]
                 m == Len(g)
      <4>1. g \in Seq(X) /\ l[i] \in X
        BY <1>1, <3>1, ElementOfSeq
      <4> HIDE DEF g
      <4>2. /\ m \in Nat /\ DOMAIN g = 1..m
            /\ Len(Append(g, l[i])) = m + 1 /\ DOMAIN Append(g, l[i]) = 1..(m + 1)
            /\ \A j \in 1..m : Append(g, l[i])[j] = g[j]
            /\ Append(g, l[i])[m + 1] = l[i]
        BY <4>1, LenProperties, AppendProperties
      <4> HIDE DEF m
      <4>3. ToSet(Append(g, l[i])) = ToSet(g) \cup {l[i]}
        BY <4>2 DEF ToSet
      <4>4. ToSet(g) = Before(i - 1) /\ (IsInjective(l) => IsInjective(g))
        BY <3>2 DEF g
      <4>5. ASSUME IsInjective(l) PROVE IsInjective(Append(g, l[i]))
        <5>1. l[i] \notin ToSet(g)
          <6>1. ASSUME NEW j \in 1..(i - 1) PROVE l[j] # l[i]
            BY <1>1, <3>1, <4>5 DEF IsInjective
          <6> QED
            BY <4>4, <6>1
        <5>2. \A j \in 1..m : g[j] # l[i]
          BY <4>2, <5>1 DEF ToSet
        <5>3. IsInjective(g)
          BY <4>4, <4>5
        <5> QED
          BY <4>2, <5>2, <5>3 DEF IsInjective
      <4>6. f[i] = Append(g, l[i])
        BY <3>3, <3>6 DEF g
      <4>7. ToSet(f[i]) = Before(i)
        BY <3>4, <3>6, <4>3, <4>4, <4>6
      <4> QED
        BY <2>3, <4>5, <4>6, <4>7
    <3> QED
      BY <3>5, <3>6
  <2> QED
    BY <2>4, <2>5
<1>4. Good(f, n)
  <2>1. n \in 0..n
    BY <1>1
  <2> HIDE DEF Good, n
  <2> QED
    BY <1>3, <2>1
<1>5. Before(n) = ToSet(l) \ {s}
  BY <1>1 DEF ToSet
<1> QED
  BY <1>1, <1>2, <1>4, <1>5

-----------------------------------------------------------------------------
(* Lemmas about sequences *)

LEMMA SeqGrows ==
  ASSUME NEW S, NEW T, S \subseteq T, NEW l \in Seq(S)
  PROVE  l \in Seq(T)
<1>1. /\ Len(l) \in Nat /\ l \in [1..Len(l) -> S]
  BY LenProperties
<1>2. l \in [1..Len(l) -> T]
  BY <1>1
<1> QED
  BY <1>1, <1>2

\* The answer to fetchSessions holds every row once.
LEMMA ReadProperties ==
  ASSUME NEW n \in Nat, NEW R \in SUBSET (1..n), NEW l \in SetToSeqs(R)
  PROVE  l \in Seq(1..n) /\ IsInjective(l)
<1>1. Cardinality(R) \in Nat
  <2>1. IsFiniteSet(1..n)
    BY FS_Interval
  <2>2. IsFiniteSet(R)
    BY <2>1, FS_Subset
  <2> QED
    BY <2>2, FS_CardinalityType
<1>2. /\ l \in [1..Cardinality(R) -> R]
      /\ \A i, j \in 1..Cardinality(R) : i # j => l[i] # l[j]
  BY DEF SetToSeqs
<1>3. l \in [1..Cardinality(R) -> 1..n]
  BY <1>2
<1>4. l \in Seq(1..n)
  BY <1>1, <1>3
<1> QED
  BY <1>2, <1>4 DEF IsInjective

\* The new session is put before the others.
LEMMA PutFirst ==
  ASSUME NEW X, NEW x \in X, NEW l \in Seq(X)
  PROVE  /\ <<x>> \o l \in Seq(X)
         /\ ToSet(<<x>> \o l) = {x} \cup ToSet(l)
         /\ IsInjective(l) /\ x \notin ToSet(l) => IsInjective(<<x>> \o l)
<1> DEFINE n == Len(l)
           m == <<x>> \o l
<1>1. /\ n \in Nat /\ DOMAIN l = 1..n
      /\ m \in Seq(X) /\ Len(m) = n + 1 /\ m[1] = x
      /\ \A i \in 1..(n + 1) : i # 1 => m[i] = l[i - 1]
  <2>1. <<x>> \in Seq(X) /\ Len(<<x>>) = 1 /\ <<x>>[1] = x
    OBVIOUS
  <2>2. n \in Nat /\ DOMAIN l = 1..n
    BY LenProperties
  <2> QED
    BY <2>1, <2>2, ConcatProperties
<1>2. DOMAIN m = 1..(n + 1)
  BY <1>1, LenProperties
<1> HIDE DEF n, m
<1>3. \A i \in 1..n : m[i + 1] = l[i] /\ i + 1 \in 1..(n + 1)
  BY <1>1
<1>4. ToSet(m) = {x} \cup ToSet(l)
  <2>1. ASSUME NEW i \in 1..(n + 1) PROVE m[i] \in {x} \cup ToSet(l)
    <3>1. i # 1 => i - 1 \in 1..n
      BY <1>1
    <3> QED
      BY <1>1, <3>1 DEF ToSet
  <2>2. 1 \in 1..(n + 1)
    BY <1>1
  <2>3. x \in ToSet(m)
    BY <1>1, <1>2, <2>2 DEF ToSet
  <2>4. ASSUME NEW i \in 1..n PROVE l[i] \in ToSet(m)
    BY <1>2, <1>3 DEF ToSet
  <2> QED
    BY <1>1, <1>2, <2>1, <2>3, <2>4 DEF ToSet
<1>5. ASSUME IsInjective(l), x \notin ToSet(l), NEW i \in 1..(n + 1), NEW j \in 1..(n + 1), m[i] = m[j]
      PROVE  i = j
  <2>1. /\ i # 1 => i - 1 \in 1..n
        /\ j # 1 => j - 1 \in 1..n
    BY <1>1
  <2>2. \A k \in 1..n : l[k] # x
    BY <1>1, <1>5 DEF ToSet
  <2>3. i # 1 /\ j # 1 => i - 1 = j - 1
    BY <1>1, <1>5, <2>1 DEF IsInjective
  <2> QED
    BY <1>1, <1>5, <2>1, <2>2, <2>3
<1> QED
  BY <1>1, <1>2, <1>4, <1>5 DEF IsInjective, m

LEMMA FirstProperties ==
  ASSUME NEW X, NEW l \in Seq(X)
  PROVE  /\ \A i \in DOMAIN l : l[i] \in ToSet(l)
         /\ ToSet(l) \subseteq X
         /\ FirstOf(l) = NoSession \/ FirstOf(l) \in ToSet(l)
<1>1. Len(l) \in Nat /\ DOMAIN l = 1..Len(l)
  BY LenProperties
<1>2. ToSet(l) \subseteq X
  BY <1>1, ElementOfSeq DEF ToSet
<1>3. l # <<>> => Head(l) = l[1] /\ 1 \in DOMAIN l
  BY <1>1, HeadTailProperties, EmptySeq
<1> QED
  BY <1>2, <1>3 DEF FirstOf, ToSet

\* A list without repetitions is as long as the set of its elements is large.
LEMMA LengthOfList ==
  ASSUME NEW X, NEW l \in Seq(X), IsInjective(l)
  PROVE  Len(l) = Cardinality(ToSet(l))
<1> DEFINE D == 1..Len(l)
<1>1. Len(l) \in Nat /\ DOMAIN l = D /\ l \in [D -> X]
  BY LenProperties
<1>2. IsFiniteSet(D) /\ Cardinality(D) = Len(l)
  BY <1>1, FS_Interval
<1>3. l \in [D -> ToSet(l)]
  BY <1>1 DEF ToSet
<1> HIDE DEF D
<1>4. l \in Surjection(D, ToSet(l))
  BY <1>1, <1>3 DEF Surjection, ToSet
<1>5. l \in Injection(D, ToSet(l))
  BY <1>1, <1>3 DEF Injection
<1> QED
  BY <1>2, <1>4, <1>5, FS_Surjection

-----------------------------------------------------------------------------
(* Each step of the list keeps ListInv *)

LEMMA ReadListKeepsInv ==
  ASSUME ListInv, ReadList
  PROVE  ListInv'
<1>1. /\ listing = "asked" /\ listing' = "answered" /\ fetched' \in SetToSeqs(rows)
      /\ UNCHANGED <<rows, last, sessions, session, sent, created, deleting, wasActive,
                     untold, stranded>>
  BY DEF ReadList
<1>2. last \in Nat /\ rows \in SUBSET (1..last)
  BY ListAssumption DEF ListInv, ListTypeOK
<1>3. fetched' \in Seq(1..last) /\ IsInjective(fetched')
  BY <1>1, <1>2, ReadProperties
<1>4. ListTypeOK'
  BY <1>1, <1>3 DEF ListInv, ListTypeOK
<1> QED
  BY <1>1, <1>3, <1>4 DEF ListInv, CreationsApart, Gone, DeletionsOfListed, UnansweredThere,
     Unanswered, ListTrue, Loaded, ActiveSessionListed

LEMMA ListArrivesKeepsInv ==
  ASSUME ListInv, ListArrives
  PROVE  ListInv'
<1>1. /\ listing = "answered" /\ listing' = "done" /\ sessions' = fetched /\ fetched' = <<>>
      /\ session' = (IF session \in ToSet(fetched) THEN session ELSE FirstOf(fetched))
      /\ untold' = (untold \/ ToSet(fetched) # rows \ Unanswered)
      /\ UNCHANGED <<rows, last, sent, created, deleting, wasActive, stranded>>
  BY DEF ListArrives
<1>2. last \in Nat /\ fetched \in Seq(1..last) /\ session \in 0..last /\ <<>> \in Seq(1..last)
  BY ListAssumption DEF ListInv, ListTypeOK
<1>3. session' \in 0..last /\ (session' # NoSession => session' \in Shown')
  <2>1. /\ ToSet(fetched) \subseteq 1..last
        /\ FirstOf(fetched) = NoSession \/ FirstOf(fetched) \in ToSet(fetched)
    BY <1>2, FirstProperties
  <2>2. session' = NoSession \/ session' \in ToSet(fetched)
    BY <1>1, <2>1
  <2> QED
    BY <1>1, <1>2, <2>1, <2>2 DEF Shown, NoSession
<1>4. ListTypeOK'
  <2>1. untold' \in BOOLEAN
    BY <1>1 DEF ListInv, ListTypeOK
  <2> QED
    BY <1>1, <1>2, <1>3, <2>1 DEF ListInv, ListTypeOK
<1>5. IsInjective(fetched)' /\ IsInjective(sessions)'
  <2>1. DOMAIN <<>> = {}
    OBVIOUS
  <2> QED
    BY <1>1, <2>1 DEF ListInv, IsInjective
<1>6. ListTrue'
  <2>1. \A s \in Session : deleting[s] = "no"
    BY <1>1 DEF ListInv, DeletionsOfListed, Loaded
  <2>2. Gone' = {} /\ Unanswered' = Unanswered
    BY <1>1, <2>1 DEF Gone, Unanswered
  <2>3. ~ untold' => Shown' = rows \ Unanswered
    BY <1>1 DEF Shown
  <2> QED
    BY <1>1, <1>5, <2>2, <2>3 DEF ListTrue
<1>7. DeletionsOfListed' /\ UnansweredThere' /\ CreationsApart'
  BY <1>1 DEF ListInv, CreationsApart, DeletionsOfListed, UnansweredThere, Unanswered, Gone, Loaded
<1> QED
  BY <1>1, <1>3, <1>4, <1>5, <1>6, <1>7 DEF ListInv, ActiveSessionListed

LEMMA ListFailsKeepsInv ==
  ASSUME ListInv, ListFails
  PROVE  ListInv'
<1>1. /\ ~ Loaded /\ listing' = "failed" /\ fetched' = <<>> /\ untold' = TRUE
      /\ UNCHANGED <<rows, last, sessions, session, sent, created, deleting, wasActive, stranded>>
  BY DEF ListFails
<1>2. ListTypeOK'
  <2>1. <<>> \in Seq(1..last)
    OBVIOUS
  <2> QED
    BY <1>1, <2>1 DEF ListInv, ListTypeOK
<1>3. IsInjective(fetched)'
  <2>1. DOMAIN <<>> = {}
    OBVIOUS
  <2> QED
    BY <1>1, <2>1 DEF IsInjective
<1> QED
  BY <1>1, <1>2, <1>3 DEF ListInv, CreationsApart, Gone, DeletionsOfListed, UnansweredThere,
     ListTrue, Loaded, ActiveSessionListed

LEMMA AskForSessionKeepsInv ==
  ASSUME ListInv, NEW c \in Creation, ~ Creating(c), AskForSession(c)
  PROVE  ListInv'
<1>1. /\ sent' = sent \cup {c} /\ created[c] = NoSession
      /\ UNCHANGED <<rows, last, sessions, session, listing, fetched, created, deleting,
                     wasActive, untold, stranded>>
  BY DEF AskForSession, Creating
<1>2. ListTypeOK'
  BY <1>1 DEF ListInv, ListTypeOK
<1> QED
  BY <1>1, <1>2 DEF ListInv, CreationsApart, Gone, DeletionsOfListed, UnansweredThere,
     Unanswered, ListTrue, Loaded, Shown, ActiveSessionListed

LEMMA InsertRowKeepsInv ==
  ASSUME ListInv, NEW c \in Creation, InsertRow(c)
  PROVE  ListInv'
<1>1. /\ c \in sent /\ last < MaxIds /\ last' = last + 1 /\ rows' = rows \cup {last'}
      /\ created' = [created EXCEPT ![c] = last'] /\ sent' = sent \ {c}
      /\ UNCHANGED <<sessions, session, listing, fetched, deleting, wasActive, untold, stranded>>
  BY DEF InsertRow
<1>2. /\ last \in Nat /\ last' \in Nat /\ last' \in 0..MaxIds /\ MaxIds \in Nat
      /\ 1..last \subseteq 1..last' /\ 0..last \subseteq 0..last' /\ last' \in 1..last'
      /\ last' \notin 0..last
  BY <1>1, ListAssumption DEF ListInv, ListTypeOK
<1>3. /\ created \in [Creation -> 0..last] /\ created[c] = NoSession
      /\ rows \subseteq 1..last /\ session \in 0..last
      /\ sessions \in Seq(1..last) /\ fetched \in Seq(1..last)
  BY <1>1 DEF ListInv, ListTypeOK, CreationsApart
<1>4. /\ created' \in [Creation -> 0..last']
      /\ \A d \in Creation : created'[d] = IF d = c THEN last' ELSE created[d]
  <2>1. \A d \in Creation : created[d] \in 0..last'
    BY <1>2, <1>3
  <2> QED
    BY <1>1, <1>2, <1>3, <2>1
<1>5. ListTypeOK'
  <2>1. sessions' \in Seq(1..last') /\ fetched' \in Seq(1..last')
    BY <1>1, <1>2, <1>3, SeqGrows
  <2>2. rows' \subseteq 1..last' /\ session' \in 0..last'
    BY <1>1, <1>2, <1>3
  <2> QED
    BY <1>1, <1>2, <1>4, <2>1, <2>2 DEF ListInv, ListTypeOK
<1>6. Unanswered' = Unanswered \cup {last'} /\ last' \notin Unanswered /\ last' \notin rows
  <2>1. last' # NoSession
    BY <1>2 DEF NoSession
  <2>2. last' \notin Unanswered /\ last' \notin rows
    BY <1>2, <1>3 DEF Unanswered
  <2>3. ASSUME NEW x PROVE x \in Unanswered' <=> x \in Unanswered \cup {last'}
    BY <1>3, <1>4, <2>1 DEF Unanswered
  <2> QED
    BY <2>2, <2>3
<1>7. CreationsApart'
  <2>1. ASSUME NEW d \in sent' PROVE created'[d] = NoSession
    <3>1. d \in sent /\ d # c /\ d \in Creation
      BY <1>1 DEF ListInv, ListTypeOK
    <3> QED
      BY <1>4, <3>1 DEF ListInv, CreationsApart
  <2>2. ASSUME NEW d \in Creation, NEW e \in Creation,
               created'[d] # NoSession, created'[d] = created'[e]
        PROVE  d = e
    <3>1. created[d] # last' /\ created[e] # last'
      BY <1>2, <1>3
    <3> QED
      BY <1>4, <2>2, <3>1 DEF ListInv, CreationsApart
  <2> QED
    BY <2>1, <2>2 DEF CreationsApart
<1>8. Gone' = Gone /\ Loaded' = Loaded /\ Shown' = Shown
  BY <1>1 DEF Gone, Loaded, Shown
<1>9. \A s \in Session : deleting[s] # "no" => s # last' /\ s <= last'
  BY <1>2 DEF ListInv, DeletionsOfListed, Session
<1>10. DeletionsOfListed'
  <2>1. Gone' \cap rows' = {}
    BY <1>1, <1>8, <1>9 DEF ListInv, DeletionsOfListed, Gone
  <2> QED
    BY <1>1, <1>8, <1>9, <2>1 DEF ListInv, DeletionsOfListed
<1>11. UnansweredThere'
  <2>1. last' \in Session
    BY <1>2 DEF Session
  <2> QED
    BY <1>1, <1>6, <1>9, <2>1 DEF ListInv, UnansweredThere
<1>12. ListTrue'
  BY <1>1, <1>6, <1>8 DEF ListInv, ListTrue
<1> QED
  BY <1>1, <1>5, <1>7, <1>8, <1>10, <1>11, <1>12 DEF ListInv, ActiveSessionListed

LEMMA CreationArrivesKeepsInv ==
  ASSUME ListInv, NEW c \in Creation, CreationArrives(c)
  PROVE  ListInv' /\ session' # NoSession /\ session' = created[c]
<1>0. PICK x : x = created[c]
  OBVIOUS
<1>1. /\ x # NoSession /\ sessions' = <<x>> \o sessions /\ session' = x
      /\ created' = [created EXCEPT ![c] = NoSession] /\ stranded' = FALSE
      /\ UNCHANGED <<rows, last, listing, fetched, sent, deleting, wasActive, untold>>
  BY <1>0 DEF CreationArrives
<1>2. /\ last \in Nat /\ created \in [Creation -> 0..last] /\ sessions \in Seq(1..last)
      /\ x \in 1..last
  BY <1>0, <1>1, ListAssumption DEF ListInv, ListTypeOK, NoSession
<1>3. /\ created' \in [Creation -> 0..last]
      /\ \A d \in Creation : created'[d] = IF d = c THEN NoSession ELSE created[d]
  BY <1>1, <1>2 DEF NoSession
<1>4. /\ sessions' \in Seq(1..last) /\ Shown' = {x} \cup Shown
      /\ IsInjective(sessions) /\ x \notin Shown => IsInjective(sessions')
  BY <1>1, <1>2, PutFirst DEF Shown
<1>5. ListTypeOK'
  <2>1. x \in 0..last
    BY <1>2
  <2> QED
    BY <1>1, <1>3, <1>4, <2>1 DEF ListInv, ListTypeOK
<1>6. Unanswered' = Unanswered \ {x} /\ x \in Unanswered
  <2>1. \A d \in Creation : created[d] = x => d = c
    BY <1>0, <1>1 DEF ListInv, CreationsApart
  <2>2. x \in Unanswered
    BY <1>0, <1>1 DEF Unanswered
  <2>3. ASSUME NEW y PROVE y \in Unanswered' <=> y \in Unanswered \ {x}
    BY <1>0, <1>3, <2>1 DEF Unanswered
  <2> QED
    BY <2>2, <2>3
<1>7. CreationsApart'
  <2>1. ASSUME NEW d \in Creation, NEW e \in Creation,
               created'[d] # NoSession, created'[d] = created'[e]
        PROVE  d = e
    BY <1>3, <2>1 DEF ListInv, CreationsApart
  <2>2. ASSUME NEW d \in sent PROVE created'[d] = NoSession
    BY <1>3, <2>2 DEF ListInv, ListTypeOK, CreationsApart
  <2> QED
    BY <1>1, <2>1, <2>2 DEF CreationsApart
<1>8. Gone' = Gone /\ Loaded' = Loaded
  BY <1>1 DEF Gone, Loaded
<1>9. DeletionsOfListed' /\ UnansweredThere'
  BY <1>1, <1>6, <1>8 DEF ListInv, DeletionsOfListed, UnansweredThere
<1>10. ListTrue'
  <2> SUFFICES ASSUME Loaded, ~ untold
               PROVE  Shown' = (rows \ (Unanswered \ {x})) \cup Gone /\ IsInjective(sessions')
    BY <1>1, <1>6, <1>8 DEF ListTrue
  <2>1. x \in rows /\ x \notin Gone
    BY <1>6 DEF ListInv, UnansweredThere, Gone
  <2>2. Shown = (rows \ Unanswered) \cup Gone /\ IsInjective(sessions)
    BY DEF ListInv, ListTrue
  <2> QED
    BY <1>4, <1>6, <2>1, <2>2
<1>11. ActiveSessionListed'
  BY <1>1, <1>4 DEF ActiveSessionListed
<1> QED
  BY <1>0, <1>1, <1>5, <1>7, <1>9, <1>10, <1>11 DEF ListInv

LEMMA CreationRefusedKeepsInv ==
  ASSUME ListInv, NEW c \in Creation, CreationRefused(c)
  PROVE  ListInv'
<1>1. /\ sent' = sent \ {c}
      /\ UNCHANGED <<rows, last, sessions, session, listing, fetched, created, deleting,
                     wasActive, untold, stranded>>
  BY DEF CreationRefused
<1>2. ListTypeOK'
  BY <1>1 DEF ListInv, ListTypeOK
<1> QED
  BY <1>1, <1>2 DEF ListInv, CreationsApart, Gone, DeletionsOfListed, UnansweredThere,
     Unanswered, ListTrue, Loaded, Shown, ActiveSessionListed

LEMMA CreationFailsKeepsInv ==
  ASSUME ListInv, NEW c \in Creation, CreationFails(c)
  PROVE  ListInv'
<1>1. /\ sent' = sent \ {c} /\ created' = [created EXCEPT ![c] = NoSession]
      /\ untold' = (untold \/ created[c] # NoSession)
      /\ UNCHANGED <<rows, last, sessions, session, listing, fetched, deleting, wasActive, stranded>>
  BY DEF CreationFails
<1>2. /\ last \in Nat /\ created \in [Creation -> 0..last] /\ untold \in BOOLEAN
  BY ListAssumption DEF ListInv, ListTypeOK
<1>3. /\ created' \in [Creation -> 0..last]
      /\ \A d \in Creation : created'[d] = IF d = c THEN NoSession ELSE created[d]
  BY <1>1, <1>2 DEF NoSession
<1>4. ListTypeOK'
  BY <1>1, <1>2, <1>3 DEF ListInv, ListTypeOK
<1>5. CreationsApart'
  <2>1. ASSUME NEW d \in Creation, NEW e \in Creation,
               created'[d] # NoSession, created'[d] = created'[e]
        PROVE  d = e
    BY <1>3, <2>1 DEF ListInv, CreationsApart
  <2>2. ASSUME NEW d \in sent' PROVE created'[d] = NoSession
    BY <1>1, <1>3, <2>2 DEF ListInv, ListTypeOK, CreationsApart
  <2> QED
    BY <2>1, <2>2 DEF CreationsApart
<1>6. ~ untold' => ~ untold /\ Unanswered' = Unanswered
  <2> SUFFICES ASSUME created[c] = NoSession PROVE Unanswered' = Unanswered
    BY <1>1, <1>2
  <2>1. \A d \in Creation : created'[d] = created[d]
    BY <1>3
  <2> QED
    BY <2>1 DEF Unanswered
<1>7. Gone' = Gone /\ Loaded' = Loaded /\ Shown' = Shown
  BY <1>1 DEF Gone, Loaded, Shown
<1>8. DeletionsOfListed' /\ UnansweredThere' /\ ListTrue'
  BY <1>1, <1>6, <1>7 DEF ListInv, DeletionsOfListed, UnansweredThere, ListTrue
<1> QED
  BY <1>1, <1>4, <1>5, <1>7, <1>8 DEF ListInv, ActiveSessionListed

LEMMA ActivateKeepsInv ==
  ASSUME ListInv, NEW s \in {NoSession} \cup Shown, Activate(s)
  PROVE  ListInv'
<1>1. /\ session' = s /\ stranded' = FALSE
      /\ UNCHANGED <<rows, last, sessions, listing, fetched, sent, created, deleting, wasActive, untold>>
  BY DEF Activate, rest
<1>2. session' \in 0..last
  <2>1. last \in Nat /\ Shown \subseteq 1..last
    BY ListAssumption, FirstProperties DEF ListInv, ListTypeOK, Shown
  <2> QED
    BY <1>1, <2>1 DEF NoSession
<1>3. ListTypeOK'
  BY <1>1, <1>2 DEF ListInv, ListTypeOK
<1>4. Shown' = Shown
  BY <1>1 DEF Shown
<1> QED
  BY <1>1, <1>3, <1>4 DEF ListInv, CreationsApart, Gone, DeletionsOfListed, UnansweredThere,
     Unanswered, ListTrue, Loaded, ActiveSessionListed

LEMMA AskDeletionKeepsInv ==
  ASSUME ListInv, NEW s \in Session, AskDeletion(s)
  PROVE  ListInv'
<1>1. /\ Loaded /\ s \in Shown /\ \A t \in Session : deleting[t] = "no"
      /\ deleting' = [deleting EXCEPT ![s] = "sent"]
      /\ wasActive' = wasActive \cup ({s} \cap {session})
      /\ UNCHANGED <<rows, last, sessions, session, listing, fetched, sent, created,
                     untold, stranded>>
  BY DEF AskDeletion
<1>2. /\ deleting' \in [Session -> {"no", "sent", "done"}]
      /\ \A t \in Session : deleting'[t] = IF t = s THEN "sent" ELSE deleting[t]
  BY <1>1 DEF ListInv, ListTypeOK
<1>3. ListTypeOK'
  BY <1>1, <1>2 DEF ListInv, ListTypeOK
<1>4. s <= last
  <2>1. last \in Nat /\ Shown \subseteq 1..last
    BY ListAssumption, FirstProperties DEF ListInv, ListTypeOK, Shown
  <2> QED
    BY <1>1, <2>1
<1>5. Gone = {} /\ Gone' = {}
  BY <1>1, <1>2 DEF Gone
<1>6. Unanswered' = Unanswered /\ Shown' = Shown /\ Loaded' = Loaded
  BY <1>1 DEF Unanswered, Shown, Loaded
<1>7. DeletionsOfListed'
  BY <1>1, <1>2, <1>4, <1>5, <1>6 DEF ListInv, DeletionsOfListed
<1>8. UnansweredThere'
  <2> SUFFICES ASSUME ~ untold PROVE Unanswered \subseteq rows /\ \A t \in Unanswered : deleting'[t] = "no"
    BY <1>1, <1>6 DEF UnansweredThere
  <2>1. s \notin Unanswered
    BY <1>1, <1>5 DEF ListInv, ListTrue
  <2>2. Unanswered \subseteq Session
    <3>1. /\ last \in 0..MaxIds /\ MaxIds \in Nat /\ created \in [Creation -> 0..last]
      BY ListAssumption DEF ListInv, ListTypeOK
    <3> QED
      BY <3>1 DEF Unanswered, Session, NoSession
  <2> QED
    BY <1>2, <2>1, <2>2 DEF ListInv, UnansweredThere
<1>9. ListTrue' /\ CreationsApart'
  BY <1>1, <1>5, <1>6 DEF ListInv, ListTrue, CreationsApart
<1> QED
  BY <1>1, <1>3, <1>6, <1>7, <1>8, <1>9 DEF ListInv, ActiveSessionListed

LEMMA DeleteRowKeepsInv ==
  ASSUME ListInv, NEW s \in Session, DeleteRow(s)
  PROVE  ListInv'
<1>1. /\ deleting[s] = "sent" /\ s \in rows /\ rows' = rows \ {s}
      /\ deleting' = [deleting EXCEPT ![s] = "done"]
      /\ UNCHANGED <<last, sessions, session, listing, fetched, sent, created, wasActive,
                     untold, stranded>>
  BY DEF DeleteRow
<1>2. /\ deleting' \in [Session -> {"no", "sent", "done"}]
      /\ \A t \in Session : deleting'[t] = IF t = s THEN "done" ELSE deleting[t]
  BY <1>1 DEF ListInv, ListTypeOK
<1>3. ListTypeOK'
  BY <1>1, <1>2 DEF ListInv, ListTypeOK
<1>4. Gone' = Gone \cup {s}
  BY <1>2 DEF Gone
<1>5. Unanswered' = Unanswered /\ Shown' = Shown /\ Loaded' = Loaded
  BY <1>1 DEF Unanswered, Shown, Loaded
<1>6. ~ untold => s \notin Unanswered
  BY <1>1 DEF ListInv, UnansweredThere
<1>7. DeletionsOfListed'
  BY <1>1, <1>2, <1>4, <1>5 DEF ListInv, DeletionsOfListed
<1>8. UnansweredThere'
  <2>1. /\ last \in 0..MaxIds /\ MaxIds \in Nat /\ created \in [Creation -> 0..last]
    BY ListAssumption DEF ListInv, ListTypeOK
  <2>2. Unanswered \subseteq Session
    BY <2>1 DEF Unanswered, Session, NoSession
  <2> QED
    BY <1>1, <1>2, <1>5, <1>6, <2>2 DEF ListInv, UnansweredThere
<1>9. ListTrue'
  BY <1>1, <1>4, <1>5, <1>6 DEF ListInv, ListTrue
<1>10. CreationsApart'
  BY <1>1 DEF ListInv, CreationsApart
<1> QED
  BY <1>1, <1>3, <1>5, <1>7, <1>8, <1>9, <1>10 DEF ListInv, ActiveSessionListed

LEMMA DeletionArrivesKeepsInv ==
  ASSUME ListInv, NEW s \in Session, DeletionArrives(s)
  PROVE  ListInv'
<1> DEFINE remaining == Without(s, sessions)
<1>1. /\ deleting[s] = "done" /\ sessions' = remaining
      /\ session' = (IF s \in wasActive THEN FirstOf(remaining) ELSE session)
      /\ stranded' = (session' = s \/ (stranded /\ session' = session))
      /\ deleting' = [deleting EXCEPT ![s] = "no"]
      /\ wasActive' = wasActive \ {s}
      /\ UNCHANGED <<rows, last, listing, fetched, sent, created, untold>>
  BY DEF DeletionArrives
<1>2. /\ last \in Nat /\ session \in 0..last /\ sessions \in Seq(1..last)
      /\ stranded \in BOOLEAN
  BY ListAssumption DEF ListInv, ListTypeOK
<1>3. /\ remaining \in Seq(1..last) /\ ToSet(remaining) = Shown \ {s}
      /\ IsInjective(sessions) => IsInjective(remaining)
  BY <1>2, WithoutProperties DEF Shown
<1> HIDE DEF remaining
<1>4. /\ ToSet(remaining) \subseteq 1..last
      /\ FirstOf(remaining) = NoSession \/ FirstOf(remaining) \in ToSet(remaining)
  BY <1>3, FirstProperties
<1>5. /\ deleting' \in [Session -> {"no", "sent", "done"}]
      /\ \A t \in Session : deleting'[t] = IF t = s THEN "no" ELSE deleting[t]
  BY <1>1 DEF ListInv, ListTypeOK
<1>6. Shown' = Shown \ {s} /\ Gone' = Gone \ {s} /\ Unanswered' = Unanswered /\ Loaded' = Loaded
  BY <1>1, <1>3, <1>5 DEF Shown, Gone, Unanswered, Loaded
<1>7. session' \in 0..last
  BY <1>1, <1>2, <1>4 DEF NoSession
<1>8. ListTypeOK'
  <2>1. stranded' \in BOOLEAN
    BY <1>1
  <2> QED
    BY <1>1, <1>3, <1>5, <1>7, <2>1 DEF ListInv, ListTypeOK
<1>9. DeletionsOfListed' /\ CreationsApart'
  BY <1>1, <1>5, <1>6 DEF ListInv, DeletionsOfListed, CreationsApart
<1>10. UnansweredThere'
  <2>1. /\ last \in 0..MaxIds /\ MaxIds \in Nat /\ created \in [Creation -> 0..last]
    BY ListAssumption DEF ListInv, ListTypeOK
  <2>2. Unanswered \subseteq Session
    BY <2>1 DEF Unanswered, Session, NoSession
  <2> QED
    BY <1>1, <1>5, <1>6, <2>2 DEF ListInv, UnansweredThere
<1>11. ListTrue'
  <2>1. s \in Gone /\ s \notin rows
    BY <1>1 DEF ListInv, DeletionsOfListed, Gone
  <2> QED
    BY <1>1, <1>3, <1>6, <2>1 DEF ListInv, ListTrue
<1>12. ActiveSessionListed'
  <2> SUFFICES ASSUME listing = "done", session' # NoSession, ~ stranded' PROVE session' \in Shown \ {s}
    BY <1>1, <1>6 DEF ActiveSessionListed
  <2>1. CASE s \in wasActive
    BY <1>1, <1>3, <1>4, <2>1
  <2>2. CASE s \notin wasActive
    BY <1>1, <1>2, <2>2 DEF ListInv, ActiveSessionListed
  <2> QED
    BY <2>1, <2>2
<1> QED
  BY <1>1, <1>8, <1>9, <1>10, <1>11, <1>12 DEF ListInv

LEMMA DeletionFailsKeepsInv ==
  ASSUME ListInv, NEW s \in Session, DeletionFails(s)
  PROVE  ListInv'
<1>1. /\ deleting[s] # "no" /\ deleting' = [deleting EXCEPT ![s] = "no"]
      /\ wasActive' = wasActive \ {s}
      /\ untold' = (untold \/ deleting[s] = "done")
      /\ UNCHANGED <<rows, last, sessions, session, listing, fetched, sent, created, stranded>>
  BY DEF DeletionFails
<1>2. /\ deleting' \in [Session -> {"no", "sent", "done"}] /\ untold \in BOOLEAN
      /\ \A t \in Session : deleting'[t] = IF t = s THEN "no" ELSE deleting[t]
  BY <1>1 DEF ListInv, ListTypeOK
<1>3. ListTypeOK'
  BY <1>1, <1>2 DEF ListInv, ListTypeOK
<1>4. Gone' = Gone \ {s} /\ Unanswered' = Unanswered /\ Shown' = Shown /\ Loaded' = Loaded
  BY <1>1, <1>2 DEF Gone, Unanswered, Shown, Loaded
<1>5. DeletionsOfListed' /\ CreationsApart'
  BY <1>1, <1>2, <1>4 DEF ListInv, DeletionsOfListed, CreationsApart
<1>6. UnansweredThere'
  <2>1. /\ last \in 0..MaxIds /\ MaxIds \in Nat /\ created \in [Creation -> 0..last]
    BY ListAssumption DEF ListInv, ListTypeOK
  <2>2. Unanswered \subseteq Session
    BY <2>1 DEF Unanswered, Session, NoSession
  <2> QED
    BY <1>1, <1>2, <1>4, <2>2 DEF ListInv, UnansweredThere
<1>7. ~ untold' => ~ untold /\ Gone' = Gone
  BY <1>1, <1>2, <1>4 DEF Gone
<1>8. ListTrue'
  BY <1>1, <1>4, <1>7 DEF ListInv, ListTrue
<1> QED
  BY <1>1, <1>3, <1>4, <1>5, <1>6, <1>8 DEF ListInv, ActiveSessionListed

\* A step of the page alone.
LEMMA ListStaysKeepsInv ==
  ASSUME ListInv, UNCHANGED list
  PROVE  ListInv' /\ \A n \in Audit : Creating(n)' = Creating(n)
<1>1. /\ UNCHANGED <<rows, last, sessions, session, listing, fetched, sent, created, deleting>>
      /\ UNCHANGED <<wasActive, untold, stranded>>
  BY DEF list, rest
<1>2. ListTypeOK'
  BY <1>1 DEF ListInv, ListTypeOK
<1> QED
  BY <1>1, <1>2 DEF ListInv, CreationsApart, Gone, DeletionsOfListed, UnansweredThere,
     Unanswered, ListTrue, Loaded, Shown, ActiveSessionListed, Creating

LEMMA ListStepKeepsInv ==
  ASSUME ListInv, ListStep
  PROVE  ListInv'
<1>0. Sidebar \in Creation
  BY ListAssumption DEF Sidebar, Creation
<1>1. CASE ReadList
  BY <1>1, ReadListKeepsInv
<1>2. CASE ListArrives
  BY <1>2, ListArrivesKeepsInv
<1>3. CASE ListFails
  BY <1>3, ListFailsKeepsInv
<1>4. CASE PressCreate
  BY <1>0, <1>4, AskForSessionKeepsInv DEF PressCreate
<1>5. CASE \E c \in Creation : InsertRow(c)
  BY <1>5, InsertRowKeepsInv
<1>6. CASE CreationArrives(Sidebar)
  BY <1>0, <1>6, CreationArrivesKeepsInv
<1>7. CASE CreationRefused(Sidebar)
  BY <1>0, <1>7, CreationRefusedKeepsInv
<1>8. CASE CreationFails(Sidebar)
  BY <1>0, <1>8, CreationFailsKeepsInv
<1>9. CASE NewSession
  BY <1>9, ActivateKeepsInv DEF NewSession
<1>10. CASE PickSession
  BY <1>10, ActivateKeepsInv DEF PickSession
<1>11. ASSUME NEW s \in Session,
              AskDeletion(s) \/ DeleteRow(s) \/ DeletionArrives(s) \/ DeletionFails(s)
       PROVE  ListInv'
  BY <1>11, AskDeletionKeepsInv, DeleteRowKeepsInv, DeletionArrivesKeepsInv, DeletionFailsKeepsInv
<1> QED
  BY <1>1, <1>2, <1>3, <1>4, <1>5, <1>6, <1>7, <1>8, <1>9, <1>10, <1>11 DEF ListStep

\* The creations of the audits are begun and answered by the page alone.
LEMMA ListStepKeepsCreations ==
  ASSUME ListInv, ListStep
  PROVE  last <= last' /\ \A n \in Audit : Creating(n)' = Creating(n)
<1>0. /\ last \in Nat /\ MaxAudits \in Nat /\ created \in [Creation -> 0..last]
      /\ \A n \in Audit : n # Sidebar /\ n \in Creation
  BY ListAssumption DEF ListInv, ListTypeOK, Sidebar, Creation, Audit
<1>1. CASE UNCHANGED <<last, sent, created>>
  BY <1>0, <1>1 DEF Creating
<1>2. CASE PressCreate
  BY <1>0, <1>2 DEF PressCreate, AskForSession, Creating
<1>3. CASE CreationArrives(Sidebar)
  BY <1>0, <1>3 DEF CreationArrives, Creating
<1>4. CASE CreationRefused(Sidebar)
  BY <1>0, <1>4 DEF CreationRefused, Creating
<1>5. CASE CreationFails(Sidebar)
  BY <1>0, <1>5 DEF CreationFails, Creating
<1>6. ASSUME NEW c \in Creation, InsertRow(c)
      PROVE  last <= last' /\ \A n \in Audit : Creating(n)' = Creating(n)
  <2>1. last' = last + 1 /\ c \in sent /\ sent' = sent \ {c}
        /\ created' = [created EXCEPT ![c] = last']
    BY <1>6 DEF InsertRow
  <2>2. last' # NoSession
    BY <1>0, <2>1 DEF NoSession
  <2> QED
    BY <1>0, <2>1, <2>2 DEF Creating
<1>7. CASE ReadList
  BY <1>1, <1>7 DEF ReadList
<1>8. CASE ListArrives
  BY <1>1, <1>8 DEF ListArrives
<1>9. CASE ListFails
  BY <1>1, <1>9 DEF ListFails
<1>10. CASE NewSession \/ PickSession
  BY <1>1, <1>10 DEF NewSession, PickSession, Activate, rest
<1>11. ASSUME NEW s \in Session,
              AskDeletion(s) \/ DeleteRow(s) \/ DeletionArrives(s) \/ DeletionFails(s)
       PROVE  UNCHANGED <<last, sent, created>>
  <2>1. AskDeletion(s) => UNCHANGED <<last, sent, created>>
    BY DEF AskDeletion
  <2>2. DeleteRow(s) => UNCHANGED <<last, sent, created>>
    BY DEF DeleteRow
  <2>3. DeletionArrives(s) => UNCHANGED <<last, sent, created>>
    BY DEF DeletionArrives
  <2>4. DeletionFails(s) => UNCHANGED <<last, sent, created>>
    BY DEF DeletionFails
  <2> QED
    BY <1>11, <2>1, <2>2, <2>3, <2>4
<1> QED
  BY <1>1, <1>2, <1>3, <1>4, <1>5, <1>6, <1>7, <1>8, <1>9, <1>10, <1>11 DEF ListStep

LEMMA ListInitEstablishesInv ==
  ASSUME ListInit
  PROVE  ListInv
<1>1. /\ last \in Earlier /\ rows \in SUBSET (1..last) /\ session \in 0..last
      /\ sessions = <<>> /\ listing = "asked" /\ fetched = <<>> /\ sent = {}
      /\ created = [c \in Creation |-> NoSession] /\ deleting = [s \in Session |-> "no"]
      /\ wasActive = {} /\ untold = FALSE /\ stranded = FALSE
  BY DEF ListInit
<1>2. last \in 0..MaxIds /\ last \in Nat
  BY <1>1, ListAssumption
<1>3. <<>> \in Seq(1..last) /\ DOMAIN <<>> = {}
  OBVIOUS
<1>4. created \in [Creation -> 0..last] /\ Unanswered = {}
  BY <1>1, <1>2 DEF NoSession, Unanswered
<1>5. ListTypeOK
  BY <1>1, <1>2, <1>3, <1>4 DEF ListTypeOK
<1>6. Gone = {} /\ ~ Loaded /\ IsInjective(fetched)
  BY <1>1, <1>3 DEF Gone, Loaded, IsInjective
<1>7. CreationsApart
  BY <1>1, <1>4 DEF CreationsApart
<1> QED
  BY <1>1, <1>4, <1>5, <1>6, <1>7 DEF ListInv, DeletionsOfListed, UnansweredThere, ListTrue,
     ActiveSessionListed

-----------------------------------------------------------------------------
(* The page *)

\* Audits are taken in turn, and one whose session is being created has not begun.
AuditsInTurn ==
  /\ \A n \in Audit : n > audits => stage[n] = "none" /\ ~ Creating(n)
  /\ \A n \in Audit : Creating(n) => stage[n] = "none"
  /\ \A n \in Audit : stage[n] = "none" => target[n] = NoSession

\* A stream is that of a session: of the active one, until it is aborted.
StreamsOfSession ==
  /\ \A n \in Audit : Running(n) => target[n] # NoSession
  /\ \A n \in Audit : Running(n) /\ n \notin aborted => target[n] = session
  /\ current # 0 => target[current] # NoSession

Live(n) == Running(n) /\ n \notin aborted
Answered(n) == stage[n] \in {"closing", "ended"}

\* An answer is that of a session; when it was not fetched its stream has come to
\* its done event.
AnswersOfDone ==
  \A i \in DOMAIN messages :
    messages[i].role = "assistant" =>
      /\ messages[i].of # NoSession
      /\ ~ messages[i].fetched => messages[i].audit \in Audit /\ Answered(messages[i].audit)

\* A history is not fetched beside a stream unless the stream was started after
\* the fetch, and it does not hold the answer of the stream unless it was.
FetchedBesideStream ==
  \A i \in DOMAIN messages :
    /\ messages[i].role = "assistant" /\ messages[i].fetched
    /\ messages[i].audit \in Audit /\ Live(messages[i].audit)
    => messages[i].audit \in raced

FetchBesideStream == loading # NoSession => \A n \in Audit : Live(n) => n \in raced

Conversation ==
  /\ messages \in Seq(Message)
  /\ AnswersOfDone
  /\ AnswersOfThisSession
  /\ FetchedBesideStream

PageInv ==
  /\ ListInv
  /\ TypeOK
  /\ AuditsInTurn
  /\ StreamsOfSession
  /\ Conversation
  /\ FetchBesideStream
  /\ TokensOfThisStream
  /\ ErrorOfThisStream

\* The first messages of a conversation, possibly all of them.
Shortens(k, m) ==
  /\ k \in Seq(Message)
  /\ DOMAIN k \subseteq DOMAIN m
  /\ \A i \in DOMAIN k : k[i] = m[i]

LEMMA ShorterConversations ==
  ASSUME NEW m \in Seq(Message)
  PROVE  Shortens(m, m) /\ Shortens(<<>>, m) /\ Shortens(DropLast(m), m) /\ Shortens(Rollback(m), m)
<1>1. Shortens(m, m)
  BY DEF Shortens
<1>2. Shortens(<<>>, m)
  <2>1. <<>> \in Seq(Message) /\ DOMAIN <<>> = {}
    OBVIOUS
  <2> QED
    BY <2>1 DEF Shortens
<1>3. ASSUME m # <<>> PROVE Shortens(Front(m), m)
  <2>1. /\ Len(m) \in Nat \ {0} /\ DOMAIN m = 1..Len(m)
        /\ \A i \in 1..Len(m) : m[i] \in Message
    BY <1>3, EmptySeq, LenProperties, ElementOfSeq
  <2>2. Len(m) - 1 \in Nat
    BY <2>1
  <2>3. Front(m) = [i \in 1..(Len(m) - 1) |-> m[i]]
    BY <2>1 DEF Front
  <2>4. Front(m) \in Seq(Message) /\ DOMAIN Front(m) = 1..(Len(m) - 1)
    BY <2>1, <2>2, <2>3
  <2> QED
    BY <2>1, <2>2, <2>3, <2>4 DEF Shortens
<1> QED
  BY <1>1, <1>2, <1>3 DEF DropLast, Rollback

LEMMA ShortensTwice ==
  ASSUME NEW k, NEW l, NEW m, Shortens(k, l), Shortens(l, m)
  PROVE  Shortens(k, m)
BY DEF Shortens

\* A step that stays in the session, and of the audits sent to one starts none and
\* takes back nothing.
AnswersKept ==
  /\ session' = session /\ raced \subseteq raced'
  /\ \A n \in Audit : target[n] # NoSession =>
       /\ target'[n] = target[n]
       /\ Answered(n) => Answered(n)'
       /\ Live(n)' => Live(n)

\* What Conversation says of one answer, and of two.
LEMMA AnswersInConversation ==
  ASSUME Conversation, NEW i \in DOMAIN messages, messages[i].role = "assistant"
  PROVE  /\ messages[i] \in Message
         /\ messages[i].of # NoSession /\ messages[i].of = session
         /\ messages[i].audit # 0 =>
              messages[i].audit \in Audit /\ target[messages[i].audit] = session
         /\ ~ messages[i].fetched => messages[i].audit \in Audit /\ Answered(messages[i].audit)
         /\ messages[i].fetched /\ messages[i].audit \in Audit /\ Live(messages[i].audit)
              => messages[i].audit \in raced
<1>1. messages[i] \in Message
  BY ElementOfSeq, LenProperties DEF Conversation
<1>2. messages[i].audit # 0 => messages[i].audit \in Audit
  BY <1>1, ListAssumption DEF Message, Audit
<1> QED
  BY <1>1, <1>2 DEF Conversation, AnswersOfDone, AnswersOfThisSession, FetchedBesideStream

\* What it says of an answer e stays true of it.
LEMMA AnswerKept ==
  ASSUME Conversation, AnswersKept, NEW i \in DOMAIN messages, NEW e, e = messages[i], e.role = "assistant"
  PROVE  /\ e.of # NoSession /\ e.of = session'
         /\ e.audit # 0 => target'[e.audit] = session'
         /\ ~ e.fetched => e.audit \in Audit /\ Answered(e.audit)'
         /\ e.fetched /\ e.audit \in Audit /\ Live(e.audit)' => e.audit \in raced'
<1>1. PICK n : n = e.audit
  OBVIOUS
<1>2. /\ e.of # NoSession /\ e.of = session
      /\ n # 0 => n \in Audit /\ target[n] = session
      /\ ~ e.fetched => n \in Audit /\ Answered(n)
      /\ e.fetched /\ n \in Audit /\ Live(n) => n \in raced
  BY <1>1, AnswersInConversation
<1>3. \A m \in Audit : m # 0
  BY ListAssumption DEF Audit
<1>4. session' = session /\ session # NoSession /\ raced \subseteq raced'
  BY <1>2 DEF AnswersKept
<1>5. ASSUME n \in Audit
      PROVE  target'[n] = session /\ (Answered(n) => Answered(n)') /\ (Live(n)' => Live(n))
  <2>1. target[n] = session
    BY <1>2, <1>3, <1>5
  <2> QED
    BY <1>4, <1>5, <2>1 DEF AnswersKept
<1>6. /\ ~ e.fetched => n \in Audit /\ Answered(n)'
      /\ e.fetched /\ n \in Audit /\ Live(n)' => n \in raced'
  BY <1>2, <1>4, <1>5
<1> QED
  BY <1>1, <1>2, <1>4, <1>5, <1>6

\* A conversation that loses its end while no answer of it changes.
LEMMA ShorterConversationKept ==
  ASSUME Conversation, Shortens(messages', messages), AnswersKept
  PROVE  Conversation'
<1>1. messages' \in Seq(Message) /\ DOMAIN messages' \subseteq DOMAIN messages
      /\ \A i \in DOMAIN messages' : messages'[i] = messages[i]
  BY DEF Shortens
<1>2. raced \subseteq raced'
  BY DEF AnswersKept
<1>3. ASSUME NEW i \in DOMAIN messages', NEW e, e = messages'[i], e.role = "assistant"
      PROVE  /\ e.of # NoSession /\ e.of = session'
             /\ e.audit # 0 => target'[e.audit] = session'
             /\ ~ e.fetched => e.audit \in Audit /\ Answered(e.audit)'
             /\ e.fetched /\ e.audit \in Audit /\ Live(e.audit)' => e.audit \in raced'
  BY <1>1, <1>3, AnswerKept
<1>4. AnswersOfDone' /\ FetchedBesideStream'
  BY <1>3 DEF AnswersOfDone, FetchedBesideStream, Answered, Live, Running
<1>5. AnswersOfThisSession'
  <2>1. ASSUME NEW i \in DOMAIN messages', messages'[i].role = "assistant"
        PROVE  /\ messages'[i].of = session'
               /\ messages'[i].audit # 0 => target'[messages'[i].audit] = session'
    BY <1>3, <2>1
  <2>2. ASSUME NEW i \in DOMAIN messages', NEW j \in DOMAIN messages',
               i # j, messages'[i].audit = messages'[j].audit,
               messages'[i].role = "assistant", messages'[j].role = "assistant",
               ~ messages'[i].fetched
        PROVE  messages'[j].fetched /\ messages'[j].audit \in raced'
    <3>1. messages[j].fetched /\ messages[j].audit \in raced
      BY <1>1, <2>2 DEF Conversation, AnswersOfThisSession
    <3> QED
      BY <1>1, <1>2, <3>1
  <2> QED
    BY <2>1, <2>2 DEF AnswersOfThisSession
<1> QED
  BY <1>1, <1>4, <1>5 DEF Conversation

\* What the type invariant says of the constants and of one audit.
LEMMA AuditTypes ==
  ASSUME PageInv
  PROVE  /\ MaxAudits \in Nat /\ audits \in Nat /\ 0..MaxAudits = {0} \cup Audit
         /\ audits \in 0..MaxAudits /\ last \in Nat /\ session \in 0..last
         /\ stage \in [Audit -> Stage] /\ target \in [Audit -> 0..last] /\ aborted \subseteq Audit
         /\ tokens \in Seq(Audit) /\ error \in 0..audits /\ current \in 0..audits
         /\ loading \in {NoSession, session} /\ messages \in Seq(Message)
         /\ skipNextFetch \in BOOLEAN /\ raced \subseteq Audit
         /\ status \in {"idle", "connecting", "streaming", "complete", "error"}
         /\ \A i \in DOMAIN tokens : tokens[i] \in Audit
<1>1. MaxAudits \in Nat /\ audits \in 0..MaxAudits /\ last \in 0..MaxIds /\ MaxIds \in Nat
  BY ListAssumption DEF PageInv, TypeOK, ListTypeOK
<1>2. tokens \in Seq(Audit)
  BY DEF PageInv, TypeOK
<1>3. \A i \in DOMAIN tokens : tokens[i] \in Audit
  BY <1>2, ElementOfSeq, LenProperties
<1> QED
  BY <1>1, <1>2, <1>3 DEF PageInv, TypeOK, ListTypeOK, Audit

\* Only the stage of audit n changes, and it does not begin a stream: a step
\* with which its creation fails or its stream goes on or ends.
LEMMA StageMoves ==
  ASSUME PageInv, ListInv', NEW n \in Audit, NEW x \in Stage \ {"none", "fetching"},
         stage' = [stage EXCEPT ![n] = x],
         UNCHANGED <<last, session, tokens, current, target, fetch, audits>>,
         \A m \in Audit : Creating(m)' => Creating(m) /\ m # n,
         \/ Running(n) /\ ~ Creating(n)
         \/ Creating(n) /\ x \notin {"reading", "refused", "closing"},
         \/ aborted' = aborted
         \/ aborted' = aborted \ {n} /\ x \notin {"reading", "refused", "closing"},
         \/ error' = error
         \/ /\ error' = n
            /\ \/ x = "declined"
               \/ x = "ended" /\ (Creating(n) \/ n \notin aborted),
         status' \in {"idle", "connecting", "streaming", "complete", "error"},
         Conversation'
  PROVE  PageInv'
<1>1. /\ MaxAudits \in Nat /\ audits \in Nat /\ 0..MaxAudits = {0} \cup Audit
      /\ audits \in 0..MaxAudits
      /\ stage \in [Audit -> Stage] /\ target \in [Audit -> 0..last] /\ aborted \subseteq Audit
      /\ tokens \in Seq(Audit) /\ error \in 0..audits /\ current \in 0..audits
      /\ loading \in {NoSession, session} /\ skipNextFetch \in BOOLEAN /\ raced \subseteq Audit
      /\ \A i \in DOMAIN tokens : tokens[i] \in Audit
      /\ UNCHANGED <<loading, skipNextFetch, raced>>
  BY AuditTypes DEF fetch
<1>2. /\ stage' \in [Audit -> Stage]
      /\ \A m \in Audit : stage'[m] = IF m = n THEN x ELSE stage[m]
      /\ aborted' \subseteq Audit
  BY <1>1
<1>3. stage[n] \in {"none", "fetching", "refused", "reading", "closing"} /\ n <= audits /\ n \in 1..audits
  <2>1. Running(n) \/ Creating(n)
    OBVIOUS
  <2>2. n \in Nat /\ n # 0 /\ (n > audits => stage[n] = "none" /\ ~ Creating(n))
    BY <1>1 DEF PageInv, AuditsInTurn, Audit
  <2> QED
    BY <1>1, <2>1, <2>2 DEF PageInv, AuditsInTurn, Running
<1>4. TypeOK'
  <2>1. error' \in 0..audits'
    BY <1>1, <1>3
  <2>2. ListTypeOK' /\ messages' \in Seq(Message)
    BY DEF ListInv, Conversation
  <2> QED
    BY <1>1, <1>2, <2>1, <2>2 DEF TypeOK
<1>5. AuditsInTurn'
  <2>1. ASSUME NEW m \in Audit
        PROVE  /\ m > audits' => stage'[m] = "none" /\ ~ Creating(m)'
               /\ Creating(m)' => stage'[m] = "none"
               /\ stage'[m] = "none" => target'[m] = NoSession
    <3>1. CASE m = n
      <4>1. x # "none" /\ ~ Creating(n)' /\ ~ n > audits'
        BY <1>1, <1>3
      <4> QED
        BY <1>2, <3>1, <4>1
    <3>2. CASE m # n
      BY <1>2, <3>2 DEF PageInv, AuditsInTurn
    <3> QED
      BY <3>1, <3>2
  <2> QED
    BY <2>1 DEF AuditsInTurn
<1>6. \A m \in Audit : /\ Running(m)' => Running(m)
                       /\ Running(m)' /\ m \notin aborted' => m \notin aborted
  <2>1. ~ Running(n) => ~ Running(n)'
    BY <1>2, <1>3 DEF PageInv, AuditsInTurn, Running, Stage
  <2>2. x \notin {"reading", "refused", "closing"} => ~ Running(n)'
    BY <1>2 DEF Running
  <2> QED
    BY <1>2, <2>1, <2>2 DEF Running
<1>7. StreamsOfSession'
  BY <1>6 DEF PageInv, StreamsOfSession
<1>8. TokensOfThisStream'
  BY <1>6 DEF PageInv, TokensOfThisStream
<1>9. ErrorOfThisStream'
  <2>1. CASE error' = error
    <3>1. error # 0 => error \in Audit
      BY <1>1 DEF Audit
    <3> QED
      BY <1>2, <1>3, <2>1, <3>1 DEF PageInv, ErrorOfThisStream
  <2>2. CASE error' = n /\ x = "declined"
    BY <1>2, <2>2 DEF ErrorOfThisStream
  <2>3. CASE error' = n /\ x = "ended" /\ Creating(n)
    BY <2>3 DEF PageInv, AuditsInTurn, ErrorOfThisStream
  <2>4. CASE error' = n /\ x = "ended" /\ n \notin aborted /\ Running(n)
    <3>1. n = current /\ target[n] = session
      BY <2>4 DEF PageInv, TokensOfThisStream, StreamsOfSession
    <3> QED
      BY <1>2, <2>4, <3>1 DEF ErrorOfThisStream
  <2> QED
    BY <2>1, <2>2, <2>3, <2>4
<1>10. FetchBesideStream'
  BY <1>1, <1>6 DEF PageInv, FetchBesideStream, Live
<1> QED
  BY <1>4, <1>5, <1>7, <1>8, <1>9, <1>10 DEF PageInv

LEMMA ErrorShown ==
  ASSUME PageInv, NEW n, NEW k, Shortens(k, messages), ShowError(n, k)
  PROVE  /\ status' = "error" /\ tokens' = tokens /\ error' = n
         /\ Shortens(messages', messages)
<1>1. k \in Seq(Message)
  BY DEF Shortens
<1>2. Shortens(Rollback(k), k)
  BY <1>1, ShorterConversations
<1>3. Shortens(Rollback(k), messages)
  BY <1>2, ShortensTwice
<1> QED
  BY <1>3 DEF ShowError, Show

\* A stream that goes on to its done event, or ends, takes back no answer.
LEMMA StageMovesKeepsAnswers ==
  ASSUME PageInv, NEW n \in Audit, NEW x, stage' = [stage EXCEPT ![n] = x],
         UNCHANGED <<session, target, fetch>>,
         \/ Running(n) /\ aborted' = aborted
         \/ x \notin {"fetching", "reading", "refused", "closing"} /\ aborted \subseteq aborted' \cup {n},
         x \in {"closing", "ended"} \/ stage[n] \notin {"closing", "ended"}
  PROVE  AnswersKept
<1>1. stage \in [Audit -> Stage] /\ session' = session /\ target' = target /\ raced' = raced
  BY AuditTypes DEF fetch
<1>2. \A m \in Audit : stage'[m] = IF m = n THEN x ELSE stage[m]
  BY <1>1
<1>3. \A m \in Audit : Answered(m) => Answered(m)'
  BY <1>2 DEF Answered
<1>4. \A m \in Audit : Live(m)' => Live(m)
  BY <1>2 DEF Live, Running
<1> QED
  BY <1>1, <1>3, <1>4 DEF AnswersKept

LEMMA StageMovesKeepsConversation ==
  ASSUME PageInv, AnswersKept, Shortens(messages', messages)
  PROVE  Conversation'
BY ShorterConversationKept DEF PageInv

\* Creating, before and after a creation of an audit that fails.
LEMMA CreationEnds ==
  ASSUME PageInv, NEW n \in Audit, CreationRefused(n) \/ CreationFails(n)
  PROVE  /\ ListInv' /\ UNCHANGED <<last, session>>
         /\ Creating(n) /\ \A m \in Audit : Creating(m)' => Creating(m) /\ m # n
<1>1. n \in Creation /\ Audit \subseteq Creation /\ ListInv
  BY ListAssumption DEF Creation, Audit, PageInv
<1>2. created \in [Creation -> 0..last]
  BY <1>1 DEF ListInv, ListTypeOK
<1>3. CASE CreationRefused(n)
  <2>1. n \in sent /\ sent' = sent \ {n} /\ UNCHANGED <<last, session, created>>
    BY <1>3 DEF CreationRefused
  <2>2. created[n] = NoSession
    BY <1>1, <2>1 DEF ListInv, CreationsApart
  <2> QED
    BY <1>1, <1>3, <2>1, <2>2, CreationRefusedKeepsInv DEF Creating
<1>4. CASE CreationFails(n)
  <2>1. /\ Creating(n) /\ sent' = sent \ {n} /\ created' = [created EXCEPT ![n] = NoSession]
        /\ UNCHANGED <<last, session>>
    BY <1>4 DEF CreationFails
  <2> QED
    BY <1>1, <1>2, <1>4, <2>1, CreationFailsKeepsInv DEF Creating
<1> QED
  BY <1>3, <1>4

LEMMA SessionLimitReachedKeepsInv ==
  ASSUME PageInv, NEW n \in Audit, SessionLimitReached(n)
  PROVE  PageInv'
<1>1. /\ CreationRefused(n) /\ stage' = [stage EXCEPT ![n] = "silent"]
      /\ messages' = DropLast(messages)
      /\ UNCHANGED <<status, tokens, error, current, target, aborted, fetch, audits>>
  BY DEF SessionLimitReached
<1>2. /\ ListInv' /\ UNCHANGED <<last, session>>
      /\ Creating(n) /\ \A m \in Audit : Creating(m)' => Creating(m) /\ m # n
  BY <1>1, CreationEnds
<1>3. "silent" \in Stage \ {"none", "fetching"} /\ stage[n] = "none"
  BY <1>2 DEF Stage, PageInv, AuditsInTurn
<1>4. Conversation'
  <2>1. Shortens(messages', messages)
    BY <1>1, AuditTypes, ShorterConversations
  <2>2. AnswersKept
    BY <1>1, <1>2, <1>3, StageMovesKeepsAnswers
  <2> QED
    BY <2>1, <2>2, StageMovesKeepsConversation
<1>5. status' \in {"idle", "connecting", "streaming", "complete", "error"}
  BY <1>1, AuditTypes
<1> QED
  BY <1>1, <1>2, <1>3, <1>4, <1>5, StageMoves

LEMMA SessionNotCreatedKeepsInv ==
  ASSUME PageInv, NEW n \in Audit, SessionNotCreated(n)
  PROVE  PageInv'
<1>1. /\ CreationFails(n) /\ stage' = [stage EXCEPT ![n] = "ended"]
      /\ ShowError(n, DropLast(messages))
      /\ UNCHANGED <<current, target, aborted, fetch, audits>>
  BY DEF SessionNotCreated
<1>2. /\ ListInv' /\ UNCHANGED <<last, session>>
      /\ Creating(n) /\ \A m \in Audit : Creating(m)' => Creating(m) /\ m # n
  BY <1>1, CreationEnds
<1>3. "ended" \in Stage \ {"none", "fetching"} /\ stage[n] = "none"
  BY <1>2 DEF Stage, PageInv, AuditsInTurn
<1>4. /\ status' = "error" /\ tokens' = tokens /\ error' = n
      /\ Shortens(messages', messages)
  <2>1. Shortens(DropLast(messages), messages)
    BY AuditTypes, ShorterConversations
  <2> QED
    BY <1>1, <2>1, ErrorShown
<1>5. Conversation'
  <2>1. AnswersKept
    BY <1>1, <1>2, <1>3, StageMovesKeepsAnswers
  <2> QED
    BY <1>4, <2>1, StageMovesKeepsConversation
<1> QED
  BY <1>1, <1>2, <1>3, <1>4, <1>5, StageMoves

\* What runs has begun, has not ended and waits for no session.
LEMMA RunningAudit ==
  ASSUME PageInv, NEW n \in Audit, stage[n] \in {"fetching", "refused", "reading", "closing"}
  PROVE  Running(n) /\ ~ Creating(n) /\ stage[n] # "ended" /\ stage[n] # "none"
BY DEF Running, PageInv, AuditsInTurn

LEMMA ListStays ==
  ASSUME PageInv, UNCHANGED list
  PROVE  /\ ListInv' /\ UNCHANGED <<last, session>>
         /\ \A m \in Audit : Creating(m)' = Creating(m)
BY ListStaysKeepsInv DEF PageInv, list

\* A step of a running stream n other than StreamToken and StreamDone.
LEMMA StreamStepKeepsInv ==
  ASSUME PageInv, NEW n \in Audit,
         ResponseOk(n) \/ ResponseNotOk(n) \/ RefusalShown(n) \/ StreamError(n)
           \/ BodyEnds(n) \/ StreamTruncated(n) \/ StreamAborted(n)
  PROVE  PageInv'
<1>1. /\ UNCHANGED <<list, current, target, fetch, audits>>
      /\ stage[n] \in {"fetching", "refused", "reading", "closing"}
  BY DEF ResponseOk, ResponseNotOk, RefusalShown, StreamError, BodyEnds, StreamTruncated, StreamAborted, PageStays
<1>2. /\ ListInv' /\ UNCHANGED <<last, session>>
      /\ \A m \in Audit : Creating(m)' = Creating(m)
  BY <1>1, ListStays
<1>3. Running(n) /\ ~ Creating(n) /\ stage[n] # "ended" /\ stage[n] # "none"
  BY <1>1, RunningAudit
<1>4. Shortens(messages, messages)
  BY AuditTypes, ShorterConversations
<1>5. status \in {"idle", "connecting", "streaming", "complete", "error"}
  BY AuditTypes
<1>6. \A m \in Audit : Creating(m)' => Creating(m) /\ m # n
  BY <1>2, <1>3
<1>7. {"reading", "refused", "ended", "declined", "silent"} \subseteq Stage \ {"none", "fetching"}
  BY DEF Stage
<1>8. \A x : /\ stage' = [stage EXCEPT ![n] = x] /\ Shortens(messages', messages)
             /\ \/ aborted' = aborted
                \/ x \in {"ended", "declined"} /\ aborted' = aborted \ {n}
             /\ x = "ended" \/ stage[n] # "closing"
             => Conversation'
  <2>1. ASSUME NEW x, stage' = [stage EXCEPT ![n] = x], Shortens(messages', messages),
               \/ aborted' = aborted
               \/ x \in {"ended", "declined"} /\ aborted' = aborted \ {n},
               x = "ended" \/ stage[n] # "closing"
        PROVE  Conversation'
    <3>1. \/ Running(n) /\ aborted' = aborted
          \/ x \notin {"fetching", "reading", "refused", "closing"} /\ aborted \subseteq aborted' \cup {n}
      BY <1>3, <2>1
    <3>2. AnswersKept
      BY <1>1, <1>2, <1>3, <2>1, <3>1, StageMovesKeepsAnswers
    <3> QED
      BY <2>1, <3>2, StageMovesKeepsConversation
  <2> QED
    BY <2>1
<1>9. CASE ResponseOk(n)
  <2>1. /\ stage' = [stage EXCEPT ![n] = "reading"] /\ status' = "streaming" /\ stage[n] = "fetching"
        /\ UNCHANGED <<tokens, error, messages, aborted>>
    BY <1>9 DEF ResponseOk, Show, PageStays
  <2>2. Conversation'
    BY <1>4, <1>8, <2>1
  <2> QED
    BY <1>1, <1>2, <1>3, <1>6, <1>7, <2>1, <2>2, StageMoves
<1>10. CASE ResponseNotOk(n)
  <2>1. stage' = [stage EXCEPT ![n] = "refused"] /\ stage[n] = "fetching"
        /\ UNCHANGED <<status, tokens, error, messages, aborted>>
    BY <1>10 DEF ResponseNotOk, display, PageStays
  <2>2. Conversation'
    BY <1>4, <1>8, <2>1
  <2> QED
    BY <1>1, <1>2, <1>3, <1>5, <1>6, <1>7, <2>1, <2>2, StageMoves
<1>11. CASE RefusalShown(n)
  <2> DEFINE x == IF n \in aborted THEN "declined" ELSE "ended"
  <2>1. /\ stage' = [stage EXCEPT ![n] = x] /\ aborted' = aborted \ {n} /\ ShowError(n, messages)
        /\ stage[n] = "refused"
    BY <1>11 DEF RefusalShown
  <2>2. /\ x \in Stage \ {"none", "fetching"} /\ x \notin {"reading", "refused", "closing"}
        /\ x \in {"ended", "declined"}
        /\ x = "declined" \/ (x = "ended" /\ n \notin aborted)
    BY <1>7
  <2> HIDE DEF x
  <2>3. /\ status' = "error" /\ tokens' = tokens /\ error' = n /\ Shortens(messages', messages)
    BY <1>4, <2>1, ErrorShown
  <2>4. Conversation'
    BY <1>8, <2>1, <2>2, <2>3
  <2> QED
    BY <1>1, <1>2, <1>3, <1>6, <2>1, <2>2, <2>3, <2>4, StageMoves
<1>12. CASE StreamError(n)
  <2>1. /\ n \notin aborted /\ stage' = [stage EXCEPT ![n] = "ended"]
        /\ ShowError(n, messages) /\ aborted' = aborted
    BY <1>12 DEF StreamError, Ends, PageStays
  <2>2. /\ status' = "error" /\ tokens' = tokens /\ error' = n /\ Shortens(messages', messages)
    BY <1>4, <2>1, ErrorShown
  <2>3. Conversation'
    BY <1>8, <2>1, <2>2
  <2> QED
    BY <1>1, <1>2, <1>3, <1>6, <1>7, <2>1, <2>2, <2>3, StageMoves
<1>13. CASE StreamTruncated(n)
  <2>1. stage' = [stage EXCEPT ![n] = "silent"] /\ stage[n] = "reading"
        /\ UNCHANGED <<status, tokens, error, messages, aborted>>
    BY <1>13 DEF StreamTruncated, display, PageStays
  <2>2. Conversation'
    BY <1>4, <1>8, <2>1
  <2> QED
    BY <1>1, <1>2, <1>3, <1>5, <1>6, <1>7, <2>1, <2>2, StageMoves
<1>14. CASE StreamAborted(n)
  <2>1. /\ stage' = [stage EXCEPT ![n] = "ended"] /\ aborted' = aborted \ {n}
        /\ UNCHANGED <<status, tokens, error, messages>>
    BY <1>14 DEF StreamAborted, Ends, display
  <2>2. Conversation'
    BY <1>4, <1>8, <2>1
  <2> QED
    BY <1>1, <1>2, <1>3, <1>5, <1>6, <1>7, <2>1, <2>2, StageMoves
<1>15. CASE BodyEnds(n)
  <2>1. stage' = [stage EXCEPT ![n] = "ended"]
        /\ UNCHANGED <<status, tokens, error, messages, aborted>>
    BY <1>15 DEF BodyEnds, Ends, display, PageStays
  <2>2. Conversation'
    BY <1>4, <1>8, <2>1
  <2> QED
    BY <1>1, <1>2, <1>3, <1>5, <1>6, <1>7, <2>1, <2>2, StageMoves
<1> QED
  BY <1>9, <1>10, <1>11, <1>12, <1>13, <1>14, <1>15

\* A question, or the answer of a stream that comes to its done event, is added to
\* a conversation.
LEMMA LongerConversationKept ==
  ASSUME Conversation, NEW m \in Message, messages' = Append(messages, m), AnswersKept,
         m.role = "assistant" =>
           /\ m.of = session /\ session # NoSession /\ m.audit \in Audit /\ ~ m.fetched
           /\ ~ Answered(m.audit) /\ Live(m.audit)
           /\ Answered(m.audit)' /\ target'[m.audit] = session
  PROVE  Conversation'
<1> DEFINE k == Len(messages)
<1>1. messages \in Seq(Message) /\ session' = session /\ raced \subseteq raced'
  BY DEF Conversation, AnswersKept
<1>2. /\ k \in Nat /\ DOMAIN messages = 1..k
      /\ messages' \in Seq(Message) /\ Len(messages') = k + 1
      /\ \A i \in 1..k : messages'[i] = messages[i]
      /\ messages'[k + 1] = m
  BY <1>1, AppendProperties, LenProperties
<1>3. DOMAIN messages' = 1..(k + 1)
  BY <1>2, LenProperties
<1> HIDE DEF k
<1>4. \A i \in 1..(k + 1) : i \in 1..k \/ i = k + 1
  BY <1>2
<1>5. ASSUME NEW i \in 1..(k + 1), NEW e, e = messages'[i], e.role = "assistant"
      PROVE  /\ e.of # NoSession /\ e.of = session'
             /\ e.audit # 0 => target'[e.audit] = session'
             /\ ~ e.fetched => e.audit \in Audit /\ Answered(e.audit)'
             /\ e.fetched /\ e.audit \in Audit /\ Live(e.audit)' => e.audit \in raced'
  <2>1. CASE i \in 1..k
    <3>1. i \in DOMAIN messages /\ e = messages[i]
      BY <1>2, <1>5, <2>1
    <3> QED
      BY <1>5, <3>1, AnswerKept
  <2>2. CASE i = k + 1
    BY <1>1, <1>2, <1>5, <2>2
  <2> QED
    BY <1>4, <2>1, <2>2
<1>6. ASSUME NEW i \in 1..k, messages[i].role = "assistant", m.role = "assistant",
             messages[i].audit = m.audit
      PROVE  messages[i].fetched /\ messages[i].audit \in raced
  BY <1>2, <1>6, AnswersInConversation
<1>7. ASSUME NEW i \in 1..(k + 1), NEW j \in 1..(k + 1),
             i # j, messages'[i].audit = messages'[j].audit,
             messages'[i].role = "assistant", messages'[j].role = "assistant",
             ~ messages'[i].fetched
      PROVE  messages'[j].fetched /\ messages'[j].audit \in raced'
  <2>1. CASE i \in 1..k /\ j \in 1..k
    <3>1. messages[j].fetched /\ messages[j].audit \in raced
      BY <1>2, <1>7, <2>1 DEF Conversation, AnswersOfThisSession
    <3> QED
      BY <1>1, <1>2, <2>1, <3>1
  <2>2. CASE i = k + 1 /\ j \in 1..k
    BY <1>1, <1>2, <1>6, <1>7, <2>2
  <2>3. CASE i \in 1..k /\ j = k + 1
    BY <1>2, <1>6, <1>7, <2>3
  <2> QED
    BY <1>4, <1>7, <2>1, <2>2, <2>3
<1>8. AnswersOfDone' /\ FetchedBesideStream'
  BY <1>3, <1>5 DEF AnswersOfDone, FetchedBesideStream, Answered, Live, Running
<1>9. AnswersOfThisSession'
  BY <1>3, <1>5, <1>7 DEF AnswersOfThisSession
<1> QED
  BY <1>2, <1>8, <1>9 DEF Conversation

LEMMA StreamTokenKeepsInv ==
  ASSUME PageInv, NEW n \in Audit, StreamToken(n)
  PROVE  PageInv'
<1>1. /\ stage[n] = "reading" /\ n \notin aborted /\ tokens' = Append(tokens, n)
      /\ UNCHANGED <<status, error, stage, messages, list, current, target, aborted, loading, skipNextFetch, raced, audits>>
  BY DEF StreamToken, Show, PageStays, fetch
<1>2. /\ ListInv' /\ UNCHANGED <<last, session>>
      /\ \A m \in Audit : Creating(m)' = Creating(m)
  BY <1>1, ListStays
<1>3. tokens \in Seq(Audit)
  BY AuditTypes
<1>4. tokens' \in Seq(Audit) /\ \A i \in DOMAIN tokens' : (i \in DOMAIN tokens /\ tokens'[i] = tokens[i]) \/ tokens'[i] = n
  <2>1. /\ Len(tokens) \in Nat /\ DOMAIN tokens = 1..Len(tokens)
        /\ tokens' \in Seq(Audit) /\ DOMAIN tokens' = 1..(Len(tokens) + 1)
        /\ \A i \in 1..Len(tokens) : tokens'[i] = tokens[i]
        /\ tokens'[Len(tokens) + 1] = n
    BY <1>1, <1>3, LenProperties, AppendProperties
  <2>2. \A i \in 1..(Len(tokens) + 1) : i \in 1..Len(tokens) \/ i = Len(tokens) + 1
    BY <2>1
  <2> QED
    BY <2>1, <2>2
<1>5. n = current /\ target[n] = session
  BY <1>1 DEF PageInv, TokensOfThisStream, StreamsOfSession, Running
<1>6. TokensOfThisStream'
  <2>1. \A m \in Audit : Running(m)' /\ m \notin aborted' => m = current'
    BY <1>1 DEF PageInv, TokensOfThisStream, Running
  <2>2. \A i \in DOMAIN tokens' : tokens'[i] = current' /\ target'[current'] = session' /\ current' \notin aborted'
    BY <1>1, <1>2, <1>4, <1>5 DEF PageInv, TokensOfThisStream
  <2> QED
    BY <2>1, <2>2 DEF TokensOfThisStream
<1>7. TypeOK'
  <2>1. ListTypeOK'
    BY <1>2 DEF ListInv
  <2> QED
    BY <1>1, <1>2, <1>4, <2>1 DEF PageInv, TypeOK
<1>8. AuditsInTurn' /\ StreamsOfSession'
  BY <1>1, <1>2 DEF PageInv, AuditsInTurn, StreamsOfSession, Running
<1>9. Conversation' /\ FetchBesideStream' /\ ErrorOfThisStream'
  BY <1>1, <1>2 DEF PageInv, Conversation, AnswersOfDone, AnswersOfThisSession, FetchedBesideStream, FetchBesideStream, Live, Running, Answered, ErrorOfThisStream
<1> QED
  BY <1>2, <1>6, <1>7, <1>8, <1>9 DEF PageInv

LEMMA StreamDoneKeepsInv ==
  ASSUME PageInv, NEW n \in Audit, StreamDone(n)
  PROVE  PageInv'
<1>1. /\ stage[n] = "reading" /\ n \notin aborted /\ stage' = [stage EXCEPT ![n] = "closing"]
      /\ status' = "complete"
      /\ messages' = (IF tokens = <<>> THEN messages ELSE Append(messages, Reply(n, session)))
      /\ UNCHANGED <<tokens, error, list, current, target, aborted, fetch, audits>>
  BY DEF StreamDone, Show, PageStays
<1>2. /\ ListInv' /\ UNCHANGED <<last, session>>
      /\ \A m \in Audit : Creating(m)' = Creating(m)
  BY <1>1, ListStays
<1>3. Running(n) /\ ~ Creating(n) /\ stage[n] # "ended" /\ stage[n] # "none"
  BY <1>1, RunningAudit
<1>4. target[n] = session /\ session # NoSession
  BY <1>1, <1>3 DEF PageInv, StreamsOfSession
<1>5. AnswersKept
  BY <1>1, <1>2, <1>3, StageMovesKeepsAnswers
<1>6. Conversation'
  <2>1. CASE messages' = messages
    <3>1. Shortens(messages', messages)
      BY <2>1, AuditTypes, ShorterConversations
    <3> QED
      BY <1>5, <3>1, StageMovesKeepsConversation
  <2>2. CASE messages' = Append(messages, Reply(n, session))
    <3>1. stage \in [Audit -> Stage]
      BY AuditTypes
    <3>2. Answered(n)' /\ ~ Answered(n) /\ Live(n) /\ target'[n] = session
      BY <1>1, <1>3, <1>4, <3>1 DEF Answered, Live
    <3>3. session \in 0..MaxIds /\ n \in 0..MaxAudits
      BY ListAssumption DEF PageInv, ListInv, ListTypeOK, Audit
    <3> DEFINE m == Reply(n, session)
    <3>4. m \in Message /\ m.of = session /\ m.audit = n /\ ~ m.fetched
      BY <3>3 DEF Reply, Message
    <3>5. messages' = Append(messages, m) /\ Conversation
      BY <2>2 DEF PageInv
    <3> HIDE DEF m
    <3> QED
      BY <1>4, <1>5, <3>2, <3>4, <3>5, LongerConversationKept
  <2> QED
    BY <1>1, <2>1, <2>2
<1>7. "closing" \in Stage \ {"none", "fetching"}
  BY DEF Stage
<1>8. \A m \in Audit : Creating(m)' => Creating(m) /\ m # n
  BY <1>2, <1>3
<1> QED
  BY <1>1, <1>2, <1>3, <1>6, <1>7, <1>8, StageMoves

\* What is fetched of a session are answers of that session.
LEMMA HistoryProperties ==
  ASSUME NEW s \in 1..MaxIds, NEW h \in History(s)
  PROVE  /\ h \in Seq(Message)
         /\ \A i \in DOMAIN h : h[i].role = "assistant" =>
              /\ h[i].of = s /\ h[i].fetched
              /\ h[i].audit # 0 => h[i].audit \in Audit /\ target[h[i].audit] = s
<1>1. h \in BoundedSeq(Entry(s), 2 * MaxHistory)
  BY Zenon DEF History
<1>2. PICK k \in 0..2 * MaxHistory : h \in [1..k -> Entry(s)]
  BY <1>1 DEF BoundedSeq, SeqOf
<1>3. k \in Nat /\ DOMAIN h = 1..k /\ \A i \in 1..k : h[i] \in Entry(s)
  BY <1>2, PageAssumption
<1>4. Entry(s) \subseteq Message
  <2>1. Question \in Message
    BY ListAssumption DEF Question, Message, NoSession
  <2>2. [role : {"assistant"}, of : {s}, fetched : {TRUE},
         audit : {0} \cup {n \in Audit : target[n] = s}] \subseteq Message
    <3>1. s \in 0..MaxIds /\ {0} \cup {n \in Audit : target[n] = s} \subseteq 0..MaxAudits
      BY ListAssumption DEF Audit
    <3>2. {"assistant"} \subseteq {"user", "assistant"} /\ TRUE \in BOOLEAN
      OBVIOUS
    <3> QED
      BY <3>1, <3>2 DEF Message
  <2> QED
    BY <2>1, <2>2 DEF Entry
<1>5. ASSUME NEW e \in Entry(s), e.role = "assistant"
      PROVE  e.of = s /\ e.fetched /\ (e.audit # 0 => e.audit \in Audit /\ target[e.audit] = s)
  <2>1. e # Question
    BY <1>5 DEF Question
  <2>2. e \in [role : {"assistant"}, of : {s}, fetched : {TRUE},
               audit : {0} \cup {n \in Audit : target[n] = s}]
    BY <1>5, <2>1 DEF Entry
  <2> QED
    BY <2>2
<1>6. h \in [1..k -> Message]
  BY <1>3, <1>4, <1>2
<1> QED
  BY <1>3, <1>5, <1>6

LEMMA HistoryArrivesKeepsInv ==
  ASSUME PageInv, HistoryArrives
  PROVE  PageInv'
<1>1. /\ loading # NoSession /\ messages' \in History(loading) /\ loading' = NoSession
      /\ UNCHANGED <<list, status, tokens, error, current, stage, target, aborted,
                     skipNextFetch, audits>>
      /\ raced' = {n \in raced : \E i \in DOMAIN messages' : messages'[i].audit = n}
  BY DEF HistoryArrives
<1>2. /\ ListInv' /\ UNCHANGED <<last, session>>
      /\ \A m \in Audit : Creating(m)' = Creating(m)
  BY <1>1, ListStays
<1>3. loading = session /\ session # NoSession /\ session \in 1..MaxIds
  BY <1>1, ListAssumption DEF PageInv, TypeOK, ListTypeOK, NoSession
<1>4. PICK h : h = messages'
  OBVIOUS
<1>5. /\ h \in Seq(Message)
      /\ \A i \in DOMAIN h : h[i].role = "assistant" =>
           /\ h[i].of = session /\ h[i].fetched
           /\ h[i].audit # 0 => h[i].audit \in Audit /\ target[h[i].audit] = session
  BY <1>1, <1>3, <1>4, HistoryProperties
<1>6. AnswersOfDone' /\ AnswersOfThisSession'
  BY <1>1, <1>2, <1>3, <1>4, <1>5 DEF AnswersOfDone, AnswersOfThisSession
<1>7. FetchedBesideStream' /\ FetchBesideStream'
  <2>1. \A n \in Audit : Live(n) => n \in raced
    BY <1>1 DEF PageInv, FetchBesideStream
  <2>2. \A i \in DOMAIN messages' :
          messages'[i].audit \in raced => messages'[i].audit \in raced'
    BY <1>1
  <2> QED
    BY <1>1, <2>1, <2>2 DEF FetchedBesideStream, FetchBesideStream, Live, Running
<1>8. Conversation'
  BY <1>4, <1>5, <1>6, <1>7 DEF Conversation
<1>9. TypeOK'
  <2>1. ListTypeOK'
    BY <1>2 DEF ListInv
  <2>2. raced' \subseteq Audit
    BY <1>1 DEF PageInv, TypeOK
  <2> QED
    BY <1>1, <1>2, <1>4, <1>5, <2>1, <2>2 DEF PageInv, TypeOK
<1>10. AuditsInTurn' /\ StreamsOfSession' /\ TokensOfThisStream' /\ ErrorOfThisStream'
  BY <1>1, <1>2 DEF PageInv, AuditsInTurn, StreamsOfSession, TokensOfThisStream, ErrorOfThisStream, Running
<1> QED
  BY <1>2, <1>7, <1>8, <1>9, <1>10 DEF PageInv

\* With no session on screen no stream runs, and no answer or token is shown.
LEMMA NothingWithoutSession ==
  ASSUME PageInv, session = NoSession
  PROVE  /\ \A n \in Audit : Running(n) => n \in aborted
         /\ \A i \in DOMAIN messages : messages[i].role # "assistant"
         /\ DOMAIN tokens = {}
<1>1. \A n \in Audit : Running(n) => n \in aborted
  BY DEF PageInv, StreamsOfSession
<1>2. \A i \in DOMAIN messages : messages[i].role # "assistant"
  BY DEF PageInv, Conversation, AnswersOfDone, AnswersOfThisSession
<1>3. ASSUME NEW i \in DOMAIN tokens PROVE FALSE
  <2>1. tokens[i] = current /\ target[current] = session /\ current \in Audit
    BY AuditTypes DEF PageInv, TokensOfThisStream
  <2>2. current # 0
    BY <2>1, ListAssumption DEF Audit
  <2> QED
    BY <2>1, <2>2 DEF PageInv, StreamsOfSession
<1> QED
  BY <1>1, <1>2, <1>3

\* Aborting the stream that was started last leaves none running.
LEMMA AbortLeavesNone ==
  ASSUME PageInv
  PROVE  \A n \in Audit : Running(n) => n \in aborted \cup Abort(current)
<1>1. 0 \notin Audit
  BY ListAssumption DEF Audit
<1> QED
  BY <1>1 DEF PageInv, TokensOfThisStream, Abort

LEMMA AbortsAudits ==
  ASSUME PageInv
  PROVE  Abort(current) \subseteq Audit
BY AuditTypes DEF Abort

LEMMA SubmitAuditKeepsInv ==
  ASSUME PageInv, SubmitAudit
  PROVE  PageInv'
<1>1. PICK k : k = audits + 1
  OBVIOUS
<1>2. /\ audits < MaxAudits /\ audits' = k /\ messages' = Append(messages, Question)
      /\ status' = "connecting" /\ tokens' = <<>> /\ error' = 0
      /\ UNCHANGED <<loading, skipNextFetch>>
      /\ \/ /\ session # NoSession
            /\ stage' = [stage EXCEPT ![k] = "fetching"]
            /\ target' = [target EXCEPT ![k] = session]
            /\ current' = k
            /\ aborted' = aborted \cup Abort(current)
            /\ raced' = (IF loading = NoSession THEN raced ELSE raced \cup {k})
            /\ UNCHANGED list
         \/ /\ session = NoSession
            /\ AskForSession(k)
            /\ UNCHANGED <<stage, target, current, aborted, raced>>
  BY <1>1 DEF SubmitAudit, Show, Races
<1>3. /\ MaxAudits \in Nat /\ audits \in Nat /\ last \in Nat /\ session \in 0..last
      /\ stage \in [Audit -> Stage] /\ target \in [Audit -> 0..last] /\ aborted \subseteq Audit
      /\ current \in 0..audits /\ loading \in {NoSession, session}
      /\ skipNextFetch \in BOOLEAN /\ raced \subseteq Audit
  BY AuditTypes
<1>4. /\ k \in Audit /\ k \in Creation /\ k # 0 /\ k > audits /\ k \in 0..MaxAudits
      /\ \A n \in Audit : n > k => n > audits
      /\ 0..audits \subseteq 0..k /\ k \in 0..k /\ 0 \in 0..k
  BY <1>1, <1>2, <1>3 DEF Audit, Creation
<1>5. stage[k] = "none" /\ target[k] = NoSession /\ ~ Creating(k)
  BY <1>4 DEF PageInv, AuditsInTurn
<1>6. ListInv' /\ UNCHANGED <<last, session>>
      /\ \A n \in Audit : Creating(n)' => Creating(n) \/ (n = k /\ session = NoSession)
  <2>1. CASE UNCHANGED list
    BY <2>1, ListStays
  <2>2. CASE session = NoSession /\ AskForSession(k)
    <3>1. ListInv'
      BY <1>4, <1>5, <2>2, AskForSessionKeepsInv DEF PageInv
    <3> QED
      BY <2>2, <3>1 DEF AskForSession, Creating
  <2> QED
    BY <1>2, <2>1, <2>2
<1>7. AnswersKept /\ raced' \subseteq Audit
  <2>1. raced \subseteq raced' /\ raced' \subseteq Audit
    BY <1>2, <1>3, <1>4
  <2>2. ASSUME NEW n \in Audit, target[n] # NoSession
        PROVE  stage'[n] = stage[n] /\ target'[n] = target[n] /\ (n \notin aborted' => n \notin aborted)
    BY <1>2, <1>3, <1>5, <2>2
  <2> QED
    BY <1>6, <2>1, <2>2 DEF AnswersKept, Answered, Live, Running
<1>8. Conversation'
  <2>1. Question \in Message /\ Question.role # "assistant"
    BY ListAssumption DEF Question, Message, NoSession
  <2> QED
    BY <1>2, <1>7, <2>1, LongerConversationKept DEF PageInv
<1>9. <<>> \in Seq(Audit) /\ DOMAIN <<>> = {}
  OBVIOUS
<1>10. CASE session # NoSession
  <2>1. /\ stage' = [stage EXCEPT ![k] = "fetching"] /\ target' = [target EXCEPT ![k] = session]
        /\ current' = k /\ aborted' = aborted \cup Abort(current)
    BY <1>2, <1>10
  <2>2. /\ stage' \in [Audit -> Stage] /\ target' \in [Audit -> 0..last]
        /\ \A n \in Audit : /\ stage'[n] = IF n = k THEN "fetching" ELSE stage[n]
                            /\ target'[n] = IF n = k THEN session ELSE target[n]
        /\ aborted' \subseteq Audit
    BY <1>3, <1>4, <2>1, AbortsAudits DEF Stage
  <2>3. TypeOK'
    <3>1. ListTypeOK' /\ messages' \in Seq(Message)
      BY <1>6, <1>8 DEF ListInv, Conversation
    <3> QED
      BY <1>2, <1>3, <1>4, <1>6, <1>7, <1>9, <2>1, <2>2, <3>1 DEF TypeOK
  <2>4. AuditsInTurn'
    <3>1. \A n \in Audit : Creating(n)' => Creating(n) /\ n # k
      BY <1>5, <1>6, <1>10
    <3>2. ASSUME NEW n \in Audit, n > k PROVE stage'[n] = "none" /\ ~ Creating(n)'
      <4>1. n # k /\ n > audits
        BY <1>1, <1>3, <1>4, <3>2 DEF Audit
      <4> QED
        BY <2>2, <3>1, <4>1 DEF PageInv, AuditsInTurn
    <3> QED
      BY <1>2, <2>2, <3>1, <3>2 DEF PageInv, AuditsInTurn
  <2>5. \A n \in Audit : Running(n)' => n = k \/ Running(n)
    BY <2>2 DEF Running
  <2>6. StreamsOfSession'
    BY <1>4, <1>6, <1>10, <2>1, <2>2, <2>5 DEF PageInv, StreamsOfSession
  <2>7. TokensOfThisStream' /\ ErrorOfThisStream'
    BY <1>2, <1>9, <2>1, <2>5, AbortLeavesNone DEF TokensOfThisStream, ErrorOfThisStream
  <2>8. FetchBesideStream'
    <3>1. \A n \in Audit : Live(n)' => n = k
      BY <2>1, <2>5, AbortLeavesNone DEF Live
    <3> QED
      BY <1>2, <1>10, <3>1 DEF FetchBesideStream
  <2> QED
    BY <1>6, <1>8, <2>3, <2>4, <2>6, <2>7, <2>8 DEF PageInv
<1>11. CASE session = NoSession
  <2>1. UNCHANGED <<stage, target, current, aborted, raced>>
    BY <1>2, <1>11
  <2>2. TypeOK'
    <3>1. ListTypeOK' /\ messages' \in Seq(Message)
      BY <1>6, <1>8 DEF ListInv, Conversation
    <3> QED
      BY <1>2, <1>3, <1>4, <1>6, <1>7, <1>9, <2>1, <3>1 DEF TypeOK
  <2>3. AuditsInTurn'
    <3>1. ASSUME NEW n \in Audit, n > k PROVE stage'[n] = "none" /\ ~ Creating(n)'
      <4>1. n # k /\ n > audits
        BY <1>1, <1>3, <1>4, <3>1 DEF Audit
      <4> QED
        BY <1>6, <2>1, <4>1 DEF PageInv, AuditsInTurn
    <3> QED
      BY <1>2, <1>5, <1>6, <2>1, <3>1 DEF PageInv, AuditsInTurn
  <2>4. StreamsOfSession' /\ TokensOfThisStream' /\ ErrorOfThisStream'
    BY <1>2, <1>6, <1>9, <2>1 DEF PageInv, StreamsOfSession, TokensOfThisStream, ErrorOfThisStream, Running
  <2>5. FetchBesideStream'
    BY <1>2, <2>1 DEF PageInv, FetchBesideStream, Live, Running
  <2> QED
    BY <1>6, <1>8, <2>2, <2>3, <2>4, <2>5 DEF PageInv
<1> QED
  BY <1>10, <1>11

LEMMA SessionCreatedKeepsInv ==
  ASSUME PageInv, NEW n \in Audit, SessionCreated(n)
  PROVE  PageInv'
<1>1. /\ CreationArrives(n)
      /\ stage' = [stage EXCEPT ![n] = "fetching"] /\ target' = [target EXCEPT ![n] = session']
      /\ current' = n /\ audits' = audits
      /\ tokens' = <<>> /\ error' = 0 /\ status' \in {"connecting", "idle"}
      /\ \/ /\ session = NoSession
            /\ messages' = messages
            /\ aborted' = aborted \cup Abort(current)
            /\ loading' = NoSession /\ skipNextFetch' = FALSE /\ raced' = raced
         \/ /\ session \notin {NoSession, session'}
            /\ messages' = <<>>
            /\ aborted' = aborted \cup Abort(current) \cup {n}
            /\ loading' = NoSession /\ skipNextFetch' = FALSE /\ raced' = {}
         \/ /\ session = session'
            /\ aborted' = aborted \cup Abort(current)
            /\ raced' = (IF loading = NoSession THEN raced ELSE raced \cup {n})
            /\ skipNextFetch' = TRUE /\ UNCHANGED <<messages, loading>>
  <2>1. /\ CreationArrives(n) /\ stage' = [stage EXCEPT ![n] = "fetching"]
        /\ target' = [target EXCEPT ![n] = session'] /\ current' = n /\ audits' = audits
    BY DEF SessionCreated
  <2>2. CASE /\ session = NoSession
             /\ Show("connecting", <<>>, 0)
             /\ aborted' = aborted \cup Abort(current)
             /\ loading' = NoSession /\ skipNextFetch' = FALSE /\ UNCHANGED <<messages, raced>>
    BY <2>1, <2>2 DEF Show
  <2>3. CASE /\ session \notin {NoSession, session'}
             /\ Show("idle", <<>>, 0)
             /\ messages' = <<>>
             /\ aborted' = aborted \cup Abort(current) \cup {n}
             /\ loading' = NoSession /\ skipNextFetch' = FALSE /\ raced' = {}
    BY <2>1, <2>3 DEF Show
  <2>4. CASE /\ session = session'
             /\ Show("connecting", <<>>, 0)
             /\ aborted' = aborted \cup Abort(current)
             /\ skipNextFetch' = TRUE /\ Races(n) /\ UNCHANGED <<messages, loading>>
    BY <2>1, <2>4 DEF Show, Races
  <2> QED
    BY <2>2, <2>3, <2>4 DEF SessionCreated
<1>2. /\ MaxAudits \in Nat /\ audits \in Nat /\ last \in Nat /\ n \in Creation /\ n \in Nat \ {0}
      /\ stage \in [Audit -> Stage] /\ target \in [Audit -> 0..last] /\ aborted \subseteq Audit
      /\ messages \in Seq(Message) /\ audits \in 0..MaxAudits
      /\ loading \in {NoSession, session} /\ raced \subseteq Audit
  BY AuditTypes DEF Audit, Creation
<1>3. ListInv' /\ session' # NoSession /\ last' = last
  <2>1. ListInv' /\ session' # NoSession
    BY <1>1, <1>2, CreationArrivesKeepsInv DEF PageInv
  <2> QED
    BY <1>1, <2>1 DEF CreationArrives
<1>4. Creating(n) /\ \A m \in Audit : Creating(m)' => Creating(m) /\ m # n
  <2>1. /\ created[n] # NoSession /\ n \notin sent /\ sent' = sent
        /\ created' = [created EXCEPT ![n] = NoSession] /\ created \in [Creation -> 0..last]
    BY <1>1 DEF CreationArrives, PageInv, ListInv, ListTypeOK, CreationsApart
  <2>2. Audit \subseteq Creation
    BY <1>2 DEF Audit, Creation
  <2> QED
    BY <1>2, <2>1, <2>2 DEF Creating
<1>5. stage[n] = "none" /\ n <= audits /\ n \in 0..audits
  BY <1>2, <1>4 DEF PageInv, AuditsInTurn
<1>6. session' \in 0..last /\ session' \in 0..MaxIds
  BY <1>2, <1>3, ListAssumption DEF ListInv, ListTypeOK
<1>7. /\ stage' \in [Audit -> Stage] /\ target' \in [Audit -> 0..last]
      /\ \A m \in Audit : /\ stage'[m] = IF m = n THEN "fetching" ELSE stage[m]
                          /\ target'[m] = IF m = n THEN session' ELSE target[m]
      /\ aborted' \subseteq Audit
      /\ aborted \cup Abort(current) \subseteq aborted'
  BY <1>1, <1>2, <1>6, AbortsAudits DEF Stage
<1>8. \A m \in Audit : Running(m)' => m = n \/ m \in aborted'
  <2>1. \A m \in Audit : Running(m)' => m = n \/ Running(m)
    BY <1>7 DEF Running
  <2> QED
    BY <1>7, <2>1, AbortLeavesNone
<1>9. <<>> \in Seq(Audit) /\ <<>> \in Seq(Message) /\ DOMAIN <<>> = {}
  OBVIOUS
<1>10. \A m \in Audit : Live(m)' => m = n
  BY <1>8 DEF Live
<1>11. Conversation' /\ FetchBesideStream'
  <2>1. CASE session = session' /\ messages' = messages
    <3>1. AnswersKept
      <4>1. n # 0 /\ target[n] = NoSession
        BY <1>2, <1>5 DEF PageInv, AuditsInTurn
      <4>2. ASSUME NEW m \in Audit, target[m] # NoSession
            PROVE  stage'[m] = stage[m] /\ target'[m] = target[m] /\ (m \notin aborted' => m \notin aborted)
        BY <1>7, <4>1, <4>2
      <4>3. raced \subseteq raced'
        BY <1>1, <1>3, <2>1
      <4> QED
        BY <2>1, <4>2, <4>3 DEF AnswersKept, Answered, Live, Running
    <3>2. Shortens(messages', messages)
      BY <1>2, <2>1, ShorterConversations
    <3>3. loading' # NoSession => n \in raced'
      BY <1>1, <1>3, <2>1
    <3> QED
      BY <1>10, <3>1, <3>2, <3>3, StageMovesKeepsConversation DEF FetchBesideStream
  <2>2. CASE loading' = NoSession /\ messages' = <<>>
    BY <1>9, <2>2 DEF Conversation, AnswersOfDone, AnswersOfThisSession, FetchedBesideStream, FetchBesideStream
  <2>3. CASE session = NoSession /\ loading' = NoSession /\ messages' = messages
    <3>1. \A i \in DOMAIN messages : messages[i].role # "assistant"
      BY <2>3, NothingWithoutSession
    <3> QED
      BY <1>2, <2>3, <3>1 DEF Conversation, AnswersOfDone, AnswersOfThisSession, FetchedBesideStream, FetchBesideStream
  <2> QED
    BY <1>1, <2>1, <2>2, <2>3
<1>12. TypeOK'
  <2>1. ListTypeOK'
    BY <1>3 DEF ListInv
  <2>2. messages' \in Seq(Message)
    BY <1>11 DEF Conversation
  <2>3. loading' \in {NoSession, session'} /\ skipNextFetch' \in BOOLEAN /\ raced' \subseteq Audit
    BY <1>1, <1>2
  <2> QED
    BY <1>1, <1>2, <1>3, <1>5, <1>7, <1>9, <2>1, <2>2, <2>3 DEF TypeOK
<1>13. AuditsInTurn'
  <2>1. ASSUME NEW m \in Audit
        PROVE  /\ m > audits' => stage'[m] = "none" /\ ~ Creating(m)'
               /\ Creating(m)' => stage'[m] = "none"
               /\ stage'[m] = "none" => target'[m] = NoSession
    <3>1. CASE m = n
      <4>1. ~ n > audits' /\ ~ Creating(n)'
        BY <1>1, <1>2, <1>4, <1>5
      <4> QED
        BY <1>7, <3>1, <4>1
    <3>2. CASE m # n
      BY <1>1, <1>4, <1>7, <3>2 DEF PageInv, AuditsInTurn
    <3> QED
      BY <3>1, <3>2
  <2> QED
    BY <2>1 DEF AuditsInTurn
<1>14. StreamsOfSession'
  <2>1. \A m \in Audit : Running(m)' => m = n \/ Running(m)
    BY <1>7 DEF Running
  <2> QED
    BY <1>1, <1>3, <1>7, <1>8, <2>1 DEF PageInv, StreamsOfSession
<1>15. TokensOfThisStream' /\ ErrorOfThisStream'
  BY <1>1, <1>8, <1>9 DEF TokensOfThisStream, ErrorOfThisStream
<1> QED
  BY <1>3, <1>11, <1>12, <1>13, <1>14, <1>15 DEF PageInv

LEMMA ListMovesKeepsInv ==
  ASSUME PageInv, ListMoves
  PROVE  PageInv'
<1>1. ListStep
  BY DEF ListMoves
<1>2. ListInv' /\ last <= last' /\ \A n \in Audit : Creating(n)' = Creating(n)
  BY <1>1, ListStepKeepsInv, ListStepKeepsCreations DEF PageInv
<1>3. /\ last \in Nat /\ last' \in Nat /\ aborted \subseteq Audit /\ target \in [Audit -> 0..last]
      /\ \A x \in 0..last : x \in 0..last'
  <2>1. last \in Nat /\ target \in [Audit -> 0..last] /\ aborted \subseteq Audit
    BY AuditTypes
  <2>2. last' \in Nat
    BY <1>2, ListAssumption DEF ListInv, ListTypeOK
  <2> QED
    BY <1>2, <2>1, <2>2
<1>4. target \in [Audit -> 0..last'] /\ ListTypeOK'
  BY <1>2, <1>3 DEF ListInv
<1>5. <<>> \in Seq(Audit) /\ <<>> \in Seq(Message) /\ DOMAIN <<>> = {}
  OBVIOUS
<1>6. CASE session' # session /\ session # NoSession /\ SessionEffect
  <2>1. /\ aborted' = aborted \cup Abort(current)
        /\ status' = "idle" /\ tokens' = <<>> /\ error' = 0 /\ messages' = <<>>
        /\ loading' \in {NoSession, session'} /\ skipNextFetch' \in BOOLEAN /\ raced' = {}
        /\ UNCHANGED <<current, stage, target, audits>>
    BY <1>6 DEF SessionEffect, Show
  <2>2. aborted' \subseteq Audit
    BY <1>3, <2>1, AbortsAudits
  <2>3. \A n \in Audit : Running(n)' => Running(n) /\ n \in aborted'
    BY <2>1, AbortLeavesNone DEF Running
  <2>4. TypeOK'
    <3>1. 0 \in 0..audits'
      BY <2>1, AuditTypes
    <3> QED
      BY <1>4, <1>5, <2>1, <2>2, <3>1 DEF PageInv, TypeOK
  <2>5. AuditsInTurn' /\ StreamsOfSession'
    BY <1>2, <2>1, <2>3 DEF PageInv, AuditsInTurn, StreamsOfSession
  <2>6. Conversation' /\ FetchBesideStream' /\ TokensOfThisStream' /\ ErrorOfThisStream'
    BY <1>5, <2>1, <2>3 DEF Conversation, AnswersOfDone, AnswersOfThisSession, FetchedBesideStream,
       FetchBesideStream, Live, TokensOfThisStream, ErrorOfThisStream
  <2> QED
    BY <1>2, <2>4, <2>5, <2>6 DEF PageInv
<1>7. CASE session' # session /\ session = NoSession /\ SessionEffect
  <2>1. /\ UNCHANGED <<aborted, status, tokens, error, messages>>
        /\ loading' \in {NoSession, session'} /\ skipNextFetch' \in BOOLEAN /\ raced' = {}
        /\ UNCHANGED <<current, stage, target, audits>>
    BY <1>7 DEF SessionEffect, display
  <2>2. /\ \A n \in Audit : Running(n) => n \in aborted
        /\ \A i \in DOMAIN messages : messages[i].role # "assistant"
        /\ DOMAIN tokens = {}
    BY <1>7, NothingWithoutSession
  <2>3. TypeOK'
    BY <1>4, <2>1 DEF PageInv, TypeOK
  <2>4. AuditsInTurn' /\ StreamsOfSession'
    BY <1>2, <2>1, <2>2 DEF PageInv, AuditsInTurn, StreamsOfSession, Running
  <2>5. Conversation' /\ FetchBesideStream' /\ TokensOfThisStream'
    BY <2>1, <2>2 DEF PageInv, Conversation, AnswersOfDone, AnswersOfThisSession, FetchedBesideStream,
       FetchBesideStream, Live, TokensOfThisStream, Running
  <2>6. ErrorOfThisStream'
    BY <1>7, <2>1 DEF PageInv, ErrorOfThisStream, StreamsOfSession
  <2> QED
    BY <1>2, <2>3, <2>4, <2>5, <2>6 DEF PageInv
<1>8. CASE session' = session /\ UNCHANGED page
  <2>1. /\ UNCHANGED <<status, tokens, error, messages, current, stage, target, aborted,
                       loading, skipNextFetch, raced, audits>>
    BY <1>8 DEF page, display, fetch
  <2>2. TypeOK'
    BY <1>4, <1>8, <2>1 DEF PageInv, TypeOK
  <2>3. AuditsInTurn' /\ StreamsOfSession' /\ TokensOfThisStream'
    BY <1>2, <1>8, <2>1 DEF PageInv, AuditsInTurn, StreamsOfSession, TokensOfThisStream, Running
  <2>4. Conversation' /\ FetchBesideStream' /\ ErrorOfThisStream'
    BY <1>8, <2>1 DEF PageInv, Conversation, AnswersOfDone, AnswersOfThisSession, FetchedBesideStream,
       FetchBesideStream, Live, Running, Answered, ErrorOfThisStream
  <2> QED
    BY <1>2, <2>2, <2>3, <2>4 DEF PageInv
<1> QED
  BY <1>6, <1>7, <1>8 DEF ListMoves

LEMMA PageInitEstablishesInv ==
  ASSUME Init
  PROVE  PageInv
<1>1. /\ ListInit /\ status = "idle" /\ tokens = <<>> /\ error = 0 /\ messages = <<>> /\ current = 0
      /\ stage = [n \in Audit |-> "none"] /\ target = [n \in Audit |-> NoSession]
      /\ aborted = {} /\ loading = session /\ skipNextFetch = FALSE /\ raced = {} /\ audits = 0
  BY DEF Init
<1>2. ListInv
  BY <1>1, ListInitEstablishesInv
<1>3. /\ ListTypeOK /\ last \in Nat /\ MaxAudits \in Nat /\ sent = {}
      /\ \A n \in Audit : ~ Creating(n)
  <2>1. sent = {} /\ created = [c \in Creation |-> NoSession]
    BY <1>1 DEF ListInit
  <2>2. Audit \subseteq Creation
    BY ListAssumption DEF Audit, Creation
  <2> QED
    BY <1>2, <2>1, <2>2, ListAssumption DEF ListInv, ListTypeOK, Creating
<1>4. <<>> \in Seq(Audit) /\ <<>> \in Seq(Message) /\ DOMAIN <<>> = {}
  OBVIOUS
<1>5. TypeOK
  <2>1. /\ stage \in [Audit -> Stage] /\ target \in [Audit -> 0..last]
    BY <1>1, <1>3 DEF Stage, NoSession
  <2>2. /\ status \in {"idle", "connecting", "streaming", "complete", "error"}
        /\ error \in 0..audits /\ current \in 0..audits /\ audits \in 0..MaxAudits
    BY <1>1, <1>3
  <2>3. /\ aborted \subseteq Audit /\ raced \subseteq Audit /\ loading \in {NoSession, session}
    BY <1>1
  <2>4. skipNextFetch \in BOOLEAN
    BY <1>1
  <2>5. tokens \in Seq(Audit) /\ messages \in Seq(Message)
    BY <1>1, <1>4
  <2> QED
    BY <1>3, <2>1, <2>2, <2>3, <2>4, <2>5 DEF TypeOK
<1>6. AuditsInTurn /\ StreamsOfSession
  BY <1>1, <1>3 DEF AuditsInTurn, StreamsOfSession, Running
<1>7. Conversation /\ FetchBesideStream /\ TokensOfThisStream /\ ErrorOfThisStream
  BY <1>1, <1>4 DEF Conversation, AnswersOfDone, AnswersOfThisSession, FetchedBesideStream,
     FetchBesideStream, Live, TokensOfThisStream, ErrorOfThisStream, Running
<1> QED
  BY <1>2, <1>5, <1>6, <1>7 DEF PageInv

LEMMA NextKeepsInv ==
  ASSUME PageInv, [Next]_vars
  PROVE  PageInv'
<1>1. CASE SubmitAudit
  BY <1>1, SubmitAuditKeepsInv
<1>2. CASE ListMoves
  BY <1>2, ListMovesKeepsInv
<1>3. CASE HistoryArrives
  BY <1>3, HistoryArrivesKeepsInv
<1>4. CASE \E n \in Audit : StreamToken(n)
  BY <1>4, StreamTokenKeepsInv
<1>5. ASSUME NEW n \in Audit, Progress(n) PROVE PageInv'
  <2>1. CASE SessionCreated(n)
    BY <2>1, SessionCreatedKeepsInv
  <2>2. CASE SessionLimitReached(n)
    BY <2>2, SessionLimitReachedKeepsInv
  <2>3. CASE SessionNotCreated(n)
    BY <2>3, SessionNotCreatedKeepsInv
  <2>4. CASE StreamDone(n)
    BY <2>4, StreamDoneKeepsInv
  <2>5. CASE \/ ResponseOk(n) \/ ResponseNotOk(n) \/ RefusalShown(n) \/ StreamError(n)
             \/ BodyEnds(n) \/ StreamTruncated(n) \/ StreamAborted(n)
    BY <2>5, StreamStepKeepsInv
  <2> QED
    BY <1>5, <2>1, <2>2, <2>3, <2>4, <2>5 DEF Progress
<1>6. CASE UNCHANGED vars
  <2>1. UNCHANGED list
        /\ UNCHANGED <<status, tokens, error, messages, current, stage, target, aborted,
                       loading, skipNextFetch, raced, audits>>
    BY <1>6 DEF vars, page, display, fetch
  <2>2. ListInv' /\ UNCHANGED <<last, session>> /\ \A m \in Audit : Creating(m)' = Creating(m)
    BY <2>1, ListStays
  <2>3. TypeOK'
    <3>1. ListTypeOK'
      BY <2>2 DEF ListInv
    <3> QED
      BY <2>1, <2>2, <3>1 DEF PageInv, TypeOK
  <2>4. AuditsInTurn' /\ StreamsOfSession' /\ TokensOfThisStream'
    BY <2>1, <2>2 DEF PageInv, AuditsInTurn, StreamsOfSession, TokensOfThisStream, Running
  <2>5. Conversation' /\ FetchBesideStream' /\ ErrorOfThisStream'
    BY <2>1, <2>2 DEF PageInv, Conversation, AnswersOfDone, AnswersOfThisSession, FetchedBesideStream,
       FetchBesideStream, Live, Running, Answered, ErrorOfThisStream
  <2> QED
    BY <2>2, <2>3, <2>4, <2>5 DEF PageInv
<1> QED
  BY <1>1, <1>2, <1>3, <1>4, <1>5, <1>6 DEF Next

\* The inductive invariant of the page and its list of sessions.
THEOREM PageInvariant == Spec => []PageInv
<1>1. Init => PageInv
  BY PageInitEstablishesInv
<1>2. PageInv /\ [Next]_vars => PageInv'
  BY NextKeepsInv
<1> QED
  BY <1>1, <1>2, PTL DEF Spec

\* The state of hooks/useStream.js, AlignPage.jsx and SessionContext.jsx keeps
\* its types; among them: only the history of the active session is being fetched.
THEOREM TypeCorrect == Spec => []TypeOK
<1>1. PageInv => TypeOK
  BY DEF PageInv
<1> QED
  BY <1>1, PageInvariant, PTL

\* However streams, aborts, creations and changes of session interleave, all
\* streams but the last are aborted, and the tokens on screen are of that one and
\* of the session on screen.
THEOREM TokensAreOfThisStream == Spec => []TokensOfThisStream
<1>1. PageInv => TokensOfThisStream
  BY DEF PageInv
<1> QED
  BY <1>1, PageInvariant, PTL

\* Every answer on screen is of the session on screen, and however done events,
\* aborts and histories interleave the answer of an audit is added once: beside
\* its copy in a history only when the audit was started before the history came.
THEOREM AnswersAreOfThisSession == Spec => []AnswersOfThisSession
<1>1. PageInv => AnswersOfThisSession
  BY DEF PageInv, Conversation
<1> QED
  BY <1>1, PageInvariant, PTL

\* An error on screen is of the stream started last, in the session on screen,
\* or one of the two kinds of ErrorOfThisStream that the code lets through.
THEOREM ErrorsAreOfThisStream == Spec => []ErrorOfThisStream
<1>1. PageInv => ErrorOfThisStream
  BY DEF PageInv
<1> QED
  BY <1>1, PageInvariant, PTL

\* When nothing is under way, and no change was lost, the sidebar lists exactly
\* the rows of the user, each once.
THEOREM SidebarIsTrue == Spec => []ListAccountedFor
<1>1. ASSUME PageInv PROVE ListAccountedFor
  <2> SUFFICES ASSUME Loaded, ~ untold,
                      \A c \in Creation : ~ Creating(c),
                      \A s \in Session : deleting[s] = "no"
               PROVE  Shown = rows /\ Len(sessions) = Cardinality(rows)
    BY DEF ListAccountedFor
  <2>1. Unanswered = {} /\ Gone = {}
    <3>1. \A c \in Creation : created[c] = NoSession
      BY DEF Creating
    <3>2. \A s \in Session : deleting[s] # "done"
      OBVIOUS
    <3> QED
      BY <3>1, <3>2 DEF Unanswered, Gone
  <2>2. Shown = rows /\ IsInjective(sessions) /\ sessions \in Seq(1..last)
    BY <1>1, <2>1 DEF PageInv, ListInv, ListTrue, ListTypeOK
  <2>3. Len(sessions) = Cardinality(Shown)
    BY <2>2, LengthOfList DEF Shown
  <2> QED
    BY <2>2, <2>3
<1> QED
  BY <1>1, PageInvariant, PTL

\* The active session is in the sidebar, once the list was fetched, unless the
\* user picked it while it was being deleted.
THEOREM ActiveSessionIsListed == Spec => []ActiveSessionListed
<1>1. PageInv => ActiveSessionListed
  BY DEF PageInv, ListInv
<1> QED
  BY <1>1, PageInvariant, PTL

=============================================================================
