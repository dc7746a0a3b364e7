----------------------- MODULE RegulationParserProofs -----------------------
(***************************************************************************)
(* Proofs about module RegulationParser, for documents of any length and   *)
(* windows of any size.                                                    *)
(*                                                                         *)
(* The properties speak of the document as it is so far, so every line     *)
(* that is read might undo what held of the chunks there are.  ParserInv   *)
(* adds what excludes it.  Walk: what the parser remembers is what the     *)
(* document says of the next line, and the lines it holds are those of the *)
(* unit that is open, all of them for an article.  ChunksSound: the chunks *)
(* are of recitals or of articles before the open one, whose text no       *)
(* further line can extend.  Kept: every word of a unit is in one of its   *)
(* chunks, or in a line that is held for the flush of that unit.           *)
(*                                                                         *)
(* What the recursive functions of FlattenSeq and Windows return is shown  *)
(* by the least number for which it fails.                                 *)
(***************************************************************************)
EXTENDS RegulationParser, FiniteSetTheorems, SequenceTheorems, WellFoundedInduction, TLAPS

(* Where the walk stands *)

\* The lines kept for the next flush are those of their unit so far.
Increasing(lines) == \A i, j \in DOMAIN lines : i < j => lines[i] < lines[j]

PlaceOfLine ==
  /\ chapter = ChapterOf(ThisLine)
  /\ section = SectionOf(ThisLine)
  /\ inRecitals = ~ Enacting(ThisLine)

ArticleSoFar ==
  LET heading == LastLine(Heading, ThisLine) IN
  IF article = 0
  THEN (heading # 0 => doc[heading] # "article") /\ body = <<>>
  ELSE /\ article = heading /\ doc[heading] = "article"
       /\ chapter = ChapterOf(article) /\ section = SectionOf(article) /\ title = TitleOf(article)
       /\ Range(body) = Article(article) /\ Increasing(body)

RecitalSoFar ==
  /\ inRecitals => recital = LastLine({"recital"}, ThisLine)
  /\ inRecitals /\ recital # 0 => Range(recitalLines) \subseteq Recital(recital)
  /\ ~ inRecitals \/ recital = 0 => recitalLines = <<>>

Walk ==
  /\ PlaceOfLine
  /\ ArticleSoFar
  /\ RecitalSoFar

-----------------------------------------------------------------------------
(* What is in the chunks *)

Filed(c) ==
  IF c.recital # 0
  THEN doc[c.recital] = "recital" /\ LinesIn(c.text) \subseteq Recital(c.recital)
  ELSE /\ doc[c.article] = "article"
       /\ LinesIn(c.text) \subseteq Article(c.article)
       /\ c.parent = WordsOf(InOrder(Article(c.article)))
       /\ c.chapter = ChapterOf(c.article)
       /\ c.section = SectionOf(c.article)
       /\ c.title = TitleOf(c.article)

Meet(c, d) ==
  c.recital = 0 /\ d.recital = 0 /\ c.article = d.article =>
    SubSeq(c.text, Len(c.text) - Overlap + 1, Len(c.text)) = SubSeq(d.text, 1, Overlap)

\* Its unit has begun, and if it is an article it began before line n.
Before(c, n) == IF c.recital # 0 THEN c.recital <= Len(doc) ELSE c.article < n

InArticle(cs, a, i, k) == \E c \in Range(cs) : c.recital = 0 /\ c.article = a /\ <<i, k>> \in Range(c.text)
InRecital(cs, r, i, k) == \E c \in Range(cs) : c.recital = r /\ <<i, k>> \in Range(c.text)

\* Every word of every unit is in one of its chunks, or waits for the flush.
Kept(cs, open, lines) ==
  \A i \in DOMAIN doc, k \in 1..LineWords :
    /\ \A a \in DOMAIN doc : doc[a] = "article" /\ i \in Article(a) =>
         (a = article /\ i \in Range(open)) \/ InArticle(cs, a, i, k)
    /\ \A r \in DOMAIN doc : doc[r] = "recital" /\ ~ Enacting(r) /\ i \in Recital(r) =>
         (r = recital /\ i \in Range(lines)) \/ InRecital(cs, r, i, k)

ChunksSound(cs, n) ==
  /\ \A c \in Range(cs) : Filed(c) /\ Before(c, n)
  /\ \A i \in 2..Len(cs) : Meet(cs[i - 1], cs[i])

\* As long as there are lines to read.
Reading ==
  /\ TypeOK
  /\ Walk
  /\ ChunksSound(chunks, LastLine(Heading, ThisLine))
  /\ Kept(chunks, body, recitalLines)

ParserInv ==
  /\ TypeOK
  /\ FiledWhereItStands
  /\ NeighboursOverlap
  /\ NothingLost
  /\ ~ done => Reading

-----------------------------------------------------------------------------
(* Lemmas about numbers *)

\* Takes the place of induction in the lemmas about recursive functions.
LEMMA LeastNumber ==
  ASSUME NEW S \in SUBSET Nat, S # {}
  PROVE  \E m \in S : \A n \in S : m <= n
<1> DEFINE Less == {p \in Nat \X Nat : p[1] < p[2]}
<1>1. IsWellFoundedOn(Less, Nat)
  BY NatLessThanWellFounded, Zenon DEF OpToRel
<1>2. \A n, m \in Nat : n < m => <<n, m>> \in Less
  OBVIOUS
<1> HIDE DEF Less
<1>3. PICK m \in S : \A n \in S : <<n, m>> \notin Less
  BY <1>1, WFMin
<1>4. ASSUME NEW n \in S PROVE m <= n
  <2>1. ~ n < m
    BY <1>2, <1>3
  <2> QED
    BY <2>1
<1> QED
  BY <1>4

LEMMA GreatestNumber ==
  ASSUME NEW n \in Nat, NEW S \in SUBSET (0..n), S # {}
  PROVE  \E m \in S : \A k \in S : m >= k
<1> DEFINE Below == {n - k : k \in S}
<1>1. Below \in SUBSET Nat /\ Below # {}
  <2>1. \A k \in S : n - k \in Nat
    OBVIOUS
  <2> QED
    BY <2>1
<1>2. PICK b \in Below : \A k \in Below : b <= k
  <2> HIDE DEF Below
  <2> QED
    BY <1>1, LeastNumber
<1>3. PICK m \in S : b = n - m
  OBVIOUS
<1>4. ASSUME NEW k \in S PROVE m >= k
  <2>1. n - k \in Below
    OBVIOUS
  <2>2. b <= n - k
    BY <1>2, <2>1
  <2> QED
    BY <1>3, <2>2
<1> QED
  BY <1>4

LEMMA MinOfTwo == \A a, b \in Nat : Min({a, b}) = IF a <= b THEN a ELSE b
  BY DEF Min

-----------------------------------------------------------------------------
(* Lemmas about the lines of a document *)

\* LastLine of any document.
Latest(d, kinds, i) == Max({j \in 1..(i - 1) : d[j] \in kinds} \cup {0})

LEMMA LatestOf ==
  ASSUME NEW d, NEW kinds, NEW i \in Nat \ {0}
  PROVE  /\ Latest(d, kinds, i) \in 0..(i - 1)
         /\ Latest(d, kinds, i) # 0 => d[Latest(d, kinds, i)] \in kinds
         /\ \A j \in 1..(i - 1) : d[j] \in kinds => j <= Latest(d, kinds, i)
<1> DEFINE S == {j \in 1..(i - 1) : d[j] \in kinds} \cup {0}
<1>1. i - 1 \in Nat /\ S \in SUBSET (0..(i - 1)) /\ S # {}
  OBVIOUS
<1>2. PICK m \in S : \A k \in S : m >= k
  <2> HIDE DEF S
  <2> QED
    BY <1>1, GreatestNumber
<1>3. Latest(d, kinds, i) = Max(S)
  BY DEF Latest
<1>4. Max(S) \in S /\ \A k \in S : Max(S) >= k
  <2> HIDE DEF S
  <2> QED
    BY <1>2 DEF Max
<1> DEFINE x == Max(S)
<1>5. x \in S /\ \A k \in S : x >= k
  BY <1>4
<1> HIDE DEF x
<1>6. Latest(d, kinds, i) = x
  BY <1>3 DEF x
<1>7. x \in 0..(i - 1) /\ (x # 0 => d[x] \in kinds) /\ \A j \in 1..(i - 1) : d[j] \in kinds => j <= x
  BY <1>5
<1> QED
  BY <1>6, <1>7

\* The line with these properties is the last one.
LEMMA LatestIs ==
  ASSUME NEW d, NEW kinds, NEW i \in Nat \ {0}, NEW m \in 0..(i - 1),
         m # 0 => d[m] \in kinds,
         \A j \in 1..(i - 1) : d[j] \in kinds => j <= m
  PROVE  Latest(d, kinds, i) = m
<1> DEFINE x == Latest(d, kinds, i)
<1>1. /\ x \in 0..(i - 1)
      /\ x # 0 => d[x] \in kinds
      /\ \A j \in 1..(i - 1) : d[j] \in kinds => j <= x
  BY LatestOf
<1> HIDE DEF x
<1>2. x <= m
  BY <1>1
<1>3. m <= x
  BY <1>1
<1>4. x = m
  BY <1>1, <1>2, <1>3
<1> QED
  BY <1>4 DEF x

\* A further line changes nothing for the lines before it.
LEMMA LatestGrows ==
  ASSUME NEW d \in Seq(Kind), NEW kind \in Kind, NEW kinds
  PROVE  /\ \A i \in 1..(Len(d) + 1) : Latest(Append(d, kind), kinds, i) = Latest(d, kinds, i)
         /\ Latest(Append(d, kind), kinds, Len(d) + 2) =
              IF kind \in kinds THEN Len(d) + 1 ELSE Latest(d, kinds, Len(d) + 1)
<1> DEFINE n == Len(d)
           e == Append(d, kind)
<1>1. n \in Nat /\ (\A i \in 1..n : e[i] = d[i]) /\ e[n + 1] = kind
  BY AppendProperties, LenProperties
<1> HIDE DEF n, e
<1>2. ASSUME NEW i \in 1..(n + 1) PROVE Latest(e, kinds, i) = Latest(d, kinds, i)
  <2>1. PICK x : x = Latest(d, kinds, i)
    OBVIOUS
  <2>2. /\ x \in 0..(i - 1)
        /\ x # 0 => d[x] \in kinds
        /\ \A j \in 1..(i - 1) : d[j] \in kinds => j <= x
    <3>1. i \in Nat \ {0}
      BY <1>1
    <3> QED
      BY <2>1, <3>1, LatestOf, Zenon
  <2>3. \A j \in 1..(i - 1) : j \in 1..n
    BY <1>1
  <2>4. i \in Nat \ {0} /\ (x # 0 => e[x] \in kinds) /\ \A j \in 1..(i - 1) : e[j] \in kinds => j <= x
    BY <1>1, <2>2, <2>3
  <2> QED
    BY <2>1, <2>2, <2>4, LatestIs
<1>3. Latest(e, kinds, n + 2) = IF kind \in kinds THEN n + 1 ELSE Latest(d, kinds, n + 1)
  <2>1. PICK x : x = Latest(d, kinds, n + 1)
    OBVIOUS
  <2>2. /\ x \in 0..n
        /\ x # 0 => d[x] \in kinds
        /\ \A j \in 1..n : d[j] \in kinds => j <= x
    <3>1. PICK m \in Nat \ {0} : m = n + 1 /\ m - 1 = n
      BY <1>1
    <3> QED
      BY <2>1, <3>1, LatestOf, Zenon
  <2> DEFINE y == IF kind \in kinds THEN n + 1 ELSE x
  <2>0. PICK m \in Nat \ {0} : m = n + 2 /\ m - 1 = n + 1
    BY <1>1
  <2>3. /\ y \in 0..(m - 1)
        /\ y # 0 => e[y] \in kinds
        /\ \A j \in 1..(m - 1) : e[j] \in kinds => j <= y
    <3>1. \A j \in 1..(m - 1) : j \in 1..n \/ j = n + 1
      BY <1>1, <2>0
    <3> QED
      BY <1>1, <2>0, <2>2, <3>1
  <2> HIDE DEF y
  <2>4. Latest(e, kinds, n + 2) = y
    BY <2>0, <2>3, LatestIs, Zenon
  <2> QED
    BY <2>1, <2>4 DEF y
<1> QED
  BY <1>2, <1>3 DEF n, e

-----------------------------------------------------------------------------
(* Lemmas about the words of a text *)

\* The recursion of FlattenSeq, as a property of a function up to n.
Flattens(f, ss, n) ==
  \A i \in 1..n : f[i] = IF i = 1 THEN ss[i] ELSE f[i - 1] \o ss[i]

LEMMA FlattensExists ==
  ASSUME NEW X, NEW ss \in Seq(Seq(X))
  PROVE  \E f \in [1..Len(ss) -> Seq(X)] : Flattens(f, ss, Len(ss))
<1> DEFINE Missing == {n \in 0..Len(ss) : ~ \E f \in [1..n -> Seq(X)] : Flattens(f, ss, n)}
<1>0. Len(ss) \in Nat
  BY LenProperties
<1> SUFFICES ASSUME Missing # {} PROVE FALSE
  BY <1>0
<1>1. Missing \in SUBSET Nat
  OBVIOUS
<1> HIDE DEF Missing
<1>2. PICK n \in Missing : \A k \in Missing : n <= k
  BY <1>1, LeastNumber
<1>3. n \in 0..Len(ss) /\ n \in Nat /\ ~ \E f \in [1..n -> Seq(X)] : Flattens(f, ss, n)
  BY DEF Missing
<1>4. CASE n = 0
  <2> DEFINE f == [i \in 1..0 |-> <<>>]
  <2>1. f \in [1..0 -> Seq(X)] /\ 1..0 = {}
    OBVIOUS
  <2>2. Flattens(f, ss, 0)
    BY <2>1 DEF Flattens
  <2> QED
    BY <1>3, <1>4, <2>1, <2>2
<1>5. CASE n # 0
  <2>1. n - 1 \in 0..Len(ss) /\ ~ n <= n - 1 /\ n \in 1..Len(ss)
    BY <1>0, <1>3, <1>5
  <2>2. PICK g \in [1..(n - 1) -> Seq(X)] : Flattens(g, ss, n - 1)
    BY <1>2, <2>1 DEF Missing
  <2> DEFINE more == IF n = 1 THEN ss[n] ELSE g[n - 1] \o ss[n]
             f == [i \in 1..n |-> IF i = n THEN more ELSE g[i]]
  <2>3. more \in Seq(X)
    <3>1. ss[n] \in Seq(X)
      BY <2>1, ElementOfSeq
    <3>2. CASE n = 1
      BY <3>1, <3>2
    <3>3. CASE n # 1
      <4>1. n - 1 \in 1..(n - 1)
        BY <1>3, <1>5, <3>3
      <4>2. g[n - 1] \in Seq(X)
        BY <4>1
      <4> QED
        BY <3>1, <3>3, <4>2, ConcatProperties
    <3> QED
      BY <3>2, <3>3
  <2>4. \A i \in 1..(n - 1) : g[i] \in Seq(X)
    OBVIOUS
  <2> HIDE DEF more
  <2>5. /\ f \in [1..n -> Seq(X)] /\ f[n] = more
        /\ \A i \in 1..(n - 1) : f[i] = g[i]
    BY <1>3, <1>5, <2>3, <2>4
  <2> HIDE DEF f
  <2>6. ASSUME NEW i \in 1..n
        PROVE  f[i] = IF i = 1 THEN ss[i] ELSE f[i - 1] \o ss[i]
    <3>1. CASE i = n
      <4>1. n # 1 => f[n - 1] = g[n - 1]
        BY <1>3, <1>5, <2>5
      <4> QED
        BY <2>5, <3>1, <4>1 DEF more
    <3>2. CASE i # n
      <4>1. i \in 1..(n - 1) /\ (i # 1 => i - 1 \in 1..(n - 1))
        BY <1>3, <3>2
      <4>2. g[i] = IF i = 1 THEN ss[i] ELSE g[i - 1] \o ss[i]
        BY <2>2, <4>1 DEF Flattens
      <4>3. f[i] = g[i] /\ (i # 1 => f[i - 1] = g[i - 1])
        BY <2>5, <4>1
      <4> QED
        BY <4>2, <4>3
    <3> QED
      BY <3>1, <3>2
  <2>7. Flattens(f, ss, n)
    BY <2>6 DEF Flattens
  <2> QED
    BY <1>3, <2>5, <2>7
<1> QED
  BY <1>4, <1>5

\* FlattenSeq is the last value of such a function.
LEMMA FlattenSeqFlattens ==
  ASSUME NEW X, NEW ss \in Seq(Seq(X)), Len(ss) # 0
  PROVE  \E f : Flattens(f, ss, Len(ss)) /\ FlattenSeq(ss) = f[Len(ss)]
<1> DEFINE Def(f) == f = [i \in 1..Len(ss) |-> IF i = 1 THEN ss[i] ELSE f[i - 1] \o ss[i]]
           flatten == CHOOSE f : Def(f)
<1>1. PICK g \in [1..Len(ss) -> Seq(X)] : Flattens(g, ss, Len(ss))
  BY FlattensExists
<1>2. Def(g)
  BY <1>1 DEF Flattens
<1>3. Def(flatten)
  <2> HIDE DEF Def
  <2> QED
    BY <1>2
<1>4. FlattenSeq(ss) = flatten[Len(ss)]
  BY DEF FlattenSeq
<1>5. Flattens(flatten, ss, Len(ss))
  <2> HIDE DEF flatten
  <2> QED
    BY <1>3 DEF Flattens
<1> QED
  BY <1>4, <1>5

\* What is in a concatenation is in one of its parts.
LEMMA InBoth ==
  ASSUME NEW X, NEW s \in Seq(X), NEW t \in Seq(X)
  PROVE  /\ s \o t \in Seq(X)
         /\ \A x : x \in Range(s \o t) <=> x \in Range(s) \/ x \in Range(t)
<1>1. /\ s \o t \in Seq(X) /\ Len(s \o t) = Len(s) + Len(t)
      /\ \A i \in 1..(Len(s) + Len(t)) : (s \o t)[i] = IF i <= Len(s) THEN s[i] ELSE t[i - Len(s)]
  BY ConcatProperties
<1>2. /\ Len(s) \in Nat /\ DOMAIN s = 1..Len(s)
      /\ Len(t) \in Nat /\ DOMAIN t = 1..Len(t)
  BY LenProperties
<1>3. DOMAIN (s \o t) = 1..(Len(s) + Len(t))
  BY <1>1, LenProperties
<1> DEFINE u == s \o t
           m == Len(s)
           n == Len(t)
<1>4. /\ m \in Nat /\ n \in Nat /\ DOMAIN s = 1..m /\ DOMAIN t = 1..n /\ DOMAIN u = 1..(m + n)
      /\ \A i \in 1..(m + n) : u[i] = IF i <= m THEN s[i] ELSE t[i - m]
  BY <1>1, <1>2, <1>3
<1> HIDE DEF u, m, n
<1>5. ASSUME NEW x, x \in Range(u) PROVE x \in Range(s) \/ x \in Range(t)
  <2>1. PICK i \in 1..(m + n) : u[i] = x
    BY <1>4, <1>5 DEF Range
  <2>2. CASE i <= m
    BY <1>4, <2>1, <2>2 DEF Range
  <2>3. CASE ~ i <= m
    <3>1. i - m \in 1..n
      BY <1>4, <2>3
    <3> QED
      BY <1>4, <2>1, <2>3, <3>1 DEF Range
  <2> QED
    BY <2>2, <2>3
<1>6. ASSUME NEW x, x \in Range(s) PROVE x \in Range(u)
  <2>1. PICK i \in 1..m : s[i] = x
    BY <1>4, <1>6 DEF Range
  <2>2. i \in 1..(m + n) /\ i <= m
    BY <1>4
  <2> QED
    BY <1>4, <2>1, <2>2 DEF Range
<1>7. ASSUME NEW x, x \in Range(t) PROVE x \in Range(u)
  <2>1. PICK i \in 1..n : t[i] = x
    BY <1>4, <1>7 DEF Range
  <2>2. PICK j \in Int : j = i + m
    BY <1>4
  <2>3. j \in 1..(m + n) /\ ~ j <= m /\ j - m = i
    BY <1>4, <2>2
  <2>4. u[j] = x
    BY <1>4, <2>1, <2>3
  <2> QED
    BY <1>4, <2>3, <2>4 DEF Range
<1> QED
  BY <1>1, <1>5, <1>6, <1>7 DEF u

LEMMA Flattened ==
  ASSUME NEW X, NEW ss \in Seq(Seq(X))
  PROVE  /\ FlattenSeq(ss) \in Seq(X)
         /\ \A x : x \in Range(FlattenSeq(ss)) <=> \E i \in 1..Len(ss) : x \in Range(ss[i])
<1>0. Len(ss) \in Nat /\ DOMAIN ss = 1..Len(ss)
  BY LenProperties
<1>1. CASE Len(ss) = 0
  <2>1. ss = <<>>
    BY <1>1, EmptySeq
  <2>2. FlattenSeq(ss) = <<>>
    BY <1>1, <2>1 DEF FlattenSeq
  <2>3. <<>> \in Seq(X) /\ DOMAIN <<>> = {}
    BY EmptySeq
  <2>4. 1..0 = {}
    OBVIOUS
  <2>5. Range(<<>>) = {}
    BY <2>3 DEF Range
  <2> QED
    BY <1>1, <2>2, <2>3, <2>4, <2>5
<1>2. CASE Len(ss) # 0
  <2>1. PICK f : Flattens(f, ss, Len(ss)) /\ FlattenSeq(ss) = f[Len(ss)]
    BY <1>2, FlattenSeqFlattens
  <2> DEFINE Good(i) == /\ f[i] \in Seq(X)
                        /\ \A x : x \in Range(f[i]) <=> \E j \in 1..i : x \in Range(ss[j])
             Bad == {i \in 1..Len(ss) : ~ Good(i)}
  <2>2. ASSUME Bad # {} PROVE FALSE
    <3>1. Bad \in SUBSET Nat
      OBVIOUS
    <3> HIDE DEF Bad
    <3>2. PICK i \in Bad : \A k \in Bad : i <= k
      BY <2>2, <3>1, LeastNumber
    <3>3. i \in 1..Len(ss) /\ ~ Good(i)
      BY DEF Bad
    <3>4. ss[i] \in Seq(X) /\ f[i] = IF i = 1 THEN ss[i] ELSE f[i - 1] \o ss[i]
      BY <2>1, <3>3, ElementOfSeq DEF Flattens
    <3>5. CASE i = 1
      <4>1. \A j \in 1..1 : j = 1
        OBVIOUS
      <4> QED
        BY <3>3, <3>4, <3>5, <4>1
    <3>6. CASE i # 1
      <4>1. i - 1 \in 1..Len(ss) /\ ~ i <= i - 1 /\ \A j : j \in 1..i <=> j \in 1..(i - 1) \/ j = i
        BY <1>0, <3>3, <3>6
      <4>2. Good(i - 1)
        <5> HIDE DEF Good
        <5> QED
          BY <3>2, <4>1 DEF Bad
      <4>3. PICK s \in Seq(X) : s = f[i - 1]
        BY <4>2
      <4>4. f[i] = s \o ss[i] /\ \A x : x \in Range(s) <=> \E j \in 1..(i - 1) : x \in Range(ss[j])
        BY <3>4, <3>6, <4>2, <4>3
      <4>5. PICK t \in Seq(X) : t = ss[i]
        BY <3>4
      <4>6. f[i] \in Seq(X) /\ \A x : x \in Range(f[i]) <=> x \in Range(s) \/ x \in Range(t)
        BY <4>4, <4>5, InBoth
      <4> QED
        BY <3>3, <4>1, <4>4, <4>5, <4>6
    <3> QED
      BY <3>5, <3>6
  <2>3. Good(Len(ss))
    <3>1. Len(ss) \in 1..Len(ss)
      BY <1>0, <1>2
    <3> HIDE DEF Good
    <3> QED
      BY <2>2, <3>1
  <2> QED
    BY <2>1, <2>3
<1> QED
  BY <1>1, <1>2

\* The words of lines are theirs, and all of theirs.
LEMMA WordsOfLines ==
  ASSUME NEW lines \in Seq(Line)
  PROVE  /\ WordsOf(lines) \in Seq(Word)
         /\ \A w \in Range(WordsOf(lines)) : w[1] \in Range(lines)
         /\ \A i \in Range(lines), k \in 1..LineWords : <<i, k>> \in Range(WordsOf(lines))
<1> DEFINE n == Len(lines)
           OfLine(i) == [k \in 1..LineWords |-> <<lines[i], k>>]
           ss == [i \in DOMAIN lines |-> OfLine(i)]
<1>0. LineWords \in Nat
  BY ParserAssumption
<1>1. n \in Nat /\ DOMAIN lines = 1..n /\ \A i \in 1..n : lines[i] \in Line
  BY LenProperties, ElementOfSeq
<1>2. \A i \in 1..n : OfLine(i) \in Seq(Word)
  <2> TAKE i \in 1..n
  <2>1. OfLine(i) \in [1..LineWords -> Word]
    BY <1>1 DEF Word
  <2> QED
    BY <1>0, <2>1
<1>3. \A i \in 1..n : \A x : x \in Range(OfLine(i)) <=> \E k \in 1..LineWords : x = <<lines[i], k>>
  BY DEF Range
<1>4. WordsOf(lines) = FlattenSeq(ss)
  BY DEF WordsOf
<1> HIDE DEF OfLine
<1>5. /\ ss \in Seq(Seq(Word)) /\ Len(ss) = n
      /\ \A i \in 1..n : ss[i] = OfLine(i)
  <2> HIDE DEF n
  <2>1. ss \in [1..n -> Seq(Word)]
    BY <1>1, <1>2
  <2> QED
    BY <1>1, <2>1
<1> HIDE DEF ss, n
<1>6. /\ WordsOf(lines) \in Seq(Word)
      /\ \A x : x \in Range(WordsOf(lines)) <=> \E i \in 1..n : x \in Range(ss[i])
  BY <1>4, <1>5, Flattened
<1>7. ASSUME NEW w \in Range(WordsOf(lines)) PROVE w[1] \in Range(lines)
  <2>1. PICK i \in 1..n, k \in 1..LineWords : w = <<lines[i], k>>
    BY <1>3, <1>5, <1>6
  <2> QED
    BY <1>1, <2>1 DEF Range
<1>8. ASSUME NEW i \in Range(lines), NEW k \in 1..LineWords PROVE <<i, k>> \in Range(WordsOf(lines))
  <2>1. PICK j \in 1..n : lines[j] = i
    BY <1>1 DEF Range
  <2>2. <<i, k>> \in Range(OfLine(j))
    BY <1>3, <2>1
  <2> QED
    BY <1>5, <1>6, <2>2
<1> QED
  BY <1>6, <1>7, <1>8

-----------------------------------------------------------------------------
(* Lemmas about the windows of a text *)

\* Where the window that starts behind word s ends, in a text of n words.
WindowEnd(s, n) == IF s + Target <= n THEN s + Target ELSE n

\* The recursion of Windows, as a property of a function from m on.
Cuts(f, words, m) ==
  \A s \in m..Len(words) :
    LET end == WindowEnd(s, Len(words)) IN
    f[s] = <<SubSeq(words, s + 1, end)>> \o IF end >= Len(words) THEN <<>> ELSE f[end - Overlap]

\* The next window starts further on, since Overlap < Target.
LEMMA WindowsMove ==
  ASSUME NEW n \in Nat, NEW s \in 0..n
  PROVE  /\ WindowEnd(s, n) \in s..n
         /\ WindowEnd(s, n) = Min({s + Target, n})
         /\ ~ WindowEnd(s, n) >= n =>
              /\ WindowEnd(s, n) = s + Target /\ s + Target < n
              /\ WindowEnd(s, n) - Overlap \in (s + 1)..(n - 1)
<1>1. Target \in Nat /\ Overlap \in Nat /\ Overlap < Target
  BY ParserAssumption
<1>2. Min({s + Target, n}) = IF s + Target <= n THEN s + Target ELSE n
  BY <1>1, MinOfTwo
<1> QED
  BY <1>1, <1>2 DEF WindowEnd

LEMMA CutsExists ==
  ASSUME NEW X, NEW words \in Seq(X)
  PROVE  \E f : f = [s \in 0..Len(words) |-> f[s]] /\ Cuts(f, words, 0)
<1> DEFINE n == Len(words)
           From(k) == (n + 1) - k
           Missing == {k \in 0..(n + 1) : ~ \E f : f = [s \in From(k)..n |-> f[s]] /\ Cuts(f, words, From(k))}
<1>0. n \in Nat
  BY LenProperties
<1>1. ASSUME Missing # {} PROVE FALSE
  <2>1. Missing \in SUBSET Nat
    OBVIOUS
  <2> HIDE DEF Missing
  <2>2. PICK k \in Missing : \A j \in Missing : k <= j
    BY <1>1, <2>1, LeastNumber
  <2>3. k \in 0..(n + 1) /\ ~ \E f : f = [s \in From(k)..n |-> f[s]] /\ Cuts(f, words, From(k))
    BY DEF Missing
  <2>4. CASE k = 0
    <3> DEFINE f == [s \in (n + 1)..n |-> <<>>]
    <3>1. f = [s \in (n + 1)..n |-> f[s]]
      OBVIOUS
    <3>2. (n + 1)..n = {} /\ From(0) = n + 1
      BY <1>0
    <3>3. Cuts(f, words, n + 1)
      BY <3>2 DEF Cuts
    <3> HIDE DEF f
    <3> QED
      BY <2>3, <2>4, <3>1, <3>2, <3>3
  <2>5. CASE k # 0
    <3>1. k - 1 \in 0..(n + 1) /\ ~ k <= k - 1
      BY <1>0, <2>3, <2>5
    <3>2. \E g : g = [s \in From(k - 1)..n |-> g[s]] /\ Cuts(g, words, From(k - 1))
      BY <2>2, <3>1 DEF Missing
    <3>3. PICK m : m = From(k)
      OBVIOUS
    <3>4. m \in 0..n /\ From(k - 1) = m + 1
      BY <1>0, <2>3, <2>5, <3>3
    <3>5. PICK g : Cuts(g, words, m + 1)
      BY <3>2, <3>4
    <3> DEFINE end == WindowEnd(m, n)
               more == <<SubSeq(words, m + 1, end)>> \o IF end >= n THEN <<>> ELSE g[end - Overlap]
               f == [s \in m..n |-> IF s = m THEN more ELSE g[s]]
    <3> HIDE DEF more
    <3>6. f = [s \in m..n |-> f[s]] /\ f[m] = more /\ \A s \in (m + 1)..n : f[s] = g[s]
      BY <1>0, <3>4
    <3> HIDE DEF f
    <3>7. ASSUME NEW s \in m..n
          PROVE  LET e == WindowEnd(s, n) IN
                 f[s] = <<SubSeq(words, s + 1, e)>> \o IF e >= n THEN <<>> ELSE f[e - Overlap]
      <4>1. PICK e : e = WindowEnd(s, n)
        OBVIOUS
      <4>2. (e \in s..n) /\ (~ e >= n => e - Overlap \in (s + 1)..(n - 1))
        <5>1. s \in 0..n
          BY <1>0, <3>4
        <5> HIDE DEF n
        <5> QED
          BY <1>0, <4>1, <5>1, WindowsMove
      <4>3. ~ e >= n => e - Overlap \in (m + 1)..n
        BY <1>0, <3>4, <4>2
      <4>4. ~ e >= n => f[e - Overlap] = g[e - Overlap]
        BY <3>6, <4>3
      <4>5. CASE s = m
        <5>1. f[s] = <<SubSeq(words, s + 1, e)>> \o IF e >= n THEN <<>> ELSE g[e - Overlap]
          BY <3>6, <4>1, <4>5 DEF more
        <5> QED
          BY <4>1, <4>4, <5>1
      <4>6. CASE s # m
        <5>1. s \in (m + 1)..n
          BY <1>0, <3>4, <4>6
        <5>2. g[s] = <<SubSeq(words, s + 1, e)>> \o IF e >= n THEN <<>> ELSE g[e - Overlap]
          BY <3>5, <4>1, <5>1 DEF Cuts
        <5>3. f[s] = g[s]
          BY <3>6, <5>1
        <5> QED
          BY <4>1, <4>4, <5>2, <5>3
      <4> QED
        BY <4>5, <4>6
    <3>8. Cuts(f, words, m)
      BY <3>7 DEF Cuts
    <3> QED
      BY <2>3, <3>3, <3>6, <3>8
  <2> QED
    BY <2>4, <2>5
<1>2. n + 1 \in 0..(n + 1) /\ From(n + 1) = 0
  BY <1>0
<1>3. \E f : f = [s \in 0..n |-> f[s]] /\ Cuts(f, words, 0)
  <2> HIDE DEF n
  <2> QED
    BY <1>1, <1>2
<1> QED
  BY <1>3

\* Windows is the first value of such a function.
LEMMA WindowsCuts ==
  ASSUME NEW X, NEW words \in Seq(X)
  PROVE  \E f : Cuts(f, words, 0) /\ Windows(words) = f[0]
<1> DEFINE n == Len(words)
           Def(f) == f = [start \in 0..n |->
                            <<SubSeq(words, start + 1, Min({start + Target, n}))>>
                              \o IF Min({start + Target, n}) >= n THEN <<>>
                                 ELSE f[Min({start + Target, n}) - Overlap]]
           from == CHOOSE f : Def(f)
<1>0. n \in Nat
  BY LenProperties
<1>1. PICK g : g = [s \in 0..n |-> g[s]] /\ Cuts(g, words, 0)
  BY CutsExists
<1>2. ASSUME NEW s \in 0..n
      PROVE  g[s] = <<SubSeq(words, s + 1, Min({s + Target, n}))>>
                      \o IF Min({s + Target, n}) >= n THEN <<>> ELSE g[Min({s + Target, n}) - Overlap]
  <2>1. PICK e : e = WindowEnd(s, n)
    OBVIOUS
  <2>2. e = Min({s + Target, n})
    BY <1>0, <2>1, WindowsMove
  <2>3. g[s] = <<SubSeq(words, s + 1, e)>> \o IF e >= n THEN <<>> ELSE g[e - Overlap]
    BY <1>1, <2>1 DEF Cuts
  <2> QED
    BY <2>2, <2>3
<1>3. Def(g)
  <2> DEFINE h == [start \in 0..n |->
                            <<SubSeq(words, start + 1, Min({start + Target, n}))>>
                              \o IF Min({start + Target, n}) >= n THEN <<>>
                                 ELSE g[Min({start + Target, n}) - Overlap]]
  <2>1. \A s \in 0..n : g[s] = h[s]
    BY <1>2
  <2>2. h = [s \in 0..n |-> h[s]]
    OBVIOUS
  <2> HIDE DEF h
  <2>3. g = h
    BY <1>1, <2>1, <2>2
  <2> QED
    BY <2>3 DEF h
<1>4. Def(from)
  <2> HIDE DEF Def
  <2> QED
    BY <1>3
<1>5. Windows(words) = from[0]
  BY DEF Windows
<1>6. Cuts(from, words, 0)
  <2> HIDE DEF from
  <2>1. ASSUME NEW s \in 0..n
        PROVE  LET e == WindowEnd(s, n) IN
               from[s] = <<SubSeq(words, s + 1, e)>> \o IF e >= n THEN <<>> ELSE from[e - Overlap]
    <3>1. PICK e : e = WindowEnd(s, n)
      OBVIOUS
    <3>2. e = Min({s + Target, n})
      BY <1>0, <3>1, WindowsMove
    <3>3. from[s] = <<SubSeq(words, s + 1, Min({s + Target, n}))>>
                      \o IF Min({s + Target, n}) >= n THEN <<>> ELSE from[Min({s + Target, n}) - Overlap]
      BY <1>4
    <3> QED
      BY <3>1, <3>2, <3>3
  <2> QED
    BY <2>1 DEF Cuts
<1> QED
  BY <1>5, <1>6

Window(words, s) == SubSeq(words, s + 1, WindowEnd(s, Len(words)))

\* The last Overlap words of v are the first of w.
Overlaps(v, w) == SubSeq(v, Len(v) - Overlap + 1, Len(v)) = SubSeq(w, 1, Overlap)

\* What a window holds.
LEMMA WindowHolds ==
  ASSUME NEW X, NEW words \in Seq(X), NEW s \in 0..Len(words), NEW e, e = WindowEnd(s, Len(words))
  PROVE  /\ Window(words, s) \in Seq(X) /\ Len(Window(words, s)) = e - s
         /\ \A i \in 1..(e - s) : Window(words, s)[i] = words[s + i]
<1>1. Len(words) \in Nat /\ \A i \in 1..Len(words) : words[i] \in X
  BY LenProperties, ElementOfSeq
<1>2. PICK n \in Nat : n = Len(words)
  BY <1>1
<1>3. e \in s..n
  BY <1>2, WindowsMove
<1>4. PICK a \in Nat : a = s + 1
  BY <1>2
<1>5. e \in Int /\ \A i \in a..e : words[i] \in X
  BY <1>1, <1>2, <1>3, <1>4
<1>6. /\ SubSeq(words, a, e) \in Seq(X)
      /\ Len(SubSeq(words, a, e)) = IF a <= e THEN e - a + 1 ELSE 0
      /\ \A i \in 1..(e - a + 1) : SubSeq(words, a, e)[i] = words[a + i - 1]
  BY <1>4, <1>5, SubSeqProperties
<1>7. Window(words, s) = SubSeq(words, a, e)
  BY <1>4 DEF Window
<1>8. PICK w : w = SubSeq(words, a, e)
  OBVIOUS
<1>9. /\ w \in Seq(X) /\ Len(w) = e - s
  BY <1>2, <1>3, <1>4, <1>6, <1>8
<1>10. ASSUME NEW i \in 1..(e - s) PROVE w[i] = words[s + i]
  <2>1. i \in 1..(e - a + 1) /\ a + i - 1 = s + i
    BY <1>2, <1>3, <1>4
  <2>2. w[i] = words[a + i - 1]
    BY <1>6, <1>8, <2>1
  <2> QED
    BY <2>1, <2>2
<1> QED
  BY <1>7, <1>8, <1>9, <1>10

\* A window has words of its text only, and all between its ends.
LEMMA WindowCovers ==
  ASSUME NEW X, NEW words \in Seq(X), NEW s \in 0..Len(words)
  PROVE  /\ \A x \in Range(Window(words, s)) : x \in Range(words)
         /\ \A i \in (s + 1)..WindowEnd(s, Len(words)) : words[i] \in Range(Window(words, s))
<1>1. PICK n \in Nat : n = Len(words) /\ DOMAIN words = 1..n
  BY LenProperties
<1>2. PICK e : e = WindowEnd(s, Len(words))
  OBVIOUS
<1>3. e \in s..n
  BY <1>1, <1>2, WindowsMove
<1>4. PICK w \in Seq(X) : w = Window(words, s) /\ Len(w) = e - s /\ \A i \in 1..(e - s) : w[i] = words[s + i]
  BY <1>2, WindowHolds
<1>5. DOMAIN w = 1..(e - s)
  BY <1>4, LenProperties
<1>6. ASSUME NEW x \in Range(w) PROVE x \in Range(words)
  <2>1. PICK i \in 1..(e - s) : x = w[i]
    BY <1>5 DEF Range
  <2>2. PICK j : j = s + i
    OBVIOUS
  <2>3. j \in 1..n /\ x = words[j]
    BY <1>1, <1>3, <1>4, <2>1, <2>2
  <2> QED
    BY <1>1, <2>3 DEF Range
<1>7. ASSUME NEW i \in (s + 1)..e PROVE words[i] \in Range(w)
  <2>1. PICK j : j = i - s
    OBVIOUS
  <2>2. j \in 1..(e - s) /\ s + j = i
    BY <1>1, <1>3, <2>1
  <2>3. w[j] = words[i]
    BY <1>4, <2>2
  <2> QED
    BY <1>5, <2>2, <2>3 DEF Range
<1> QED
  BY <1>2, <1>4, <1>6, <1>7

LEMMA NextWindowOverlaps ==
  ASSUME NEW X, NEW words \in Seq(X), NEW s \in 0..Len(words),
         ~ WindowEnd(s, Len(words)) >= Len(words)
  PROVE  Overlaps(Window(words, s), Window(words, WindowEnd(s, Len(words)) - Overlap))
<1>0. Target \in Nat /\ Overlap \in Nat /\ Overlap < Target
  BY ParserAssumption
<1>1. PICK n \in Nat : n = Len(words)
  BY LenProperties
<1>2. PICK e : e = WindowEnd(s, n)
  OBVIOUS
<1>3. PICK t : t = e - Overlap
  OBVIOUS
<1>4. e = s + Target /\ e < n /\ t \in (s + 1)..(n - 1)
  BY <1>1, <1>2, <1>3, WindowsMove
<1>5. PICK u : u = WindowEnd(t, n)
  OBVIOUS
<1>6. t \in 0..n /\ u \in t..n /\ u - t >= Overlap
  BY <1>0, <1>1, <1>3, <1>4, <1>5 DEF WindowEnd
<1>7. PICK v \in Seq(X) : v = Window(words, s) /\ Len(v) = Target /\ \A i \in 1..Target : v[i] = words[s + i]
  <2>1. /\ Window(words, s) \in Seq(X) /\ Len(Window(words, s)) = e - s
        /\ \A i \in 1..(e - s) : Window(words, s)[i] = words[s + i]
    BY <1>1, <1>2, WindowHolds
  <2>2. e - s = Target
    BY <1>0, <1>1, <1>4
  <2> QED
    BY <2>1, <2>2
<1>8. PICK w \in Seq(X) : w = Window(words, t) /\ Len(w) = u - t /\ \A i \in 1..(u - t) : w[i] = words[t + i]
  BY <1>1, <1>5, <1>6, WindowHolds
<1>9. PICK a \in Nat : a = Target - Overlap + 1
  BY <1>0
<1>10. /\ SubSeq(v, a, Target) \in Seq(X) /\ Len(SubSeq(v, a, Target)) = Overlap
       /\ \A i \in 1..Overlap : SubSeq(v, a, Target)[i] = words[t + i]
  <2>1. \A i \in a..Target : v[i] \in X
    BY <1>0, <1>7, <1>9, ElementOfSeq
  <2>2. /\ SubSeq(v, a, Target) \in Seq(X)
        /\ Len(SubSeq(v, a, Target)) = IF a <= Target THEN Target - a + 1 ELSE 0
        /\ \A i \in 1..(Target - a + 1) : SubSeq(v, a, Target)[i] = v[a + i - 1]
    BY <1>0, <2>1, SubSeqProperties
  <2>3. PICK z : z = SubSeq(v, a, Target)
    OBVIOUS
  <2>4. ASSUME NEW i \in 1..Overlap PROVE z[i] = words[t + i]
    <3>1. PICK j : j = a + i - 1
      OBVIOUS
    <3>2. i \in 1..(Target - a + 1) /\ j \in 1..Target /\ s + j = t + i
      BY <1>0, <1>1, <1>3, <1>4, <1>9, <3>1
    <3>3. z[i] = v[j]
      BY <2>2, <2>3, <3>1, <3>2
    <3> QED
      BY <1>7, <3>2, <3>3
  <2>5. Len(z) = Overlap
    BY <1>0, <1>9, <2>2, <2>3
  <2> QED
    BY <2>2, <2>3, <2>4, <2>5
<1>11. /\ SubSeq(w, 1, Overlap) \in Seq(X) /\ Len(SubSeq(w, 1, Overlap)) = Overlap
       /\ \A i \in 1..Overlap : SubSeq(w, 1, Overlap)[i] = words[t + i]
  <2>1. \A i \in 1..Overlap : i \in 1..(u - t)
    BY <1>0, <1>1, <1>6
  <2>2. \A i \in 1..Overlap : w[i] \in X
    BY <1>8, <2>1, ElementOfSeq
  <2>3. /\ SubSeq(w, 1, Overlap) \in Seq(X)
        /\ Len(SubSeq(w, 1, Overlap)) = IF 1 <= Overlap THEN Overlap - 1 + 1 ELSE 0
        /\ \A i \in 1..(Overlap - 1 + 1) : SubSeq(w, 1, Overlap)[i] = w[1 + i - 1]
    BY <1>0, <2>2, SubSeqProperties
  <2>4. PICK z : z = SubSeq(w, 1, Overlap)
    OBVIOUS
  <2>5. Len(z) = Overlap /\ \A i \in 1..Overlap : z[i] = w[i]
    BY <1>0, <2>3, <2>4
  <2> QED
    BY <1>8, <2>1, <2>3, <2>4, <2>5
<1>12. SubSeq(v, a, Target) = SubSeq(w, 1, Overlap)
  BY <1>10, <1>11, SeqEqual
<1>13. Overlaps(v, w)
  BY <1>7, <1>9, <1>12 DEF Overlaps
<1> QED
  BY <1>1, <1>2, <1>3, <1>7, <1>8, <1>13

\* The windows from word s on: of the text only, all of the text, neighbours overlapping.
CutWell(words, s, ws) ==
  /\ ws[1] = Window(words, s)
  /\ \A j \in 1..Len(ws) : \A x \in Range(ws[j]) : x \in Range(words)
  /\ \A i \in (s + 1)..Len(words) : \E j \in 1..Len(ws) : words[i] \in Range(ws[j])
  /\ \A j \in 2..Len(ws) : Overlaps(ws[j - 1], ws[j])

LEMMA LastWindow ==
  ASSUME NEW X, NEW words \in Seq(X), NEW s \in 0..Len(words), WindowEnd(s, Len(words)) >= Len(words)
  PROVE  /\ <<Window(words, s)>> \in Seq(Seq(X)) /\ <<Window(words, s)>> # <<>>
         /\ CutWell(words, s, <<Window(words, s)>>)
<1>1. PICK n \in Nat : n = Len(words)
  BY LenProperties
<1>2. WindowEnd(s, n) = n
  <2>1. PICK e : e = WindowEnd(s, n)
    OBVIOUS
  <2>2. s \in 0..n /\ e >= n
    BY <1>1, <2>1
  <2>3. e \in s..n
    BY <2>1, <2>2, WindowsMove, Zenon
  <2> QED
    BY <2>1, <2>2, <2>3
<1>3. PICK w \in Seq(X) : w = Window(words, s)
  BY WindowHolds
<1>4. /\ \A x \in Range(w) : x \in Range(words)
      /\ \A i \in (s + 1)..n : words[i] \in Range(w)
  BY <1>1, <1>2, <1>3, WindowCovers
<1>5. PICK ws : ws = <<w>>
  OBVIOUS
<1>6. ws \in Seq(Seq(X)) /\ ws # <<>> /\ Len(ws) = 1 /\ ws[1] = w
  BY <1>3, <1>5
<1>7. (\A j \in 1..1 : j = 1) /\ 1 \in 1..1 /\ 2..1 = {}
  OBVIOUS
<1>8. CutWell(words, s, ws)
  BY <1>1, <1>3, <1>4, <1>6, <1>7 DEF CutWell
<1> QED
  BY <1>3, <1>5, <1>6, <1>8

\* Behind a window come those from where it ends less the overlap.
LEMMA FurtherWindows ==
  ASSUME NEW X, NEW words \in Seq(X), NEW s \in 0..Len(words),
         ~ WindowEnd(s, Len(words)) >= Len(words),
         NEW ws \in Seq(Seq(X)), ws # <<>>,
         CutWell(words, WindowEnd(s, Len(words)) - Overlap, ws)
  PROVE  /\ <<Window(words, s)>> \o ws \in Seq(Seq(X)) /\ <<Window(words, s)>> \o ws # <<>>
         /\ CutWell(words, s, <<Window(words, s)>> \o ws)
<1>0. Overlap \in Nat /\ Target \in Nat
  BY ParserAssumption
<1>1. PICK n \in Nat : n = Len(words)
  BY LenProperties
<1>2. PICK e : e = WindowEnd(s, n)
  OBVIOUS
<1>3. PICK t : t = e - Overlap
  OBVIOUS
<1>4. e \in s..n /\ e < n /\ t \in (s + 1)..(n - 1) /\ e = t + Overlap
  <2>1. e = s + Target /\ s + Target < n /\ t \in (s + 1)..(n - 1)
    BY <1>1, <1>2, <1>3, WindowsMove
  <2> QED
    BY <1>0, <1>1, <1>3, <2>1
<1>5. PICK w \in Seq(X) : w = Window(words, s)
  BY WindowHolds
<1>6. /\ \A x \in Range(w) : x \in Range(words)
      /\ \A i \in (s + 1)..e : words[i] \in Range(w)
  BY <1>1, <1>2, <1>5, WindowCovers
<1>7. Overlaps(w, Window(words, t))
  BY <1>1, <1>2, <1>3, <1>5, NextWindowOverlaps
<1>8. CutWell(words, t, ws)
  BY <1>1, <1>2, <1>3
<1>9. PICK m \in Nat : m = Len(ws) /\ m >= 1
  BY EmptySeq
<1>10. PICK all : all = <<w>> \o ws
  OBVIOUS
<1>11. /\ all \in Seq(Seq(X)) /\ Len(all) = 1 + m
       /\ all[1] = w /\ \A j \in 2..(m + 1) : all[j] = ws[j - 1]
  <2>1. <<w>> \in Seq(Seq(X)) /\ Len(<<w>>) = 1 /\ <<w>>[1] = w
    OBVIOUS
  <2>2. /\ all \in Seq(Seq(X)) /\ Len(all) = 1 + m
        /\ \A i \in 1..(1 + m) : all[i] = IF i <= 1 THEN <<w>>[i] ELSE ws[i - 1]
    BY <1>9, <1>10, <2>1, ConcatProperties
  <2>3. 1 \in 1..(1 + m) /\ \A j \in 2..(m + 1) : j \in 1..(1 + m) /\ ~ j <= 1
    BY <1>9
  <2> QED
    BY <2>1, <2>2, <2>3
<1>12. all # <<>>
  BY <1>9, <1>11, EmptySeq
<1>13. \A j \in 1..Len(all) : \A x \in Range(all[j]) : x \in Range(words)
  <2> TAKE j \in 1..Len(all)
  <2>1. CASE j = 1
    BY <1>6, <1>11, <2>1
  <2>2. CASE j # 1
    <3>1. j \in 2..(m + 1) /\ j - 1 \in 1..m
      BY <1>9, <1>11, <2>2
    <3> QED
      BY <1>8, <1>9, <1>11, <3>1 DEF CutWell
  <2> QED
    BY <2>1, <2>2
<1>14. \A i \in (s + 1)..n : \E j \in 1..Len(all) : words[i] \in Range(all[j])
  <2> TAKE i \in (s + 1)..n
  <2>1. CASE i <= e
    <3>1. i \in (s + 1)..e /\ 1 \in 1..Len(all)
      BY <1>1, <1>4, <1>9, <1>11, <2>1
    <3> QED
      BY <1>6, <1>11, <3>1
  <2>2. CASE ~ i <= e
    <3>1. i \in (t + 1)..n
      BY <1>0, <1>1, <1>4, <2>2
    <3>2. PICK j \in 1..m : words[i] \in Range(ws[j])
      BY <1>1, <1>8, <1>9, <3>1 DEF CutWell
    <3>3. PICK k : k = j + 1
      OBVIOUS
    <3>4. k \in 2..(m + 1) /\ k \in 1..Len(all) /\ k - 1 = j
      BY <1>9, <1>11, <3>3
    <3> QED
      BY <1>11, <3>2, <3>4
  <2> QED
    BY <2>1, <2>2
<1>15. \A j \in 2..Len(all) : Overlaps(all[j - 1], all[j])
  <2> TAKE j \in 2..Len(all)
  <2>1. CASE j = 2
    <3>1. all[1] = w /\ all[2] = ws[1] /\ ws[1] = Window(words, t)
      BY <1>8, <1>9, <1>11 DEF CutWell
    <3> QED
      BY <1>7, <2>1, <3>1
  <2>2. CASE j # 2
    <3>1. j \in 2..(m + 1) /\ j - 1 \in 2..(m + 1) /\ j - 1 \in 2..m /\ (j - 1) - 1 \in 1..m
      BY <1>9, <1>11, <2>2
    <3>2. all[j] = ws[j - 1] /\ all[j - 1] = ws[(j - 1) - 1]
      BY <1>11, <3>1
    <3>3. Overlaps(ws[(j - 1) - 1], ws[j - 1])
      BY <1>8, <1>9, <3>1 DEF CutWell
    <3> QED
      BY <3>2, <3>3
  <2> QED
    BY <2>1, <2>2
<1>16. CutWell(words, s, all)
  BY <1>1, <1>5, <1>11, <1>13, <1>14, <1>15 DEF CutWell
<1>17. all = <<Window(words, s)>> \o ws
  BY <1>5, <1>10
<1> QED
  BY <1>11, <1>12, <1>16, <1>17, Zenon

LEMMA WindowsCutWell ==
  ASSUME NEW X, NEW words \in Seq(X)
  PROVE  /\ Windows(words) \in Seq(Seq(X)) /\ Windows(words) # <<>>
         /\ CutWell(words, 0, Windows(words))
<1>1. PICK n \in Nat : n = Len(words)
  BY LenProperties
<1>2. PICK f : Cuts(f, words, 0) /\ Windows(words) = f[0]
  BY WindowsCuts
<1> DEFINE Good(s) == f[s] \in Seq(Seq(X)) /\ f[s] # <<>> /\ CutWell(words, s, f[s])
           Bad == {k \in 0..n : ~ Good(n - k)}
<1>3. ASSUME Bad # {} PROVE FALSE
  <2>1. Bad \in SUBSET Nat
    OBVIOUS
  <2> HIDE DEF Bad
  <2>2. PICK k \in Bad : \A j \in Bad : k <= j
    BY <1>3, <2>1, LeastNumber
  <2>3. k \in 0..n /\ ~ Good(n - k)
    BY DEF Bad
  <2>4. PICK s : s = n - k
    OBVIOUS
  <2>5. s \in 0..n /\ ~ Good(s)
    BY <1>1, <2>3, <2>4
  <2>6. PICK e : e = WindowEnd(s, n)
    OBVIOUS
  <2>7. f[s] = <<Window(words, s)>> \o IF e >= n THEN <<>> ELSE f[e - Overlap]
    BY <1>1, <1>2, <2>5, <2>6 DEF Cuts, Window
  <2>8. CASE e >= n
    <3>1. /\ <<Window(words, s)>> \in Seq(Seq(X)) /\ <<Window(words, s)>> # <<>>
          /\ CutWell(words, s, <<Window(words, s)>>)
      BY <1>1, <2>5, <2>6, <2>8, LastWindow
    <3>2. PICK ws \in Seq(Seq(X)) : ws = <<Window(words, s)>>
      BY <3>1
    <3>3. ws \o <<>> = ws
      BY ConcatEmptySeq
    <3>4. f[s] = ws
      BY <2>7, <2>8, <3>2, <3>3
    <3> QED
      BY <2>5, <3>1, <3>2, <3>4
  <2>9. CASE ~ e >= n
    <3>1. PICK t : t = e - Overlap
      OBVIOUS
    <3>2. t \in (s + 1)..(n - 1)
      BY <1>1, <2>5, <2>6, <2>9, <3>1, WindowsMove
    <3>3. PICK j : j = n - t
      OBVIOUS
    <3>4. j \in 0..n /\ ~ k <= j /\ n - j = t
      BY <1>1, <2>3, <2>4, <2>5, <3>2, <3>3
    <3>5. Good(t)
      <4> HIDE DEF Good
      <4> QED
        BY <2>2, <3>4 DEF Bad
    <3>6. PICK ws : ws = f[t]
      OBVIOUS
    <3>7. /\ <<Window(words, s)>> \o ws \in Seq(Seq(X)) /\ <<Window(words, s)>> \o ws # <<>>
          /\ CutWell(words, s, <<Window(words, s)>> \o ws)
      BY <1>1, <2>5, <2>6, <2>9, <3>1, <3>5, <3>6, FurtherWindows
    <3>8. f[s] = <<Window(words, s)>> \o ws
      BY <2>7, <2>9, <3>1, <3>6
    <3> QED
      BY <2>5, <3>7, <3>8
  <2> QED
    BY <2>8, <2>9
<1>4. Good(0)
  <2>1. n \in 0..n /\ n - n = 0
    BY <1>1
  <2> HIDE DEF Good
  <2> QED
    BY <1>3, <2>1
<1> QED
  BY <1>2, <1>4

\* The texts of the chunks of a unit, cut or whole.
LEMMA TextsOfUnit ==
  ASSUME NEW X, NEW words \in Seq(X), NEW texts \in ChunkText(words)
  PROVE  /\ texts \in Seq(Seq(X))
         /\ \A j \in 1..Len(texts) : \A x \in Range(texts[j]) : x \in Range(words)
         /\ \A x \in Range(words) : \E j \in 1..Len(texts) : x \in Range(texts[j])
         /\ \A j \in 2..Len(texts) : Overlaps(texts[j - 1], texts[j])
<1>1. PICK n \in Nat : n = Len(words) /\ DOMAIN words = 1..n
  BY LenProperties
<1>2. CASE texts = <<words>>
  <2>1. texts \in Seq(Seq(X)) /\ Len(texts) = 1 /\ texts[1] = words
    BY <1>2
  <2>2. (\A j \in 1..1 : j = 1) /\ 1 \in 1..1 /\ 2..1 = {}
    OBVIOUS
  <2> QED
    BY <2>1, <2>2
<1>3. CASE texts = Windows(words)
  <2>1. texts \in Seq(Seq(X)) /\ CutWell(words, 0, texts)
    BY <1>3, WindowsCutWell
  <2>2. ASSUME NEW x \in Range(words) PROVE \E j \in 1..Len(texts) : x \in Range(texts[j])
    <3>1. PICK i \in 1..n : words[i] = x
      BY <1>1 DEF Range
    <3>2. i \in (0 + 1)..Len(words)
      BY <1>1
    <3> QED
      BY <2>1, <3>1, <3>2 DEF CutWell
  <2> QED
    BY <2>1, <2>2 DEF CutWell
<1> QED
  BY <1>2, <1>3 DEF ChunkText

-----------------------------------------------------------------------------
(* Lines in order *)

\* The first k elements of an increasing sequence are k in number, and the lowest.
LEMMA FirstLines ==
  ASSUME NEW lines \in Seq(Nat), Increasing(lines), NEW k \in 0..Len(lines)
  PROVE  Cardinality({lines[i] : i \in 1..k}) = k
<1> DEFINE T == {lines[i] : i \in 1..k}
           f == [i \in 1..k |-> lines[i]]
<1>1. Len(lines) \in Nat /\ DOMAIN lines = 1..Len(lines) /\ \A i \in 1..Len(lines) : lines[i] \in Nat
  BY LenProperties, ElementOfSeq
<1>2. \A i, j \in 1..k : lines[i] = lines[j] => i = j
  <2> TAKE i, j \in 1..k
  <2>1. i \in 1..Len(lines) /\ j \in 1..Len(lines)
    BY <1>1
  <2>2. (i < j => lines[i] < lines[j]) /\ (j < i => lines[j] < lines[i])
    BY <1>1, <2>1 DEF Increasing
  <2> QED
    BY <1>1, <2>1, <2>2
<1>3. f \in [1..k -> T] /\ (\A i \in 1..k : f[i] = lines[i]) /\ \A t \in T : \E i \in 1..k : f[i] = t
  OBVIOUS
<1> HIDE DEF f, T
<1>4. f \in Bijection(1..k, T)
  <2>1. \A i, j \in 1..k : f[i] = f[j] => i = j
    BY <1>2, <1>3
  <2> QED
    BY <1>3, <2>1 DEF Bijection, Injection, Surjection, IsInjective
<1>5. k \in Nat /\ IsFiniteSet(1..k) /\ Cardinality(1..k) = k
  <2>1. k \in Nat
    BY <1>1
  <2>2. IsFiniteSet(1..k) /\ Cardinality(1..k) = IF 1 > k THEN 0 ELSE k - 1 + 1
    BY <2>1, FS_Interval
  <2> QED
    BY <2>1, <2>2
<1>6. ExistsBijection(1..k, T)
  BY <1>4 DEF ExistsBijection
<1>7. Cardinality(T) = Cardinality(1..k)
  BY <1>5, <1>6, FS_Bijection
<1> QED
  BY <1>5, <1>7 DEF T

\* Put in order, the lines of an increasing sequence are the sequence.
LEMMA InOrderOfIncreasing ==
  ASSUME NEW lines \in Seq(Nat), Increasing(lines)
  PROVE  InOrder(Range(lines)) = lines
<1> DEFINE R == Range(lines)
<1>1. PICK n \in Nat : n = Len(lines) /\ DOMAIN lines = 1..n /\ \A i \in 1..n : lines[i] \in Nat
  BY LenProperties, ElementOfSeq
<1>2. R = {lines[i] : i \in 1..n}
  BY <1>1 DEF Range
<1>3. Cardinality(R) = n
  <2>1. n \in 0..Len(lines)
    BY <1>1
  <2>2. Cardinality({lines[i] : i \in 1..n}) = n
    BY <2>1, FirstLines
  <2> QED
    BY <1>2, <2>2
<1>4. ASSUME NEW k \in 1..n
      PROVE  Cardinality({j \in R : j <= lines[k]}) = k
  <2>1. {j \in R : j <= lines[k]} = {lines[i] : i \in 1..k}
    <3>1. ASSUME NEW i \in 1..n PROVE lines[i] <= lines[k] <=> i \in 1..k
      <4>1. (i < k => lines[i] < lines[k]) /\ (k < i => lines[k] < lines[i])
        BY <1>1 DEF Increasing
      <4>2. lines[i] \in Nat /\ lines[k] \in Nat
        BY <1>1
      <4> QED
        BY <4>1, <4>2
    <3>2. 1..k \subseteq 1..n
      BY <1>1
    <3> QED
      BY <1>2, <3>1, <3>2
  <2>2. k \in 0..Len(lines)
    BY <1>1
  <2> QED
    BY <2>1, <2>2, FirstLines
<1>5. ASSUME NEW k \in 1..n
      PROVE  (CHOOSE i \in R : Cardinality({j \in R : j <= i}) = k) = lines[k]
  <2> DEFINE P(i) == i \in R /\ Cardinality({j \in R : j <= i}) = k
  <2>1. P(lines[k])
    BY <1>2, <1>4
  <2>2. ASSUME NEW i, P(i) PROVE i = lines[k]
    <3>1. PICK m \in 1..n : i = lines[m]
      BY <1>2, <2>2
    <3>2. m = k
      BY <1>4, <2>2, <3>1
    <3> QED
      BY <3>1, <3>2
  <2>3. (CHOOSE i : P(i)) = lines[k]
    <3> HIDE DEF P
    <3> QED
      BY <2>1, <2>2
  <2> QED
    BY <2>3
<1>6. InOrder(R) = [k \in 1..n |-> CHOOSE i \in R : Cardinality({j \in R : j <= i}) = k]
  BY <1>3 DEF InOrder
<1>7. [k \in 1..n |-> CHOOSE i \in R : Cardinality({j \in R : j <= i}) = k] = [k \in 1..n |-> lines[k]]
  <2> HIDE DEF R
  <2> QED
    BY <1>5
<1>8. lines = [k \in 1..n |-> lines[k]]
  BY <1>1
<1> QED
  BY <1>6, <1>7, <1>8

-----------------------------------------------------------------------------
(* A line is read *)

LEMMA LastLineOf ==
  ASSUME NEW kinds, NEW n \in Nat, NEW i \in 1..(n + 1)
  PROVE  /\ LastLine(kinds, i) \in 0..(i - 1)
         /\ LastLine(kinds, i) # 0 => doc[LastLine(kinds, i)] \in kinds
         /\ \A j \in 1..(i - 1) : doc[j] \in kinds => j <= LastLine(kinds, i)
<1>1. i \in Nat \ {0}
  OBVIOUS
<1>2. LastLine(kinds, i) = Latest(doc, kinds, i)
  BY DEF LastLine, Latest
<1> QED
  BY <1>1, <1>2, LatestOf, Zenon

\* The lines of a document, and the next one, which is of some kind.
LEMMA DocGrows ==
  ASSUME doc \in Seq(Kind), NEW kind \in Kind, doc' = Append(doc, kind), NEW n, n = Len(doc)
  PROVE  /\ n \in Nat /\ Len(doc') = n + 1 /\ doc' \in Seq(Kind)
         /\ DOMAIN doc = 1..n /\ DOMAIN doc' = 1..(n + 1)
         /\ \A i \in 1..n : doc'[i] = doc[i] /\ doc[i] \in Kind
         /\ doc'[n + 1] = kind
         /\ ThisLine = n + 1 /\ ThisLine' = n + 2
<1>1. /\ n \in Nat /\ DOMAIN doc = 1..n
      /\ \A i \in 1..n : doc[i] \in Kind
  BY LenProperties, ElementOfSeq
<1>2. /\ doc' \in Seq(Kind) /\ Len(doc') = n + 1
      /\ \A i \in 1..n : doc'[i] = doc[i]
      /\ doc'[n + 1] = kind
  BY AppendProperties
<1>3. DOMAIN doc' = 1..(n + 1)
  BY <1>2, LenProperties
<1> QED
  BY <1>1, <1>2, <1>3 DEF ThisLine

LEMMA LastLineOfNext ==
  ASSUME doc \in Seq(Kind), NEW kinds, NEW n, n = Len(doc)
  PROVE  /\ n \in Nat
         /\ LastLine(kinds, ThisLine) \in 0..n
         /\ LastLine(kinds, ThisLine) # 0 => doc[LastLine(kinds, ThisLine)] \in kinds
         /\ \A j \in 1..n : doc[j] \in kinds => j <= LastLine(kinds, ThisLine)
<1>1. n \in Nat
  BY LenProperties
<1>2. PICK i : i = ThisLine
  OBVIOUS
<1>3. i \in Nat \ {0} /\ i - 1 = n
  BY <1>1, <1>2 DEF ThisLine
<1>4. LastLine(kinds, i) = Latest(doc, kinds, i)
  BY DEF LastLine, Latest
<1>5. PICK h : h = LastLine(kinds, i)
  OBVIOUS
<1>6. h \in 0..(i - 1) /\ (h # 0 => doc[h] \in kinds) /\ \A j \in 1..(i - 1) : doc[j] \in kinds => j <= h
  BY <1>3, <1>4, <1>5, LatestOf, Zenon
<1>7. h \in 0..n /\ (h # 0 => doc[h] \in kinds) /\ \A j \in 1..n : doc[j] \in kinds => j <= h
  BY <1>3, <1>6
<1> QED
  BY <1>1, <1>2, <1>5, <1>7

LEMMA LastLineGrows ==
  ASSUME doc \in Seq(Kind), NEW kind \in Kind, doc' = Append(doc, kind), NEW n, n = Len(doc)
  PROVE  /\ \A kinds : \A i \in 1..(n + 1) : LastLine(kinds, i)' = LastLine(kinds, i)
         /\ \A kinds : LastLine(kinds, n + 2)' =
              IF kind \in kinds THEN n + 1 ELSE LastLine(kinds, n + 1)
<1>1. n \in Nat
  BY LenProperties
<1>2. ASSUME NEW kinds
      PROVE  /\ \A i \in 1..(n + 1) : LastLine(kinds, i)' = LastLine(kinds, i)
             /\ LastLine(kinds, n + 2)' = IF kind \in kinds THEN n + 1 ELSE LastLine(kinds, n + 1)
  <2>1. \A i : LastLine(kinds, i) = Latest(doc, kinds, i) /\ LastLine(kinds, i)' = Latest(doc', kinds, i)
    BY DEF LastLine, Latest
  <2>2. /\ \A i \in 1..(n + 1) : Latest(doc', kinds, i) = Latest(doc, kinds, i)
        /\ Latest(doc', kinds, n + 2) = IF kind \in kinds THEN n + 1 ELSE Latest(doc, kinds, n + 1)
    BY LatestGrows
  <2> QED
    BY <2>1, <2>2, Zenon
<1> QED
  BY <1>2

\* Where earlier lines stand does not change.
LEMMA PlacesStay ==
  ASSUME doc \in Seq(Kind), NEW kind \in Kind, doc' = Append(doc, kind), NEW n, n = Len(doc)
  PROVE  \A i \in 1..(n + 1) : /\ Enacting(i)' <=> Enacting(i)
                               /\ ChapterOf(i)' = ChapterOf(i)
                               /\ SectionOf(i)' = SectionOf(i)
<1> TAKE i \in 1..(n + 1)
<1>1. \A kinds : LastLine(kinds, i)' = LastLine(kinds, i)
  BY LastLineGrows
<1>2. Enacting(i)' <=> Enacting(i)
  BY <1>1 DEF Enacting
<1>3. ChapterOf(i)' = ChapterOf(i)
  BY <1>1 DEF ChapterOf
<1>4. SectionOf(i)' = SectionOf(i)
  BY <1>1, <1>3 DEF SectionOf
<1> QED
  BY <1>2, <1>3, <1>4

\* The line belongs to the article or the recital that was begun last.
LEMMA UnitsGrow ==
  ASSUME doc \in Seq(Kind), NEW kind \in Kind, doc' = Append(doc, kind), NEW n, n = Len(doc)
  PROVE  /\ \A a, i : i \in Article(a)' <=>
              \/ i \in Article(a)
              \/ i = n + 1 /\ kind \in Prose /\ Enacting(n + 1) /\ LastLine(Heading, n + 1) = a
         /\ \A r, i : i \in Recital(r)' <=>
              \/ i \in Recital(r)
              \/ i = n + 1 /\ kind = "text" /\ ~ Enacting(n + 1) /\ LastLine({"recital"}, n + 1) = r
<1>1. /\ n \in Nat /\ DOMAIN doc = 1..n /\ DOMAIN doc' = 1..(n + 1)
      /\ \A i \in 1..n : doc'[i] = doc[i]
      /\ doc'[n + 1] = kind
  BY DocGrows
<1>2. \A kinds : \A i \in 1..(n + 1) : LastLine(kinds, i)' = LastLine(kinds, i)
  BY LastLineGrows
<1>3. \A i \in 1..(n + 1) : Enacting(i)' <=> Enacting(i)
  BY PlacesStay
<1>4. \A i : i \in 1..(n + 1) <=> i \in 1..n \/ i = n + 1
  BY <1>1
<1>0. n + 1 \notin 1..n
  BY <1>1
<1>5. ASSUME NEW a, NEW i
      PROVE  i \in Article(a)' <=>
              \/ i \in Article(a)
              \/ i = n + 1 /\ kind \in Prose /\ Enacting(n + 1) /\ LastLine(Heading, n + 1) = a
  <2>1. i \in Article(a)' <=>
          i \in 1..(n + 1) /\ doc'[i] \in Prose /\ Enacting(i)' /\ LastLine(Heading, i)' = a
    BY <1>1 DEF Article
  <2>2. i \in Article(a) <=>
          i \in 1..n /\ doc[i] \in Prose /\ Enacting(i) /\ LastLine(Heading, i) = a
    BY <1>1 DEF Article
  <2> QED
    BY <1>0, <1>1, <1>2, <1>3, <1>4, <2>1, <2>2
<1>6. ASSUME NEW r, NEW i
      PROVE  i \in Recital(r)' <=>
              \/ i \in Recital(r)
              \/ i = n + 1 /\ kind = "text" /\ ~ Enacting(n + 1) /\ LastLine({"recital"}, n + 1) = r
  <2>1. i \in Recital(r)' <=>
          i = r \/ (i \in 1..(n + 1) /\ doc'[i] = "text" /\ ~ Enacting(i)' /\ LastLine({"recital"}, i)' = r)
    BY <1>1 DEF Recital
  <2>2. i \in Recital(r) <=>
          i = r \/ (i \in 1..n /\ doc[i] = "text" /\ ~ Enacting(i) /\ LastLine({"recital"}, i) = r)
    BY <1>1 DEF Recital
  <2> QED
    BY <1>0, <1>1, <1>2, <1>3, <1>4, <2>1, <2>2
<1> QED
  BY <1>5, <1>6

\* A further title is not the first.
LEMMA TitleGrows ==
  ASSUME doc \in Seq(Kind), NEW kind \in Kind, doc' = Append(doc, kind), NEW n, n = Len(doc), NEW a
  PROVE  TitleOf(a)' = IF kind = "title" /\ LastLine(Heading, n + 1) = a /\ TitleOf(a) = 0
                       THEN n + 1 ELSE TitleOf(a)
<1> DEFINE T == {i \in DOMAIN doc : doc[i] = "title" /\ LastLine(Heading, i) = a}
           new == kind = "title" /\ LastLine(Heading, n + 1) = a
           U == IF new THEN T \cup {n + 1} ELSE T
<1>1. /\ n \in Nat /\ DOMAIN doc = 1..n /\ DOMAIN doc' = 1..(n + 1)
      /\ \A i \in 1..n : doc'[i] = doc[i]
      /\ doc'[n + 1] = kind
  BY DocGrows
<1>2. \A kinds : \A i \in 1..(n + 1) : LastLine(kinds, i)' = LastLine(kinds, i)
  BY LastLineGrows
<1>3. {i \in DOMAIN doc' : doc'[i] = "title" /\ LastLine(Heading, i)' = a} = U
  <2>1. \A i : i \in 1..(n + 1) <=> i \in 1..n \/ i = n + 1
    BY <1>1
  <2>2. \A i : i \in U <=> i \in T \/ (new /\ i = n + 1)
    OBVIOUS
  <2> QED
    BY <1>1, <1>2, <2>1, <2>2
<1>4. TitleOf(a) = IF T = {} THEN 0 ELSE Min(T)
  BY DEF TitleOf
<1>5. TitleOf(a)' = IF U = {} THEN 0 ELSE Min(U)
  BY <1>3 DEF TitleOf
<1>6. T \in SUBSET (1..n)
  BY <1>1
<1> HIDE DEF T
<1>7. CASE ~ new
  BY <1>4, <1>5, <1>7
<1>8. CASE new /\ T = {}
  <2>1. U = {n + 1}
    BY <1>8
  <2>2. Min({n + 1}) = n + 1
    BY <1>1 DEF Min
  <2> QED
    BY <1>4, <1>5, <1>8, <2>1, <2>2
<1>9. CASE new /\ T # {}
  <2>1. PICK m \in T : \A k \in T : m <= k
    BY <1>1, <1>6, <1>9, LeastNumber
  <2>2. U = T \cup {n + 1} /\ m \in 1..n
    BY <1>6, <1>9
  <2> HIDE DEF U
  <2>3. Min(T) = m
    <3>1. \A x \in T : (\A k \in T : x <= k) => x = m
      BY <1>6, <2>1
    <3> QED
      BY <2>1, <3>1 DEF Min
  <2>4. Min(U) = m
    <3>1. m \in U /\ \A k \in U : m <= k
      BY <1>1, <2>1, <2>2
    <3>2. \A x \in U : (\A k \in U : x <= k) => x = m
      BY <1>1, <1>6, <2>1, <2>2
    <3> QED
      BY <3>1, <3>2 DEF Min
  <2>5. m # 0 /\ U # {}
    BY <2>1, <2>2
  <2> QED
    BY <1>4, <1>5, <1>9, <2>3, <2>4, <2>5
<1> QED
  BY <1>7, <1>8, <1>9

-----------------------------------------------------------------------------
(* A unit is flushed *)

\* What is added to the chunks.
LEMMA ChunksAdded ==
  ASSUME NEW cs \in Seq(Chunk), NEW more \in Seq(Chunk),
         \A i \in 2..Len(cs) : Meet(cs[i - 1], cs[i]),
         \A i \in 2..Len(more) : Meet(more[i - 1], more[i]),
         \A c \in Range(cs), d \in Range(more) : Meet(c, d)
  PROVE  /\ cs \o more \in Seq(Chunk)
         /\ \A c : c \in Range(cs \o more) <=> c \in Range(cs) \/ c \in Range(more)
         /\ \A i \in 2..Len(cs \o more) : Meet((cs \o more)[i - 1], (cs \o more)[i])
<1>1. PICK m \in Nat : m = Len(cs) /\ DOMAIN cs = 1..m
  BY LenProperties
<1>2. PICK n \in Nat : n = Len(more) /\ DOMAIN more = 1..n
  BY LenProperties
<1>3. PICK all : all = cs \o more
  OBVIOUS
<1>4. /\ all \in Seq(Chunk) /\ Len(all) = m + n
      /\ \A i \in 1..(m + n) : all[i] = IF i <= m THEN cs[i] ELSE more[i - m]
  BY <1>1, <1>2, <1>3, ConcatProperties
<1>5. ASSUME NEW i \in 2..(m + n) PROVE Meet(all[i - 1], all[i])
  <2>1. PICK j : j = i - 1
    OBVIOUS
  <2>2. i \in 1..(m + n) /\ j \in 1..(m + n)
    BY <1>1, <1>2, <2>1
  <2>3. CASE i <= m
    <3>1. i \in 2..Len(cs) /\ j <= m
      BY <1>1, <2>1, <2>3
    <3>2. all[i] = cs[i] /\ all[j] = cs[j]
      BY <1>4, <2>2, <2>3, <3>1
    <3>3. Meet(cs[j], cs[i])
      BY <2>1, <3>1
    <3> QED
      BY <2>1, <3>2, <3>3
  <2>4. CASE i = m + 1
    <3>1. m \in 1..m /\ 1 \in 1..n /\ j = m /\ i - m = 1 /\ ~ i <= m
      BY <1>1, <1>2, <2>1, <2>4
    <3>2. all[i] = more[1] /\ all[j] = cs[m]
      BY <1>1, <1>4, <2>2, <3>1
    <3>3. cs[m] \in Range(cs) /\ more[1] \in Range(more)
      BY <1>1, <1>2, <3>1 DEF Range
    <3> QED
      BY <2>1, <3>2, <3>3
  <2>5. CASE i > m + 1
    <3>1. PICK k : k = i - m
      OBVIOUS
    <3>2. k \in 2..n /\ ~ i <= m /\ ~ j <= m /\ j - m = k - 1
      BY <1>1, <1>2, <2>1, <2>5, <3>1
    <3>3. all[i] = more[k] /\ all[j] = more[k - 1]
      BY <1>4, <2>2, <3>1, <3>2
    <3>4. Meet(more[k - 1], more[k])
      BY <1>2, <3>2
    <3> QED
      BY <2>1, <3>3, <3>4
  <2>6. i <= m \/ i = m + 1 \/ i > m + 1
    BY <1>1, <1>2
  <2> QED
    BY <2>3, <2>4, <2>5, <2>6
<1>6. \A c : c \in Range(all) <=> c \in Range(cs) \/ c \in Range(more)
  BY <1>3, InBoth
<1> QED
  BY <1>3, <1>4, <1>5, <1>6

LEMMA RangeOfNothing == Range(<<>>) = {}
<1>1. DOMAIN <<>> = {}
  OBVIOUS
<1> QED
  BY <1>1 DEF Range

\* While the recitals last an article has no text.
LEMMA NoBodyInRecitals ==
  ASSUME TypeOK, Walk, inRecitals
  PROVE  body = <<>>
<1>1. CASE article = 0
  BY <1>1 DEF Walk, ArticleSoFar
<1>2. CASE article # 0
  <2>1. PICK n \in Nat : n = Len(doc) /\ DOMAIN doc = 1..n
    BY LenProperties DEF TypeOK
  <2>2. ASSUME NEW i \in 1..n, Enacting(i) PROVE FALSE
    <3> DEFINE K == {"chapter", "annex"}
    <3>1. i \in 1..(n + 1)
      BY <2>1
    <3>2. /\ LastLine(K, i) \in 0..(i - 1)
          /\ LastLine(K, i) # 0 => doc[LastLine(K, i)] \in K
      BY <2>1, <3>1, LastLineOf
    <3>3. doc \in Seq(Kind)
      BY DEF TypeOK
    <3>4. \A j \in 1..n : doc[j] \in K => j <= LastLine(K, ThisLine)
      <4> HIDE DEF K
      <4> QED
        BY <2>1, <3>3, LastLineOfNext
    <3>5. LastLine(K, i) # 0 /\ LastLine(K, ThisLine) = 0
      BY <2>2 DEF Enacting, Walk, PlaceOfLine
    <3> HIDE DEF K
    <3>6. PICK j : j = LastLine(K, i)
      OBVIOUS
    <3>7. j \in 1..n /\ doc[j] \in K
      BY <2>1, <3>2, <3>5, <3>6
    <3>8. j <= 0
      BY <3>4, <3>5, <3>7
    <3> QED
      BY <3>7, <3>8
  <2>3. Article(article) = {}
    BY <2>1, <2>2 DEF Article
  <2>4. Range(body) = {}
    BY <1>2, <2>3 DEF Walk, ArticleSoFar
  <2>5. Len(body) \in Nat /\ DOMAIN body = 1..Len(body) /\ body \in Seq(Line)
    BY LenProperties DEF TypeOK
  <2>6. Len(body) = 0
    <3>1. CASE Len(body) # 0
      <4>1. 1 \in DOMAIN body
        BY <2>5, <3>1
      <4> QED
        BY <2>4, <4>1 DEF Range
    <3> QED
      BY <3>1
  <2> QED
    BY <2>5, <2>6, EmptySeq
<1> QED
  BY <1>1, <1>2

\* The chunk of a text of the article that is being read.
ArticleChunk(text) ==
  [recital |-> 0, article |-> article, title |-> title, chapter |-> chapter,
   section |-> section, text |-> text, parent |-> WordsOf(body)]

LEMMA ArticleChunkHolds ==
  ASSUME TypeOK, Walk, article # 0, NEW text \in Seq(Word),
         \A w \in Range(text) : w \in Range(WordsOf(body))
  PROVE  /\ ArticleChunk(text) \in Chunk
         /\ ArticleChunk(text).recital = 0
         /\ ArticleChunk(text).article = article
         /\ ArticleChunk(text).text = text
         /\ Filed(ArticleChunk(text))
         /\ Before(ArticleChunk(text), ThisLine)
<1>1. PICK c : c = ArticleChunk(text)
  OBVIOUS
<1>2. /\ c.recital = 0 /\ c.article = article /\ c.title = title /\ c.chapter = chapter
      /\ c.section = section /\ c.text = text /\ c.parent = WordsOf(body)
  BY <1>1 DEF ArticleChunk
<1>3. body \in Seq(Line)
  BY DEF TypeOK
<1>4. /\ WordsOf(body) \in Seq(Word)
      /\ \A w \in Range(WordsOf(body)) : w[1] \in Range(body)
  BY <1>3, WordsOfLines
<1>5. c \in Chunk
  <2>1. article \in Line /\ {title, chapter, section} \subseteq Line \cup {0}
    BY DEF TypeOK
  <2> QED
    BY <1>1, <1>4, <2>1 DEF ArticleChunk, Chunk
<1>6. /\ article = LastLine(Heading, ThisLine) /\ doc[article] = "article"
      /\ chapter = ChapterOf(article) /\ section = SectionOf(article) /\ title = TitleOf(article)
      /\ Range(body) = Article(article) /\ Increasing(body)
  BY DEF Walk, ArticleSoFar
<1>7. InOrder(Article(article)) = body
  <2>1. Line \subseteq Nat
    BY ParserAssumption DEF Line
  <2>2. body \in Seq(Nat)
    BY <1>3, <2>1, SeqMonotonic
  <2> QED
    BY <1>6, <2>2, InOrderOfIncreasing
<1>8. LinesIn(text) \subseteq Article(article)
  BY <1>4, <1>6 DEF LinesIn, Range
<1>9. Filed(c)
  BY <1>2, <1>6, <1>7, <1>8 DEF Filed
<1>10. Before(c, ThisLine)
  <2>1. PICK n : n = Len(doc)
    OBVIOUS
  <2>2. doc \in Seq(Kind)
    BY DEF TypeOK
  <2>3. n \in Nat /\ article \in 0..n
    BY <1>6, <2>1, <2>2, LastLineOfNext
  <2>4. article < ThisLine
    BY <2>1, <2>3 DEF ThisLine
  <2> QED
    BY <1>2, <2>4 DEF Before
<1> QED
  BY <1>1, <1>2, <1>5, <1>9, <1>10

\* What holds of the chunks when nothing is flushed.
LEMMA LaterHeading ==
  ASSUME TypeOK, ChunksSound(chunks, LastLine(Heading, ThisLine))
  PROVE  ChunksSound(chunks, ThisLine)
<1>1. PICK n : n = Len(doc)
  OBVIOUS
<1>2. doc \in Seq(Kind) /\ chunks \in Seq(Chunk)
  BY DEF TypeOK
<1>3. PICK h : h = LastLine(Heading, ThisLine)
  OBVIOUS
<1>4. n \in Nat /\ h \in 0..n /\ ThisLine = n + 1
  BY <1>1, <1>2, <1>3, LastLineOfNext DEF ThisLine
<1>5. ASSUME NEW c \in Range(chunks) PROVE Before(c, ThisLine)
  <2>1. c \in Chunk
    <3>1. PICK i \in 1..Len(chunks) : c = chunks[i]
      BY <1>2, LenProperties DEF Range
    <3> QED
      BY <1>2, <3>1, ElementOfSeq
  <2>2. c.recital = 0 => c.article \in Nat
    BY <2>1, ParserAssumption DEF Chunk, Line
  <2>3. Before(c, h)
    BY <1>3 DEF ChunksSound
  <2> QED
    BY <1>4, <2>2, <2>3 DEF Before
<1> QED
  BY <1>3, <1>5 DEF ChunksSound

\* The text of the article goes to its chunks, all of it.
LEMMA FlushArticleKeeps ==
  ASSUME TypeOK, Walk, FlushArticle,
         ChunksSound(chunks, LastLine(Heading, ThisLine)), Kept(chunks, body, recitalLines)
  PROVE  \E cs \in Seq(Chunk) : /\ chunks' = cs /\ body' = <<>>
                                /\ ChunksSound(cs, ThisLine) /\ Kept(cs, <<>>, recitalLines)
<1>1. body' = <<>>
  BY DEF FlushArticle, Walk, ArticleSoFar
<1>2. chunks \in Seq(Chunk) /\ body \in Seq(Line)
  BY DEF TypeOK
<1>3. CASE article = 0 \/ body = <<>>
  <2>1. body = <<>>
    BY <1>3 DEF Walk, ArticleSoFar
  <2>2. chunks' = chunks
    BY <1>3 DEF FlushArticle
  <2>3. ChunksSound(chunks, ThisLine)
    BY LaterHeading
  <2> QED
    BY <1>1, <1>2, <2>1, <2>2, <2>3
<1>4. CASE ~ (article = 0 \/ body = <<>>)
  <2>1. PICK texts \in ChunkText(WordsOf(body)) :
          chunks' = chunks \o [i \in DOMAIN texts |-> ArticleChunk(texts[i])]
    BY <1>4 DEF FlushArticle, ArticleChunk
  <2>2. /\ WordsOf(body) \in Seq(Word)
        /\ \A i \in Range(body), k \in 1..LineWords : <<i, k>> \in Range(WordsOf(body))
    BY <1>2, WordsOfLines
  <2>3. /\ texts \in Seq(Seq(Word))
        /\ \A j \in 1..Len(texts) : \A x \in Range(texts[j]) : x \in Range(WordsOf(body))
        /\ \A x \in Range(WordsOf(body)) : \E j \in 1..Len(texts) : x \in Range(texts[j])
        /\ \A j \in 2..Len(texts) : Overlaps(texts[j - 1], texts[j])
    BY <2>2, TextsOfUnit
  <2>4. PICK n \in Nat : n = Len(texts) /\ DOMAIN texts = 1..n /\ \A j \in 1..n : texts[j] \in Seq(Word)
    BY <2>3, LenProperties, ElementOfSeq
  <2>5. \A j \in 1..n : /\ ArticleChunk(texts[j]) \in Chunk
                        /\ ArticleChunk(texts[j]).recital = 0
                        /\ ArticleChunk(texts[j]).article = article
                        /\ ArticleChunk(texts[j]).text = texts[j]
                        /\ Filed(ArticleChunk(texts[j]))
                        /\ Before(ArticleChunk(texts[j]), ThisLine)
    BY <1>4, <2>3, <2>4, ArticleChunkHolds
  <2>6. PICK more : more = [i \in 1..n |-> ArticleChunk(texts[i])]
    OBVIOUS
  <2>7. /\ more \in Seq(Chunk) /\ Len(more) = n /\ DOMAIN more = 1..n
        /\ \A j \in 1..n : more[j] = ArticleChunk(texts[j])
    <3>1. more \in [1..n -> Chunk]
      BY <2>5, <2>6
    <3> QED
      BY <2>4, <2>6, <3>1
  <2>8. \A j \in 1..n : /\ more[j].recital = 0 /\ more[j].article = article /\ more[j].text = texts[j]
                        /\ Filed(more[j]) /\ Before(more[j], ThisLine)
    BY <2>5, <2>7
  <2>9. \A i \in 2..Len(more) : Meet(more[i - 1], more[i])
    <3> TAKE i \in 2..Len(more)
    <3>1. i \in 1..n /\ i - 1 \in 1..n
      BY <2>4, <2>7
    <3>2. Overlaps(texts[i - 1], texts[i])
      BY <2>3, <2>4, <2>7
    <3> QED
      BY <2>8, <3>1, <3>2 DEF Meet, Overlaps
  <2>10. ASSUME NEW c \in Range(chunks), NEW d \in Range(more) PROVE Meet(c, d)
    <3>1. d.article = article /\ article = LastLine(Heading, ThisLine)
      BY <1>4, <2>7, <2>8 DEF Range, Walk, ArticleSoFar
    <3>2. c.recital = 0 => c.article < article
      BY <3>1 DEF ChunksSound, Before
    <3>3. article \in Nat
      BY ParserAssumption DEF TypeOK, Line
    <3> QED
      BY <3>1, <3>2, <3>3 DEF Meet
  <2>11. PICK cs : cs = chunks \o more
    OBVIOUS
  <2>12. /\ cs \in Seq(Chunk)
         /\ \A c : c \in Range(cs) <=> c \in Range(chunks) \/ c \in Range(more)
         /\ \A i \in 2..Len(cs) : Meet(cs[i - 1], cs[i])
    <3>1. \A i \in 2..Len(chunks) : Meet(chunks[i - 1], chunks[i])
      BY DEF ChunksSound
    <3> QED
      BY <1>2, <2>7, <2>9, <2>10, <2>11, <3>1, ChunksAdded
  <2>13. ChunksSound(cs, ThisLine)
    <3>1. \A c \in Range(chunks) : Filed(c) /\ Before(c, ThisLine)
      BY LaterHeading DEF ChunksSound
    <3>2. \A c \in Range(more) : Filed(c) /\ Before(c, ThisLine)
      BY <2>7, <2>8 DEF Range
    <3> QED
      BY <2>12, <3>1, <3>2 DEF ChunksSound
  <2>14. Kept(cs, <<>>, recitalLines)
    <3> SUFFICES ASSUME NEW i \in DOMAIN doc, NEW k \in 1..LineWords
                 PROVE  /\ \A a \in DOMAIN doc : doc[a] = "article" /\ i \in Article(a) =>
                             (a = article /\ i \in Range(<<>>)) \/ InArticle(cs, a, i, k)
                        /\ \A r \in DOMAIN doc : doc[r] = "recital" /\ ~ Enacting(r) /\ i \in Recital(r) =>
                             (r = recital /\ i \in Range(recitalLines)) \/ InRecital(cs, r, i, k)
      BY DEF Kept
    <3>1. \A a : InArticle(chunks, a, i, k) => InArticle(cs, a, i, k)
      BY <2>12 DEF InArticle
    <3>2. \A r : InRecital(chunks, r, i, k) => InRecital(cs, r, i, k)
      BY <2>12 DEF InRecital
    <3>3. ASSUME i \in Range(body) PROVE InArticle(cs, article, i, k)
      <4>1. PICK j \in 1..n : <<i, k>> \in Range(texts[j])
        BY <2>2, <2>3, <2>4, <3>3
      <4>2. more[j] \in Range(cs)
        BY <2>7, <2>12 DEF Range
      <4> QED
        BY <2>8, <4>1, <4>2 DEF InArticle
    <3> QED
      BY <3>1, <3>2, <3>3 DEF Kept
  <2>15. chunks' = cs
    BY <2>1, <2>4, <2>6, <2>11
  <2> QED
    BY <1>1, <2>12, <2>13, <2>14, <2>15
<1> QED
  BY <1>3, <1>4

RecitalChunk(text) == [recital |-> recital, text |-> text]

\* The text of the recital goes to its chunks, all of it.
LEMMA FlushSingleRecitalKeeps ==
  ASSUME TypeOK, Walk, inRecitals, FlushSingleRecital, NEW n,
         ChunksSound(chunks, n), Kept(chunks, body, recitalLines)
  PROVE  \E cs \in Seq(Chunk) : chunks' = cs /\ ChunksSound(cs, n) /\ Kept(cs, body, <<>>)
<1>1. chunks \in Seq(Chunk) /\ recitalLines \in Seq(Line)
  BY DEF TypeOK
<1>2. CASE recital = 0 \/ recitalLines = <<>>
  <2>1. recitalLines = <<>>
    BY <1>2 DEF Walk, RecitalSoFar
  <2>2. chunks' = chunks
    BY <1>2 DEF FlushSingleRecital
  <2> QED
    BY <1>1, <2>1, <2>2
<1>3. CASE ~ (recital = 0 \/ recitalLines = <<>>)
  <2>1. PICK texts \in ChunkText(WordsOf(recitalLines)) :
          chunks' = chunks \o [i \in DOMAIN texts |-> RecitalChunk(texts[i])]
    BY <1>3 DEF FlushSingleRecital, RecitalChunk
  <2>2. /\ WordsOf(recitalLines) \in Seq(Word)
        /\ \A w \in Range(WordsOf(recitalLines)) : w[1] \in Range(recitalLines)
        /\ \A i \in Range(recitalLines), k \in 1..LineWords : <<i, k>> \in Range(WordsOf(recitalLines))
    BY <1>1, WordsOfLines
  <2>3. /\ texts \in Seq(Seq(Word))
        /\ \A j \in 1..Len(texts) : \A x \in Range(texts[j]) : x \in Range(WordsOf(recitalLines))
        /\ \A x \in Range(WordsOf(recitalLines)) : \E j \in 1..Len(texts) : x \in Range(texts[j])
    BY <2>2, TextsOfUnit
  <2>4. PICK m \in Nat : m = Len(texts) /\ DOMAIN texts = 1..m /\ \A j \in 1..m : texts[j] \in Seq(Word)
    BY <2>3, LenProperties, ElementOfSeq
  <2>5. recital \in Line /\ recital # 0 /\ recital <= Len(doc) /\ doc[recital] = "recital"
    <3>1. doc \in Seq(Kind) /\ recital \in Line
      BY <1>3 DEF TypeOK
    <3>2. PICK z : z = Len(doc)
      OBVIOUS
    <3>3. recital = LastLine({"recital"}, ThisLine)
      BY DEF Walk, RecitalSoFar
    <3>4. recital \in 0..z /\ z \in Nat /\ (recital # 0 => doc[recital] \in {"recital"})
      BY <3>1, <3>2, <3>3, LastLineOfNext
    <3> QED
      BY <1>3, <3>1, <3>2, <3>4
  <2>6. Range(recitalLines) \subseteq Recital(recital)
    BY <1>3 DEF Walk, RecitalSoFar
  <2>7. ASSUME NEW j \in 1..m
        PROVE  /\ RecitalChunk(texts[j]) \in Chunk
               /\ RecitalChunk(texts[j]).recital = recital
               /\ RecitalChunk(texts[j]).text = texts[j]
               /\ Filed(RecitalChunk(texts[j]))
               /\ Before(RecitalChunk(texts[j]), n)
    <3>1. PICK c : c = RecitalChunk(texts[j])
      OBVIOUS
    <3>2. c.recital = recital /\ c.text = texts[j]
      BY <3>1 DEF RecitalChunk
    <3>3. c \in Chunk
      BY <2>4, <2>5, <3>1 DEF RecitalChunk, Chunk
    <3>4. LinesIn(texts[j]) \subseteq Recital(recital)
      BY <2>2, <2>3, <2>4, <2>6 DEF LinesIn, Range
    <3>5. Filed(c) /\ Before(c, n)
      BY <2>5, <3>2, <3>4 DEF Filed, Before
    <3> QED
      BY <3>1, <3>2, <3>3, <3>5
  <2>8. PICK more : more = [i \in 1..m |-> RecitalChunk(texts[i])]
    OBVIOUS
  <2>9. /\ more \in Seq(Chunk) /\ Len(more) = m /\ DOMAIN more = 1..m
        /\ \A j \in 1..m : more[j] = RecitalChunk(texts[j])
    <3>1. more \in [1..m -> Chunk]
      BY <2>7, <2>8
    <3> QED
      BY <2>4, <2>8, <3>1
  <2>10. \A j \in 1..m : /\ more[j].recital = recital /\ more[j].text = texts[j]
                         /\ Filed(more[j]) /\ Before(more[j], n)
    BY <2>7, <2>9
  <2>11. \A i \in 2..Len(more) : Meet(more[i - 1], more[i])
    <3> TAKE i \in 2..Len(more)
    <3>1. i \in 1..m
      BY <2>4, <2>9
    <3> QED
      BY <2>5, <2>10, <3>1 DEF Meet
  <2>12. \A c \in Range(chunks), d \in Range(more) : Meet(c, d)
    BY <2>5, <2>9, <2>10 DEF Meet, Range
  <2>13. PICK cs : cs = chunks \o more
    OBVIOUS
  <2>14. /\ cs \in Seq(Chunk)
         /\ \A c : c \in Range(cs) <=> c \in Range(chunks) \/ c \in Range(more)
         /\ \A i \in 2..Len(cs) : Meet(cs[i - 1], cs[i])
    <3>1. \A i \in 2..Len(chunks) : Meet(chunks[i - 1], chunks[i])
      BY DEF ChunksSound
    <3> QED
      BY <1>1, <2>9, <2>11, <2>12, <2>13, <3>1, ChunksAdded
  <2>15. ChunksSound(cs, n)
    <3>1. \A c \in Range(more) : Filed(c) /\ Before(c, n)
      BY <2>9, <2>10 DEF Range
    <3> QED
      BY <2>14, <3>1 DEF ChunksSound
  <2>16. Kept(cs, body, <<>>)
    <3> SUFFICES ASSUME NEW i \in DOMAIN doc, NEW k \in 1..LineWords
                 PROVE  /\ \A a \in DOMAIN doc : doc[a] = "article" /\ i \in Article(a) =>
                             (a = article /\ i \in Range(body)) \/ InArticle(cs, a, i, k)
                        /\ \A r \in DOMAIN doc : doc[r] = "recital" /\ ~ Enacting(r) /\ i \in Recital(r) =>
                             (r = recital /\ i \in Range(<<>>)) \/ InRecital(cs, r, i, k)
      BY DEF Kept
    <3>1. \A a : InArticle(chunks, a, i, k) => InArticle(cs, a, i, k)
      BY <2>14 DEF InArticle
    <3>2. \A r : InRecital(chunks, r, i, k) => InRecital(cs, r, i, k)
      BY <2>14 DEF InRecital
    <3>3. ASSUME i \in Range(recitalLines) PROVE InRecital(cs, recital, i, k)
      <4>1. PICK j \in 1..m : <<i, k>> \in Range(texts[j])
        BY <2>2, <2>3, <2>4, <3>3
      <4>2. more[j] \in Range(cs)
        BY <2>9, <2>14 DEF Range
      <4> QED
        BY <2>10, <4>1, <4>2 DEF InRecital
    <3> QED
      BY <3>1, <3>2, <3>3 DEF Kept
  <2>17. chunks' = cs
    BY <2>1, <2>4, <2>8, <2>13
  <2> QED
    BY <2>14, <2>15, <2>16, <2>17
<1> QED
  BY <1>2, <1>3

\* Whichever of the two was being read, nothing of either is left to flush.
LEMMA EndUnitKeeps ==
  ASSUME TypeOK, Walk, EndUnit,
         ChunksSound(chunks, LastLine(Heading, ThisLine)), Kept(chunks, body, recitalLines)
  PROVE  \E cs \in Seq(Chunk) : /\ chunks' = cs /\ body' = <<>> /\ recitalLines' = <<>>
                                /\ ChunksSound(cs, ThisLine) /\ Kept(cs, <<>>, <<>>)
<1>1. CASE inRecitals /\ recital # 0 /\ FlushSingleRecital /\ recitalLines' = <<>> /\ body' = body
  <2>1. body = <<>>
    BY <1>1, NoBodyInRecitals
  <2>2. ChunksSound(chunks, ThisLine)
    BY LaterHeading
  <2>3. \E cs \in Seq(Chunk) : chunks' = cs /\ ChunksSound(cs, ThisLine) /\ Kept(cs, body, <<>>)
    <3>1. PICK n : n = ThisLine
      OBVIOUS
    <3> QED
      BY <1>1, <2>2, <3>1, FlushSingleRecitalKeeps
  <2> QED
    BY <1>1, <2>1, <2>3
<1>2. CASE ~ (inRecitals /\ recital # 0) /\ FlushArticle /\ recitalLines' = recitalLines
  <2>1. recitalLines = <<>>
    BY <1>2 DEF Walk, RecitalSoFar
  <2>2. \E cs \in Seq(Chunk) : /\ chunks' = cs /\ body' = <<>>
                               /\ ChunksSound(cs, ThisLine) /\ Kept(cs, <<>>, recitalLines)
    BY <1>2, FlushArticleKeeps
  <2> QED
    BY <1>2, <2>1, <2>2
<1> QED
  BY <1>1, <1>2 DEF EndUnit

-----------------------------------------------------------------------------
(* What a further line changes *)

LEMMA ChunkOfChunks ==
  ASSUME NEW cs \in Seq(Chunk), NEW c \in Range(cs)
  PROVE  /\ c.recital # 0 => c.recital \in Nat \ {0}
         /\ c.recital = 0 => c.article \in Nat \ {0}
<1>1. PICK i \in 1..Len(cs) : c = cs[i]
  BY LenProperties DEF Range
<1>2. c \in Chunk
  BY <1>1, ElementOfSeq
<1>3. Line \subseteq Nat \ {0}
  BY ParserAssumption DEF Line
<1> QED
  BY <1>2, <1>3 DEF Chunk

\* A chunk stays filed: the line belongs to no article that has been flushed.
LEMMA ChunksLater ==
  ASSUME doc \in Seq(Kind), NEW kind \in Kind, doc' = Append(doc, kind), NEW n, n = Len(doc),
         NEW cs \in Seq(Chunk), NEW h, ChunksSound(cs, h),
         h = IF kind \in Heading THEN n + 1 ELSE LastLine(Heading, n + 1)
  PROVE  ChunksSound(cs, LastLine(Heading, ThisLine))'
<1>1. /\ n \in Nat /\ Len(doc') = n + 1
      /\ \A i \in 1..n : doc'[i] = doc[i]
      /\ ThisLine = n + 1 /\ ThisLine' = n + 2
  BY DocGrows
<1>2. LastLine(Heading, n + 1) \in 0..n
  BY <1>1, LastLineOfNext
<1>3. LastLine(Heading, ThisLine)' = h
  <2>1. LastLine(Heading, n + 2)' = h
    BY LastLineGrows
  <2> QED
    BY <1>1, <2>1 DEF LastLine
<1>4. h \in 0..(n + 1)
  BY <1>1, <1>2
<1>5. ASSUME NEW c \in Range(cs) PROVE Filed(c)' /\ Before(c, h)'
  <2>1. Filed(c) /\ Before(c, h)
    BY DEF ChunksSound
  <2>2. /\ c.recital # 0 => c.recital \in 1..n
        /\ c.recital = 0 => c.article \in 1..n /\ c.article < h
    BY <1>1, <1>4, <2>1, ChunkOfChunks DEF Before
  <2>3. CASE c.recital # 0
    <3>1. doc'[c.recital] = doc[c.recital]
      BY <1>1, <2>2, <2>3
    <3>2. \A i : i \in Recital(c.recital) => i \in Recital(c.recital)'
      BY UnitsGrow
    <3> QED
      BY <1>1, <2>1, <2>2, <2>3, <3>1, <3>2 DEF Filed, Before, LinesIn
  <2>4. CASE c.recital = 0
    <3> DEFINE a == c.article
    <3>1. doc'[a] = doc[a] /\ a \in 1..(n + 1)
      BY <1>1, <2>2, <2>4
    <3>2. ~ (kind \notin Heading /\ LastLine(Heading, n + 1) = a)
      BY <1>1, <1>2, <2>2, <2>4
    <3>3. kind \in Prose \/ kind = "title" => kind \notin Heading
      BY DEF Prose, Heading
    <3>4. Article(a)' = Article(a)
      <4>1. \A i : i \in Article(a)' <=> i \in Article(a)
        BY <3>2, <3>3, UnitsGrow
      <4> QED
        BY <4>1 DEF Article
    <3>5. TitleOf(a)' = TitleOf(a)
      BY <3>2, <3>3, TitleGrows
    <3>6. ChapterOf(a)' = ChapterOf(a) /\ SectionOf(a)' = SectionOf(a)
      BY <3>1, PlacesStay
    <3>7. WordsOf(InOrder(Article(a)))' = WordsOf(InOrder(Article(a)))
      BY <3>4 DEF WordsOf, InOrder
    <3> QED
      BY <2>1, <2>2, <2>4, <3>1, <3>4, <3>5, <3>6, <3>7 DEF Filed, Before, LinesIn
  <2> QED
    BY <2>3, <2>4
<1>6. \A i \in 2..Len(cs) : Meet(cs[i - 1], cs[i])'
  BY DEF ChunksSound, Meet
<1> QED
  BY <1>3, <1>5, <1>6 DEF ChunksSound

\* The line itself waits for the flush of its unit.
LEMMA KeptLater ==
  ASSUME doc \in Seq(Kind), NEW kind \in Kind, doc' = Append(doc, kind), NEW n, n = Len(doc),
         NEW cs, NEW open, NEW lines, NEW open2, NEW lines2, Kept(cs, open, lines),
         \A i \in Range(open) : article' = article /\ i \in Range(open2),
         \A i \in Range(lines) : recital' = recital /\ i \in Range(lines2),
         kind \in Prose /\ Enacting(n + 1) /\ LastLine(Heading, n + 1) # 0 /\ doc[LastLine(Heading, n + 1)] = "article" =>
           article' = LastLine(Heading, n + 1) /\ n + 1 \in Range(open2),
         kind = "text" /\ ~ Enacting(n + 1) /\ LastLine({"recital"}, n + 1) # 0 =>
           recital' = LastLine({"recital"}, n + 1) /\ n + 1 \in Range(lines2),
         kind = "recital" /\ ~ Enacting(n + 1) => recital' = n + 1 /\ n + 1 \in Range(lines2)
  PROVE  Kept(cs, open2, lines2)'
<1>1. /\ n \in Nat /\ DOMAIN doc = 1..n /\ DOMAIN doc' = 1..(n + 1)
      /\ \A i \in 1..n : doc'[i] = doc[i]
      /\ doc'[n + 1] = kind
  BY DocGrows
<1>2. \A i : i \in 1..(n + 1) <=> i \in 1..n \/ i = n + 1
  BY <1>1
<1>3. n + 1 \notin 1..n
  BY <1>1
<1>4. ASSUME NEW i \in 1..n, NEW kinds PROVE LastLine(kinds, i) # n + 1
  <2>1. i \in 1..(n + 1)
    BY <1>2
  <2>2. LastLine(kinds, i) \in 0..(i - 1)
    BY <1>1, <2>1, LastLineOf
  <2> QED
    BY <1>1, <2>2
<1>5. ASSUME NEW i \in 1..(n + 1), NEW k \in 1..LineWords, NEW a \in 1..(n + 1),
             doc'[a] = "article", i \in Article(a)'
      PROVE  (a = article' /\ i \in Range(open2)) \/ InArticle(cs, a, i, k)
  <2>1. CASE i \in Article(a)
    <3>1. i \in 1..n /\ LastLine(Heading, i) = a
      BY <1>1, <2>1 DEF Article
    <3>2. a \in 1..n
      BY <1>2, <1>4, <3>1
    <3>3. (a = article /\ i \in Range(open)) \/ InArticle(cs, a, i, k)
      BY <1>1, <1>5, <2>1, <3>1, <3>2 DEF Kept
    <3> QED
      BY <3>3
  <2>2. CASE i = n + 1 /\ kind \in Prose /\ Enacting(n + 1) /\ LastLine(Heading, n + 1) = a
    <3>1. a # n + 1
      BY <1>1, <1>5, <2>2 DEF Prose
    <3>2. a \in 1..n /\ a # 0
      BY <1>2, <3>1
    <3> QED
      BY <1>1, <1>5, <2>2, <3>2
  <2> QED
    BY <1>5, <2>1, <2>2, UnitsGrow
<1>6. ASSUME NEW i \in 1..(n + 1), NEW k \in 1..LineWords, NEW r \in 1..(n + 1),
             doc'[r] = "recital", ~ Enacting(r)', i \in Recital(r)'
      PROVE  (r = recital' /\ i \in Range(lines2)) \/ InRecital(cs, r, i, k)
  <2>0. ~ Enacting(r)
    BY <1>6, PlacesStay
  <2>1. CASE i \in Recital(r) /\ r \in 1..n
    <3>1. i \in 1..n
      BY <1>1, <2>1 DEF Recital
    <3>2. (r = recital /\ i \in Range(lines)) \/ InRecital(cs, r, i, k)
      BY <1>1, <1>6, <2>0, <2>1, <3>1 DEF Kept
    <3> QED
      BY <3>2
  <2>2. CASE i \in Recital(r) /\ r = n + 1
    <3>1. i = n + 1
      BY <1>1, <1>4, <2>2 DEF Recital
    <3> QED
      BY <1>1, <1>6, <2>0, <2>2, <3>1
  <2>3. CASE i = n + 1 /\ kind = "text" /\ ~ Enacting(n + 1) /\ LastLine({"recital"}, n + 1) = r
    <3>1. r # 0
      BY <1>1
    <3> QED
      BY <2>3, <3>1
  <2> QED
    BY <1>2, <1>6, <2>1, <2>2, <2>3, UnitsGrow
<1>7. ASSUME NEW i \in 1..(n + 1), NEW k \in 1..LineWords
      PROVE  /\ \A a \in 1..(n + 1) : doc'[a] = "article" /\ i \in Article(a)' =>
                  (a = article' /\ i \in Range(open2)) \/ InArticle(cs, a, i, k)
             /\ \A r \in 1..(n + 1) : doc'[r] = "recital" /\ ~ Enacting(r)' /\ i \in Recital(r)' =>
                  (r = recital' /\ i \in Range(lines2)) \/ InRecital(cs, r, i, k)
  BY <1>5, <1>6
<1>8. \A a, r, i, k : (InArticle(cs, a, i, k)' <=> InArticle(cs, a, i, k)) /\ (InRecital(cs, r, i, k)' <=> InRecital(cs, r, i, k))
  BY DEF InArticle, InRecital
<1> QED
  BY <1>1, <1>7, <1>8, Zenon DEF Kept

\* Of a heading, its section is the last one of its chapter.
LEMMA PlaceLater ==
  ASSUME doc \in Seq(Kind), NEW kind \in Kind, doc' = Append(doc, kind), PlaceOfLine,
         chapter' = IF kind = "chapter" THEN ThisLine ELSE chapter,
         section' = IF kind = "section" THEN ThisLine ELSE IF kind = "chapter" THEN 0 ELSE section,
         inRecitals' = (inRecitals /\ kind \notin {"chapter", "annex"})
  PROVE  PlaceOfLine'
<1>1. PICK n : n = Len(doc)
  OBVIOUS
<1>2. n \in Nat /\ ThisLine = n + 1 /\ ThisLine' = n + 2
  BY <1>1, DocGrows
<1>3. \A kinds : LastLine(kinds, n + 2)' = IF kind \in kinds THEN n + 1 ELSE LastLine(kinds, n + 1)
  BY <1>1, LastLineGrows
<1>4. \A kinds : LastLine(kinds, n + 1) \in 0..n
  BY <1>1, <1>2, LastLineOfNext
<1>5. PICK c \in 0..n : c = ChapterOf(n + 1) /\ c = chapter
  BY <1>2, <1>4 DEF PlaceOfLine, ChapterOf
<1>6. ChapterOf(n + 2)' = (IF kind = "chapter" THEN n + 1 ELSE c)
  BY <1>3, <1>5 DEF ChapterOf
<1>7. PICK s \in 0..n : s = LastLine({"section"}, n + 1)
  BY <1>4
<1>8. section = IF s > c THEN s ELSE 0
  BY <1>2, <1>5, <1>7 DEF PlaceOfLine, SectionOf
<1>9. LastLine({"section"}, n + 2)' = (IF kind = "section" THEN n + 1 ELSE s)
  BY <1>3, <1>7
<1>10. SectionOf(n + 2)' =
         LET t == IF kind = "section" THEN n + 1 ELSE s IN
         IF t > (IF kind = "chapter" THEN n + 1 ELSE c) THEN t ELSE 0
  BY <1>6, <1>9, Zenon DEF SectionOf
<1>11. section' = SectionOf(n + 2)'
  <2>1. CASE kind = "section"
    BY <1>2, <1>5, <1>10, <2>1
  <2>2. CASE kind = "chapter"
    BY <1>2, <1>7, <1>10, <2>2
  <2>3. CASE kind # "section" /\ kind # "chapter"
    BY <1>8, <1>10, <2>3
  <2> QED
    BY <2>1, <2>2, <2>3
<1>12. Enacting(n + 2)' <=> kind \in {"chapter", "annex"} \/ Enacting(n + 1)
  BY <1>2, <1>3 DEF Enacting
<1>13. inRecitals' = ~ Enacting(n + 2)'
  BY <1>2, <1>12 DEF PlaceOfLine
<1>14. chapter' = ChapterOf(n + 2)'
  BY <1>2, <1>5, <1>6
<1>15. PICK m : m = n + 2
  OBVIOUS
<1> QED
  BY <1>2, <1>11, <1>13, <1>14, <1>15, Zenon DEF PlaceOfLine

\* No line stands behind a heading that has just been read.
LEMMA NewHeading ==
  ASSUME doc \in Seq(Kind), NEW kind \in Kind, doc' = Append(doc, kind), NEW n, n = Len(doc), kind \in Heading
  PROVE  Article(n + 1)' = {} /\ TitleOf(n + 1)' = 0
<1>1. n \in Nat /\ DOMAIN doc = 1..n
  BY DocGrows
<1>2. ASSUME NEW i \in 1..n PROVE LastLine(Heading, i) # n + 1
  <2>1. i \in 1..(n + 1)
    BY <1>1
  <2>2. LastLine(Heading, i) \in 0..(i - 1)
    BY <1>1, <2>1, LastLineOf
  <2> QED
    BY <1>1, <2>2
<1>3. kind \notin Prose /\ kind # "title"
  BY DEF Heading, Prose
<1>4. Article(n + 1)' = {}
  <2>1. \A i : i \notin Article(n + 1)
    BY <1>1, <1>2 DEF Article
  <2>2. \A i : i \notin Article(n + 1)'
    BY <1>3, <2>1, UnitsGrow
  <2> QED
    BY <2>2
<1>5. TitleOf(n + 1)' = 0
  <2>1. {i \in DOMAIN doc : doc[i] = "title" /\ LastLine(Heading, i) = n + 1} = {}
    BY <1>1, <1>2
  <2>2. TitleOf(n + 1) = 0
    BY <2>1 DEF TitleOf
  <2>3. PICK a : a = n + 1
    OBVIOUS
  <2>4. TitleOf(a)' = TitleOf(a)
    BY <1>3, TitleGrows
  <2> QED
    BY <2>2, <2>3, <2>4, Zenon
<1> QED
  BY <1>4, <1>5

\* A heading ends the article, and may begin another.
LEMMA ArticleAfterHeading ==
  ASSUME doc \in Seq(Kind), NEW kind \in Kind, doc' = Append(doc, kind), kind \in Heading,
         article' = IF kind = "article" THEN ThisLine ELSE 0,
         title' = 0, body' = <<>>,
         kind = "article" => PlaceOfLine /\ chapter' = chapter /\ section' = section
  PROVE  ArticleSoFar'
<1>1. PICK n : n = Len(doc)
  OBVIOUS
<1>2. n \in Nat /\ ThisLine = n + 1 /\ ThisLine' = n + 2 /\ doc'[n + 1] = kind
  BY <1>1, DocGrows
<1>3. PICK a : a = n + 1
  OBVIOUS
<1>4. PICK m : m = n + 2
  OBVIOUS
<1>5. LastLine(Heading, m)' = a
  BY <1>1, <1>3, <1>4, LastLineGrows
<1>6. Article(a)' = {} /\ TitleOf(a)' = 0
  BY <1>1, <1>3, NewHeading
<1>7. kind = "article" => chapter' = ChapterOf(a)' /\ section' = SectionOf(a)'
  BY <1>1, <1>2, <1>3, PlacesStay DEF PlaceOfLine
<1>8. Range(<<>>) = {} /\ Increasing(<<>>)
  <2>1. DOMAIN <<>> = {}
    OBVIOUS
  <2> QED
    BY <2>1, RangeOfNothing DEF Increasing
<1>9. a # 0
  BY <1>2, <1>3
<1>10. CASE kind = "article"
  BY <1>2, <1>3, <1>4, <1>5, <1>6, <1>7, <1>8, <1>9, <1>10, Zenon DEF ArticleSoFar
<1>11. CASE kind # "article"
  BY <1>2, <1>3, <1>4, <1>5, <1>11, Zenon DEF ArticleSoFar
<1> QED
  BY <1>10, <1>11

\* Another line leaves the article open: it is its title, its text, or nothing of it.
LEMMA ArticleAfterLine ==
  ASSUME TypeOK, Walk, NEW kind \in Kind, doc' = Append(doc, kind), kind \notin Heading,
         UNCHANGED <<article, chapter, section>>,
         title' = IF kind = "title" /\ article # 0 /\ title = 0 THEN ThisLine ELSE title,
         body' = IF kind \in Prose /\ ~ inRecitals /\ article # 0 THEN Append(body, ThisLine) ELSE body
  PROVE  ArticleSoFar'
<1>0. doc \in Seq(Kind) /\ body \in Seq(Line)
  BY DEF TypeOK
<1>1. PICK n : n = Len(doc)
  OBVIOUS
<1>2. /\ n \in Nat /\ ThisLine = n + 1 /\ ThisLine' = n + 2 /\ DOMAIN doc = 1..n
      /\ \A i \in 1..n : doc'[i] = doc[i]
  BY <1>0, <1>1, DocGrows
<1>3. PICK h : h = LastLine(Heading, n + 1)
  OBVIOUS
<1>4. PICK m : m = n + 2
  OBVIOUS
<1>5. LastLine(Heading, m)' = h
  BY <1>0, <1>1, <1>3, <1>4, LastLineGrows
<1>6. h \in 0..n
  BY <1>0, <1>1, <1>2, <1>3, LastLineOfNext
<1>7. CASE article = 0
  <2>1. (h # 0 => doc[h] # "article") /\ body = <<>>
    BY <1>2, <1>3, <1>7, Zenon DEF Walk, ArticleSoFar
  <2>2. h # 0 => doc'[h] = doc[h]
    BY <1>2, <1>6
  <2>3. article' = 0 /\ body' = <<>>
    BY <1>7, <2>1
  <2> QED
    BY <1>2, <1>4, <1>5, <2>1, <2>2, <2>3, Zenon DEF ArticleSoFar
<1>8. CASE article # 0
  <2>1. /\ article = h /\ doc[h] = "article"
        /\ chapter = ChapterOf(h) /\ section = SectionOf(h) /\ title = TitleOf(h)
        /\ Range(body) = Article(h) /\ Increasing(body)
    BY <1>2, <1>3, <1>8, Zenon DEF Walk, ArticleSoFar
  <2>2. h \in 1..(n + 1) /\ doc'[h] = doc[h]
    BY <1>2, <1>6, <1>8, <2>1
  <2>3. chapter' = ChapterOf(h)' /\ section' = SectionOf(h)'
    BY <1>0, <1>1, <2>1, <2>2, PlacesStay
  <2>4. title' = TitleOf(h)'
    <3>1. TitleOf(h)' = IF kind = "title" /\ TitleOf(h) = 0 THEN n + 1 ELSE TitleOf(h)
      BY <1>0, <1>1, <1>3, TitleGrows
    <3> QED
      BY <1>2, <1>8, <2>1, <3>1
  <2>5. ~ inRecitals <=> Enacting(n + 1)
    BY <1>2 DEF Walk, PlaceOfLine
  <2>6. \A i : i \in Article(h)' <=> i \in Article(h) \/ (i = n + 1 /\ kind \in Prose /\ ~ inRecitals)
    BY <1>0, <1>1, <1>3, <2>5, UnitsGrow
  <2>7. Range(body') = Article(h)' /\ Increasing(body')
    <3>1. CASE kind \in Prose /\ ~ inRecitals
      <4>1. body' = Append(body, n + 1)
        BY <1>2, <1>8, <3>1
      <4>2. Article(h) \subseteq 1..n
        BY <1>2 DEF Article
      <4>3. PICK k \in Nat : k = Len(body) /\ DOMAIN body = 1..k
        BY <1>0, LenProperties
      <4>4. Line \subseteq Nat
        BY ParserAssumption DEF Line
      <4>5. body \in Seq(Nat)
        BY <1>0, <4>4, SeqMonotonic
      <4>6. /\ body' \in Seq(Nat) /\ Len(body') = k + 1
            /\ \A i \in 1..k : body'[i] = body[i]
            /\ body'[k + 1] = n + 1
        BY <1>2, <4>1, <4>3, <4>5, AppendProperties
      <4>7. DOMAIN body' = 1..(k + 1)
        BY <4>6, LenProperties
      <4>8. \A i : i \in 1..(k + 1) <=> i \in 1..k \/ i = k + 1
        BY <4>3
      <4>9. \A i \in 1..k : body[i] \in 1..n
        BY <2>1, <4>2, <4>3 DEF Range
      <4>10. \A x : x \in Range(body') <=> x \in Range(body) \/ x = n + 1
        <5>1. \A x : x \in Range(body') <=> \E i \in 1..(k + 1) : x = body'[i]
          BY <4>7 DEF Range
        <5>2. \A x : x \in Range(body) <=> \E i \in 1..k : x = body[i]
          BY <4>3 DEF Range
        <5>3. PICK last : last = k + 1
          OBVIOUS
        <5>4. \A i : i \in 1..last <=> i \in 1..k \/ i = last
          BY <4>8, <5>3
        <5>5. ASSUME NEW x \in Range(body') PROVE x \in Range(body) \/ x = n + 1
          <6>1. PICK i \in 1..(k + 1) : x = body'[i]
            BY <5>1, <5>5
          <6>2. i \in 1..k \/ i = k + 1
            BY <4>8
          <6> QED
            BY <4>6, <5>2, <6>1, <6>2
        <5>6. ASSUME NEW x \in Range(body) PROVE x \in Range(body')
          <6>1. PICK i \in 1..k : x = body[i]
            BY <5>2, <5>6
          <6>2. i \in 1..(k + 1) /\ x = body'[i]
            BY <4>6, <4>8, <6>1
          <6> QED
            BY <5>1, <6>2
        <5>7. n + 1 \in Range(body')
          BY <4>6, <5>1, <5>3, <5>4
        <5> QED
          BY <5>5, <5>6, <5>7
      <4>11. ASSUME NEW i \in 1..(k + 1), NEW j \in 1..(k + 1), i < j PROVE body'[i] < body'[j]
        <5>1. i \in 1..k
          BY <4>3, <4>11
        <5>2. CASE j = k + 1
          BY <1>2, <4>6, <4>9, <5>1, <5>2
        <5>3. CASE j \in 1..k
          <6>1. body[i] < body[j]
            BY <2>1, <4>3, <4>11, <5>1, <5>3 DEF Increasing
          <6> QED
            BY <4>6, <5>1, <5>3, <6>1
        <5> QED
          BY <4>8, <5>2, <5>3
      <4>12. Increasing(body')
        BY <4>7, <4>11 DEF Increasing
      <4>13. \A x : x \in Range(body') <=> x \in Article(h)'
        BY <2>1, <2>6, <3>1, <4>10
      <4> QED
        BY <4>12, <4>13
    <3>2. CASE ~ (kind \in Prose /\ ~ inRecitals)
      <4>1. body' = body
        BY <3>2
      <4>2. Article(h)' = Article(h)
        BY <2>6, <3>2
      <4> QED
        BY <2>1, <4>1, <4>2
    <3> QED
      BY <3>1, <3>2
  <2> QED
    <3>1. PICK b : b = body'
      OBVIOUS
    <3>2. Increasing(body)'
      BY <2>7 DEF Increasing
    <3> QED
      BY <1>2, <1>4, <1>5, <1>8, <2>1, <2>2, <2>3, <2>4, <2>7, <3>2, Zenon DEF ArticleSoFar
<1> QED
  BY <1>7, <1>8

\* A line that opens no recital.
LEMMA RecitalAfterLine ==
  ASSUME doc \in Seq(Kind), recitalLines \in Seq(Line), PlaceOfLine, RecitalSoFar,
         NEW kind \in Kind, doc' = Append(doc, kind), inRecitals => kind # "recital",
         recital' = recital, inRecitals' => inRecitals,
         \/ recitalLines' = <<>>
         \/ inRecitals' = inRecitals /\ recitalLines' = recitalLines
         \/ inRecitals /\ inRecitals' = inRecitals /\ recital # 0 /\ kind = "text"
            /\ recitalLines' = Append(recitalLines, ThisLine)
  PROVE  RecitalSoFar'
<1>1. PICK n : n = Len(doc)
  OBVIOUS
<1>2. n \in Nat /\ ThisLine = n + 1 /\ ThisLine' = n + 2
  BY <1>1, DocGrows
<1>3. PICK m : m = n + 2
  OBVIOUS
<1>4. PICK r : r = recital
  OBVIOUS
<1>5. inRecitals => r = LastLine({"recital"}, n + 1) /\ ~ Enacting(n + 1)
  BY <1>2, <1>4 DEF RecitalSoFar, PlaceOfLine
<1>6. inRecitals' => r = LastLine({"recital"}, m)'
  <2>1. LastLine({"recital"}, m)' = IF kind = "recital" THEN n + 1 ELSE LastLine({"recital"}, n + 1)
    BY <1>1, <1>3, LastLineGrows
  <2> QED
    BY <1>5, <2>1
<1>7. \A i : i \in Recital(r)' <=>
        i \in Recital(r) \/ (i = n + 1 /\ kind = "text" /\ ~ Enacting(n + 1) /\ LastLine({"recital"}, n + 1) = r)
  BY <1>1, UnitsGrow
<1>8. inRecitals' /\ r # 0 => Range(recitalLines') \subseteq Recital(r)'
  <2>1. CASE recitalLines' = <<>>
    BY <2>1, RangeOfNothing
  <2>2. CASE inRecitals' /\ recitalLines' = recitalLines
    BY <1>4, <1>7, <2>2 DEF RecitalSoFar
  <2>3. CASE inRecitals /\ recital # 0 /\ kind = "text" /\ recitalLines' = Append(recitalLines, ThisLine)
    <3>1. Range(recitalLines) \subseteq Recital(r) /\ n + 1 \in Recital(r)'
      BY <1>4, <1>5, <1>7, <2>3 DEF RecitalSoFar
    <3>2. PICK k \in Nat : k = Len(recitalLines) /\ DOMAIN recitalLines = 1..k
      BY LenProperties
    <3>3. Line \subseteq Nat
      BY ParserAssumption DEF Line
    <3>4. recitalLines \in Seq(Nat)
      BY <3>3, SeqMonotonic
    <3>5. /\ recitalLines' \in Seq(Nat) /\ Len(recitalLines') = k + 1
          /\ \A i \in 1..k : recitalLines'[i] = recitalLines[i]
          /\ recitalLines'[k + 1] = n + 1
      BY <1>2, <2>3, <3>2, <3>4, AppendProperties
    <3>6. DOMAIN recitalLines' = 1..(k + 1)
      BY <3>5, LenProperties
    <3>7. \A i : i \in 1..(k + 1) <=> i \in 1..k \/ i = k + 1
      BY <3>2
    <3>8. \A i \in 1..(k + 1) : recitalLines'[i] \in Recital(r)'
      BY <1>7, <3>1, <3>2, <3>5, <3>7 DEF Range
    <3> QED
      BY <3>6, <3>8 DEF Range
  <2>4. CASE ~ inRecitals'
    BY <2>4
  <2> QED
    BY <2>1, <2>2, <2>3, <2>4
<1>9. ~ inRecitals' \/ r = 0 => recitalLines' = <<>>
  BY <1>4, <1>7 DEF RecitalSoFar
<1> QED
  BY <1>2, <1>3, <1>4, <1>6, <1>8, <1>9, Zenon DEF RecitalSoFar

LEMMA RecitalBegins ==
  ASSUME doc \in Seq(Kind), doc' = Append(doc, "recital"),
         inRecitals, inRecitals' = inRecitals, recital' = ThisLine, recitalLines' = <<ThisLine>>
  PROVE  RecitalSoFar'
<1>1. PICK n : n = Len(doc)
  OBVIOUS
<1>2. "recital" \in Kind
  BY DEF Kind, Prose
<1>3. n \in Nat /\ ThisLine = n + 1 /\ ThisLine' = n + 2
  BY <1>1, <1>2, DocGrows
<1>4. PICK m : m = n + 2
  OBVIOUS
<1>5. PICK r : r = n + 1
  OBVIOUS
<1>6. LastLine({"recital"}, m)' = r
  BY <1>1, <1>2, <1>4, <1>5, LastLineGrows
<1>7. Range(<<r>>) = {r} /\ r \in Recital(r)'
  BY DEF Range, Recital
<1>8. r # 0
  BY <1>3, <1>5
<1>9. Range(recitalLines') \subseteq Recital(r)'
  BY <1>3, <1>5, <1>7
<1> QED
  BY <1>3, <1>4, <1>5, <1>6, <1>8, <1>9, Zenon DEF RecitalSoFar

-----------------------------------------------------------------------------
(* The steps *)

LEMMA LineRead ==
  ASSUME TypeOK, NEW kind \in Kind, Read(kind)
  PROVE  /\ doc \in Seq(Kind) /\ doc' = Append(doc, kind)
         /\ doc' \in Seq(Kind) /\ Len(doc') <= MaxLines
         /\ ThisLine \in Line
<1>1. doc \in Seq(Kind) /\ doc' = Append(doc, kind) /\ Len(doc) < MaxLines
  BY DEF TypeOK, Read
<1>2. PICK n : n = Len(doc)
  OBVIOUS
<1>3. n \in Nat /\ Len(doc') = n + 1 /\ doc' \in Seq(Kind) /\ ThisLine = n + 1
  BY <1>1, <1>2, DocGrows
<1> QED
  BY <1>1, <1>2, <1>3, ParserAssumption DEF Line

\* A heading is read, behind the flush of what it ends.
LEMMA HeadingRead ==
  ASSUME Reading, NEW kind \in Heading, Read(kind), done' \in BOOLEAN,
         NEW cs \in Seq(Chunk), NEW lines \in Seq(Line),
         chunks' = cs, body' = <<>>, recitalLines' = lines,
         lines = <<>> \/ (lines = recitalLines /\ inRecitals' = inRecitals),
         ChunksSound(cs, ThisLine), Kept(cs, <<>>, lines),
         chapter' = IF kind = "chapter" THEN ThisLine ELSE chapter,
         section' = IF kind = "section" THEN ThisLine ELSE IF kind = "chapter" THEN 0 ELSE section,
         article' = IF kind = "article" THEN ThisLine ELSE 0,
         title' = 0,
         inRecitals' = (inRecitals /\ kind \notin {"chapter", "annex"}),
         recital' = recital
  PROVE  Reading'
<1>1. /\ kind \in Kind /\ kind \notin Prose
  BY DEF Kind, Heading, Prose
<1>2. /\ doc \in Seq(Kind) /\ doc' = Append(doc, kind)
      /\ doc' \in Seq(Kind) /\ Len(doc') <= MaxLines
      /\ ThisLine \in Line
  BY <1>1, LineRead DEF Reading
<1>3. PICK n : n = Len(doc)
  OBVIOUS
<1>4. ThisLine = n + 1
  BY <1>3 DEF ThisLine
<1>5. TypeOK'
  <2>1. /\ {chapter, section, article, title, recital} \subseteq Line \cup {0}
        /\ inRecitals \in BOOLEAN
    BY DEF Reading, TypeOK
  <2>2. {chapter, section, article, title, recital}' \subseteq Line \cup {0}
    BY <1>2, <2>1
  <2>3. inRecitals' \in BOOLEAN
    OBVIOUS
  <2>4. <<>> \in Seq(Line)
    OBVIOUS
  <2> QED
    BY <1>2, <2>2, <2>3, <2>4 DEF TypeOK
<1>6. PlaceOfLine /\ RecitalSoFar /\ recitalLines \in Seq(Line)
  BY DEF Reading, Walk, TypeOK
<1>7. PlaceOfLine'
  BY <1>1, <1>2, <1>6, PlaceLater, Zenon
<1>8. ArticleSoFar'
  <2>1. kind = "article" => chapter' = chapter /\ section' = section
    OBVIOUS
  <2> QED
    BY <1>1, <1>2, <1>6, <2>1, ArticleAfterHeading
<1>9. RecitalSoFar'
  <2>1. kind # "recital" /\ (inRecitals' => inRecitals)
    BY <1>1 DEF Prose
  <2> QED
    BY <1>1, <1>2, <1>6, <2>1, RecitalAfterLine
<1>10. ChunksSound(cs, LastLine(Heading, ThisLine))'
  BY <1>1, <1>2, <1>3, <1>4, ChunksLater
<1>11. Kept(cs, <<>>, lines)'
  <2>1. kind # "text" /\ kind # "recital"
    BY <1>1 DEF Prose
  <2> QED
    BY <1>1, <1>2, <1>3, <2>1, RangeOfNothing, KeptLater
<1>12. ChunksSound(chunks, LastLine(Heading, ThisLine))'
  BY <1>10 DEF ChunksSound
<1>13. Kept(chunks, body, recitalLines)'
  BY <1>11 DEF Kept, InArticle, InRecital
<1> QED
  BY <1>5, <1>7, <1>8, <1>9, <1>12, <1>13 DEF Reading, Walk

\* A title or a line of prose is read.
LEMMA LineOfUnitRead ==
  ASSUME Reading, NEW kind \in Kind \ Heading, Read(kind), done' \in BOOLEAN,
         UNCHANGED <<chapter, section, article, inRecitals>>,
         title' = IF kind = "title" /\ article # 0 /\ title = 0 THEN ThisLine ELSE title,
         body' = IF kind \in Prose /\ ~ inRecitals /\ article # 0 THEN Append(body, ThisLine) ELSE body,
         NEW cs \in Seq(Chunk), NEW lines, NEW lines2 \in Seq(Line),
         chunks' = cs, recitalLines' = lines2, recital' \in Line \cup {0}, RecitalSoFar',
         ChunksSound(cs, LastLine(Heading, ThisLine)), Kept(cs, body, lines),
         \A i \in Range(lines) : recital' = recital /\ i \in Range(lines2),
         kind = "text" /\ inRecitals /\ recital # 0 => recital' = recital /\ ThisLine \in Range(lines2),
         kind = "recital" /\ inRecitals => recital' = ThisLine /\ ThisLine \in Range(lines2)
  PROVE  Reading'
<1>1. /\ kind \in Kind /\ kind \notin Heading /\ doc \in Seq(Kind) /\ doc' = Append(doc, kind)
      /\ doc' \in Seq(Kind) /\ Len(doc') <= MaxLines
      /\ ThisLine \in Line
  BY LineRead DEF Reading
<1>2. PICK n : n = Len(doc)
  OBVIOUS
<1>3. ThisLine = n + 1 /\ n \in Nat
  BY <1>1, <1>2, DocGrows
<1>4. /\ PlaceOfLine /\ ArticleSoFar /\ RecitalSoFar /\ body \in Seq(Line)
      /\ {chapter, section, article, title, recital} \subseteq Line \cup {0}
      /\ inRecitals \in BOOLEAN
  BY DEF Reading, Walk, TypeOK
<1>5. body' \in Seq(Line)
  <2>1. Append(body, ThisLine) \in Seq(Line)
    BY <1>1, <1>4, AppendProperties
  <2> QED
    BY <1>4, <2>1
<1>6. TypeOK'
  <2>1. {chapter, section, article, title, recital}' \subseteq Line \cup {0}
    BY <1>1, <1>4
  <2>2. inRecitals' \in BOOLEAN
    BY <1>4
  <2> QED
    BY <1>1, <1>5, <2>1, <2>2 DEF TypeOK
<1>7. PlaceOfLine'
  <2>1. kind # "chapter" /\ kind # "section" /\ kind # "annex"
    BY <1>1 DEF Heading
  <2> QED
    BY <1>1, <1>4, <2>1, PlaceLater
<1>8. ArticleSoFar'
  <2>1. TypeOK /\ Walk
    BY DEF Reading
  <2> QED
    BY <1>1, <2>1, ArticleAfterLine
<1>9. ChunksSound(cs, LastLine(Heading, ThisLine))'
  <2>1. PICK h : h = LastLine(Heading, n + 1)
    OBVIOUS
  <2>2. ChunksSound(cs, h)
    BY <1>3, <2>1
  <2> QED
    BY <1>1, <1>2, <2>1, <2>2, ChunksLater
<1>0. PICK b2 : b2 = body'
  OBVIOUS
<1>10. Kept(cs, b2, lines2)'
  <2>1. PICK b : b = body
    OBVIOUS
  <2>2. b2 = body'
    BY <1>0
  <2>3. Kept(cs, b, lines)
    BY <2>1
  <2>4. \A i \in Range(b) : article' = article /\ i \in Range(b2)
    <3>1. CASE kind \in Prose /\ ~ inRecitals /\ article # 0
      <4>1. b2 = Append(b, ThisLine) /\ b \in Seq(Line) /\ ThisLine \in Line
        BY <1>1, <1>4, <2>1, <2>2, <3>1
      <4>2. PICK k \in Nat : k = Len(b) /\ DOMAIN b = 1..k
        BY <4>1, LenProperties
      <4>3. /\ b2 \in Seq(Line) /\ Len(b2) = k + 1
            /\ \A i \in 1..k : b2[i] = b[i]
        BY <4>1, <4>2, AppendProperties
      <4>4. DOMAIN b2 = 1..(k + 1) /\ 1..k \subseteq 1..(k + 1)
        BY <4>2, <4>3, LenProperties
      <4> QED
        BY <4>2, <4>3, <4>4 DEF Range
    <3>2. CASE ~ (kind \in Prose /\ ~ inRecitals /\ article # 0)
      BY <2>1, <2>2, <3>2
    <3> QED
      BY <3>1, <3>2
  <2>5. ~ inRecitals <=> Enacting(n + 1)
    BY <1>3, <1>4 DEF PlaceOfLine
  <2>6. kind \in Prose /\ Enacting(n + 1) /\ LastLine(Heading, n + 1) # 0 /\ doc[LastLine(Heading, n + 1)] = "article" =>
          article' = LastLine(Heading, n + 1) /\ n + 1 \in Range(b2)
    <3> HAVE kind \in Prose /\ Enacting(n + 1) /\ LastLine(Heading, n + 1) # 0 /\ doc[LastLine(Heading, n + 1)] = "article"
    <3>1. article # 0 /\ article = LastLine(Heading, n + 1)
      BY <1>3, <1>4 DEF ArticleSoFar
    <3>2. b2 = Append(b, ThisLine) /\ b \in Seq(Line) /\ ThisLine \in Line
      BY <1>1, <1>4, <2>1, <2>2, <2>5, <3>1
    <3>3. PICK k \in Nat : k = Len(b)
      BY <3>2, LenProperties
    <3>4. b2 \in Seq(Line) /\ Len(b2) = k + 1 /\ b2[k + 1] = ThisLine
      BY <3>2, <3>3, AppendProperties
    <3>5. k + 1 \in DOMAIN b2
      BY <3>3, <3>4, LenProperties
    <3>6. ThisLine \in Range(b2)
      BY <3>4, <3>5 DEF Range
    <3> QED
      BY <1>3, <3>1, <3>6
  <2>7. inRecitals => recital = LastLine({"recital"}, n + 1)
    BY <1>3, <1>4 DEF RecitalSoFar
  <2>8. /\ kind = "text" /\ ~ Enacting(n + 1) /\ LastLine({"recital"}, n + 1) # 0 =>
             recital' = LastLine({"recital"}, n + 1) /\ n + 1 \in Range(lines2)
        /\ kind = "recital" /\ ~ Enacting(n + 1) => recital' = n + 1 /\ n + 1 \in Range(lines2)
    BY <1>3, <2>5, <2>7
  <2> QED
    BY <1>1, <1>2, <2>3, <2>4, <2>6, <2>8, KeptLater
<1>11. ChunksSound(chunks, LastLine(Heading, ThisLine))'
  BY <1>9 DEF ChunksSound
<1>12. Kept(chunks, body, recitalLines)'
  BY <1>0, <1>10 DEF Kept, InArticle, InRecital
<1> QED
  BY <1>6, <1>7, <1>8, <1>11, <1>12 DEF Reading, Walk

LEMMA ReadChapterKeeps ==
  ASSUME Reading, ReadChapter
  PROVE  Reading'
<1>1. PICK cs \in Seq(Chunk) : /\ chunks' = cs /\ body' = <<>> /\ recitalLines' = <<>>
                               /\ ChunksSound(cs, ThisLine) /\ Kept(cs, <<>>, <<>>)
  BY EndUnitKeeps DEF Reading, ReadChapter
<1>2. PICK kind \in Heading : kind = "chapter"
  BY DEF Heading
<1>3. /\ Read(kind) /\ done' \in BOOLEAN /\ <<>> \in Seq(Line)
      /\ chapter' = IF kind = "chapter" THEN ThisLine ELSE chapter
      /\ section' = IF kind = "section" THEN ThisLine ELSE IF kind = "chapter" THEN 0 ELSE section
      /\ article' = IF kind = "article" THEN ThisLine ELSE 0
      /\ title' = 0
      /\ recital' = recital
  BY <1>2 DEF ReadChapter, Reading, TypeOK
<1>4. inRecitals' = (inRecitals /\ kind \notin {"chapter", "annex"})
  <2>1. inRecitals' = FALSE
    BY DEF ReadChapter
  <2>2. ~ (inRecitals /\ kind \notin {"chapter", "annex"})
    BY <1>2
  <2> QED
    BY <2>1, <2>2, Zenon
<1> QED
  BY <1>1, <1>3, <1>4, HeadingRead

LEMMA ReadSectionKeeps ==
  ASSUME Reading, ReadSection
  PROVE  Reading'
<1>1. PICK cs \in Seq(Chunk) : /\ chunks' = cs /\ body' = <<>>
                               /\ ChunksSound(cs, ThisLine) /\ Kept(cs, <<>>, recitalLines)
  BY FlushArticleKeeps DEF Reading, ReadSection
<1>2. PICK kind \in Heading : kind = "section"
  BY DEF Heading
<1>3. PICK lines \in Seq(Line) : lines = recitalLines
  BY DEF Reading, TypeOK
<1>4. /\ Read(kind) /\ done' \in BOOLEAN
      /\ chapter' = IF kind = "chapter" THEN ThisLine ELSE chapter
      /\ section' = IF kind = "section" THEN ThisLine ELSE IF kind = "chapter" THEN 0 ELSE section
      /\ article' = IF kind = "article" THEN ThisLine ELSE 0
      /\ title' = 0
      /\ inRecitals' = (inRecitals /\ kind \notin {"chapter", "annex"})
      /\ recital' = recital /\ recitalLines' = lines
      /\ lines = recitalLines /\ inRecitals' = inRecitals
  BY <1>2, <1>3 DEF ReadSection, recitals, Reading, TypeOK
<1>5. Kept(cs, <<>>, lines)
  BY <1>1, <1>3
<1> QED
  BY <1>1, <1>4, <1>5, HeadingRead

LEMMA ReadArticleKeeps ==
  ASSUME Reading, ReadArticle
  PROVE  Reading'
<1>1. PICK cs \in Seq(Chunk) : /\ chunks' = cs /\ body' = <<>> /\ recitalLines' = <<>>
                               /\ ChunksSound(cs, ThisLine) /\ Kept(cs, <<>>, <<>>)
  BY EndUnitKeeps DEF Reading, ReadArticle
<1>2. PICK kind \in Heading : kind = "article"
  BY DEF Heading
<1>3. /\ Read(kind) /\ done' \in BOOLEAN /\ <<>> \in Seq(Line)
      /\ chapter' = IF kind = "chapter" THEN ThisLine ELSE chapter
      /\ section' = IF kind = "section" THEN ThisLine ELSE IF kind = "chapter" THEN 0 ELSE section
      /\ article' = IF kind = "article" THEN ThisLine ELSE 0
      /\ title' = 0
      /\ inRecitals' = (inRecitals /\ kind \notin {"chapter", "annex"})
      /\ recital' = recital
  BY <1>2 DEF ReadArticle, Reading, TypeOK
<1> QED
  BY <1>1, <1>3, HeadingRead

LEMMA ReadAnnexKeeps ==
  ASSUME Reading, ReadAnnex
  PROVE  Reading'
<1>1. PICK cs \in Seq(Chunk) : /\ chunks' = cs /\ body' = <<>> /\ recitalLines' = <<>>
                               /\ ChunksSound(cs, ThisLine) /\ Kept(cs, <<>>, <<>>)
  BY EndUnitKeeps DEF Reading, ReadAnnex
<1>2. PICK kind \in Heading : kind = "annex"
  BY DEF Heading
<1>3. /\ Read(kind) /\ done' \in BOOLEAN /\ <<>> \in Seq(Line)
      /\ chapter' = IF kind = "chapter" THEN ThisLine ELSE chapter
      /\ section' = IF kind = "section" THEN ThisLine ELSE IF kind = "chapter" THEN 0 ELSE section
      /\ article' = IF kind = "article" THEN ThisLine ELSE 0
      /\ title' = 0
      /\ recital' = recital
  BY <1>2 DEF ReadAnnex, Reading, TypeOK
<1>4. inRecitals' = (inRecitals /\ kind \notin {"chapter", "annex"})
  <2>1. inRecitals' = FALSE
    BY DEF ReadAnnex
  <2>2. ~ (inRecitals /\ kind \notin {"chapter", "annex"})
    BY <1>2
  <2> QED
    BY <2>1, <2>2, Zenon
<1> QED
  BY <1>1, <1>3, <1>4, HeadingRead

\* A line that opens no recital and is not added to one.
LEMMA OtherLineKeeps ==
  ASSUME Reading, NEW kind \in Kind \ Heading, Read(kind),
         inRecitals => kind # "recital",
         inRecitals /\ recital # 0 => kind # "text",
         UNCHANGED <<chapter, section, article, inRecitals, recital, recitalLines, chunks, done>>,
         title' = IF kind = "title" /\ article # 0 /\ title = 0 THEN ThisLine ELSE title,
         body' = IF kind \in Prose /\ ~ inRecitals /\ article # 0 THEN Append(body, ThisLine) ELSE body
  PROVE  Reading'
<1>1. TypeOK /\ Walk
  BY DEF Reading
<1>2. RecitalSoFar'
  BY <1>1, LineRead, RecitalAfterLine DEF Walk, TypeOK
<1>3. PICK cs \in Seq(Chunk) : cs = chunks
  BY <1>1 DEF TypeOK
<1>4. PICK lines \in Seq(Line) : lines = recitalLines
  BY <1>1 DEF TypeOK
<1>5. ChunksSound(cs, LastLine(Heading, ThisLine)) /\ Kept(cs, body, lines)
  BY <1>3, <1>4 DEF Reading
<1>6. recital \in Line \cup {0} /\ done \in BOOLEAN
  BY <1>1 DEF TypeOK
<1>7. chunks' = cs /\ recitalLines' = lines /\ recital' = recital /\ done' = done
  BY <1>3, <1>4
<1> QED
  BY <1>2, <1>5, <1>6, <1>7, LineOfUnitRead

LEMMA ReadTitleKeeps ==
  ASSUME Reading, ReadTitle
  PROVE  Reading'
<1>1. PICK kind \in Kind \ Heading : kind = "title"
  BY DEF Kind, Heading
<1>2. kind \notin Prose
  BY <1>1 DEF Prose
<1>3. /\ Read(kind)
      /\ UNCHANGED <<chapter, section, article, inRecitals, recital, recitalLines, chunks, done>>
      /\ title' = IF kind = "title" /\ article # 0 /\ title = 0 THEN ThisLine ELSE title
      /\ body' = IF kind \in Prose /\ ~ inRecitals /\ article # 0 THEN Append(body, ThisLine) ELSE body
  BY <1>1, <1>2 DEF ReadTitle, recitals
<1> QED
  BY <1>1, <1>3, OtherLineKeeps

LEMMA ReadInArticleKeeps ==
  ASSUME Reading, NEW kind \in Prose, ReadInArticle(kind)
  PROVE  Reading'
<1>1. kind \in Kind \ Heading /\ kind # "title"
  BY DEF Kind, Heading, Prose
<1>2. /\ Read(kind) /\ ~ inRecitals
      /\ UNCHANGED <<chapter, section, article, inRecitals, recital, recitalLines, chunks, done>>
      /\ title' = IF kind = "title" /\ article # 0 /\ title = 0 THEN ThisLine ELSE title
      /\ body' = IF kind \in Prose /\ ~ inRecitals /\ article # 0 THEN Append(body, ThisLine) ELSE body
  BY <1>1 DEF ReadInArticle, place, recitals
<1> QED
  BY <1>1, <1>2, OtherLineKeeps

LEMMA ReadInRecitalsKeeps ==
  ASSUME Reading, NEW kind \in Prose, ReadInRecitals(kind)
  PROVE  Reading'
<1>1. kind \in Kind \ Heading /\ kind # "title"
  BY DEF Kind, Heading, Prose
<1>2. /\ Read(kind) /\ inRecitals
      /\ UNCHANGED <<chapter, section, article, inRecitals, done>>
      /\ title' = IF kind = "title" /\ article # 0 /\ title = 0 THEN ThisLine ELSE title
      /\ body' = IF kind \in Prose /\ ~ inRecitals /\ article # 0 THEN Append(body, ThisLine) ELSE body
  BY <1>1 DEF ReadInRecitals, place
<1>3. /\ TypeOK /\ Walk
      /\ ChunksSound(chunks, LastLine(Heading, ThisLine)) /\ Kept(chunks, body, recitalLines)
  BY DEF Reading
<1>4. CASE kind # "recital" /\ UNCHANGED <<chunks, recital, recitalLines>> /\ (recital = 0 \/ kind # "text")
  BY <1>1, <1>2, <1>4, OtherLineKeeps
<1>5. CASE /\ kind = "text" /\ recital # 0
           /\ recitalLines' = Append(recitalLines, ThisLine)
           /\ UNCHANGED <<chunks, recital>>
  <2>1. /\ doc \in Seq(Kind) /\ doc' = Append(doc, kind) /\ ThisLine \in Line
        /\ recitalLines \in Seq(Line) /\ PlaceOfLine /\ RecitalSoFar
        /\ recital \in Line \cup {0} /\ done \in BOOLEAN
    BY <1>1, <1>2, <1>3, LineRead DEF TypeOK, Walk
  <2>2. RecitalSoFar'
    BY <1>1, <1>2, <1>5, <2>1, RecitalAfterLine
  <2>3. PICK cs \in Seq(Chunk) : cs = chunks
    BY <1>3 DEF TypeOK
  <2>4. PICK lines \in Seq(Line) : lines = recitalLines
    BY <2>1
  <2>5. PICK lines2 : lines2 = Append(lines, ThisLine)
    OBVIOUS
  <2>6. PICK k \in Nat : k = Len(lines) /\ DOMAIN lines = 1..k
    BY LenProperties
  <2>7. /\ lines2 \in Seq(Line) /\ Len(lines2) = k + 1
        /\ \A i \in 1..k : lines2[i] = lines[i]
        /\ lines2[k + 1] = ThisLine
    BY <2>1, <2>5, <2>6, AppendProperties
  <2>8. DOMAIN lines2 = 1..(k + 1) /\ 1..k \subseteq 1..(k + 1) /\ k + 1 \in 1..(k + 1)
    BY <2>6, <2>7, LenProperties
  <2>9. ThisLine \in Range(lines2) /\ \A i \in Range(lines) : i \in Range(lines2)
    BY <2>6, <2>7, <2>8 DEF Range
  <2>10. ChunksSound(cs, LastLine(Heading, ThisLine)) /\ Kept(cs, body, lines)
    BY <1>3, <2>3, <2>4
  <2>11. /\ chunks' = cs /\ recitalLines' = lines2 /\ recital' = recital /\ done' = done
         /\ kind # "recital"
    BY <1>2, <1>5, <2>3, <2>4, <2>5
  <2> QED
    BY <1>1, <1>2, <2>1, <2>2, <2>7, <2>9, <2>10, <2>11, LineOfUnitRead
<1>6. CASE /\ kind = "recital" /\ FlushSingleRecital
           /\ recital' = ThisLine /\ recitalLines' = <<ThisLine>>
  <2>1. PICK h : h = LastLine(Heading, ThisLine)
    OBVIOUS
  <2>2. PICK cs \in Seq(Chunk) : chunks' = cs /\ ChunksSound(cs, h) /\ Kept(cs, body, <<>>)
    BY <1>2, <1>3, <1>6, <2>1, FlushSingleRecitalKeeps
  <2>3. /\ doc \in Seq(Kind) /\ doc' = Append(doc, "recital") /\ ThisLine \in Line /\ done \in BOOLEAN
    BY <1>1, <1>2, <1>3, <1>6, LineRead DEF TypeOK
  <2>4. RecitalSoFar'
    BY <1>2, <1>6, <2>3, RecitalBegins
  <2>5. PICK lines2 : lines2 = <<ThisLine>>
    OBVIOUS
  <2>6. lines2 \in Seq(Line) /\ ThisLine \in Range(lines2)
    BY <2>3, <2>5 DEF Range
  <2>7. ChunksSound(cs, LastLine(Heading, ThisLine))
    BY <2>1, <2>2
  <2>8. /\ kind # "text" /\ chunks' = cs /\ recitalLines' = lines2
        /\ recital' = ThisLine /\ recital' \in Line \cup {0} /\ done' \in BOOLEAN
    BY <1>2, <1>6, <2>2, <2>3, <2>5
  <2> QED
    BY <1>1, <1>2, <2>2, <2>4, <2>6, <2>7, <2>8, RangeOfNothing, LineOfUnitRead
<1> QED
  BY <1>4, <1>5, <1>6 DEF ReadInRecitals

\* Where lines stand depends on the document alone.
LEMMA SameDocument ==
  ASSUME doc' = doc
  PROVE  /\ ThisLine' = ThisLine
         /\ \A kinds, i : LastLine(kinds, i)' = LastLine(kinds, i)
         /\ \A i : /\ Enacting(i)' <=> Enacting(i)
                   /\ Article(i)' = Article(i) /\ Recital(i)' = Recital(i)
                   /\ TitleOf(i)' = TitleOf(i)
                   /\ ChapterOf(i)' = ChapterOf(i) /\ SectionOf(i)' = SectionOf(i)
         /\ \A c : Filed(c) => Filed(c)'
<1>1. \A kinds, i : LastLine(kinds, i)' = LastLine(kinds, i)
  BY DEF LastLine
<1>2. \A i : Enacting(i)' <=> Enacting(i)
  BY <1>1 DEF Enacting
<1>3. \A i : /\ Article(i)' = Article(i) /\ Recital(i)' = Recital(i)
             /\ TitleOf(i)' = TitleOf(i)
             /\ ChapterOf(i)' = ChapterOf(i) /\ SectionOf(i)' = SectionOf(i)
  BY <1>1, <1>2 DEF Article, Recital, TitleOf, ChapterOf, SectionOf
<1>4. ASSUME NEW c, Filed(c) PROVE Filed(c)'
  <2>1. PICK a : a = c.article
    OBVIOUS
  <2>2. Article(a)' = Article(a)
    BY <1>3
  <2>3. WordsOf(InOrder(Article(a)))' = WordsOf(InOrder(Article(a)))
    BY <2>2 DEF WordsOf, InOrder
  <2>4. WordsOf(InOrder(Article(c.article)))' = WordsOf(InOrder(Article(c.article)))
    BY <2>1, <2>3
  <2> QED
    BY <1>3, <1>4, <2>4 DEF Filed, LinesIn
<1>5. ThisLine' = ThisLine
  BY DEF ThisLine
<1> QED
  BY <1>1, <1>2, <1>3, <1>4, <1>5

LEMMA EndOfDocumentKeeps ==
  ASSUME Reading, EndOfDocument
  PROVE  ParserInv'
<1>1. PICK cs \in Seq(Chunk) : /\ chunks' = cs /\ body' = <<>> /\ recitalLines' = <<>>
                               /\ ChunksSound(cs, ThisLine) /\ Kept(cs, <<>>, <<>>)
  BY EndUnitKeeps DEF Reading, EndOfDocument
<1>2. TypeOK'
  <2>1. <<>> \in Seq(Line)
    OBVIOUS
  <2> QED
    BY <1>1, <2>1 DEF Reading, TypeOK, EndOfDocument, place
<1>3. doc' = doc /\ done'
  BY DEF EndOfDocument
<1>7. FiledWhereItStands'
  <2>1. \A c \in Range(cs) : Filed(c)
    BY <1>1 DEF ChunksSound
  <2>2. \A c \in Range(cs) : Filed(c)'
    BY <1>3, <2>1, SameDocument
  <2> QED
    BY <1>1, <2>2 DEF FiledWhereItStands, Filed
<1>8. NeighboursOverlap'
  <2>1. \A i \in 2..Len(cs) : Meet(cs[i - 1], cs[i])
    BY <1>1 DEF ChunksSound
  <2> QED
    BY <1>1, <2>1 DEF NeighboursOverlap, Meet
<1>9. NothingLost'
  <2>1. ASSUME NEW i \in DOMAIN doc, NEW k \in 1..LineWords
        PROVE  /\ \A a \in DOMAIN doc : doc[a] = "article" /\ i \in Article(a) => InArticle(cs, a, i, k)
               /\ \A r \in DOMAIN doc : doc[r] = "recital" /\ ~ Enacting(r) /\ i \in Recital(r) => InRecital(cs, r, i, k)
    BY <1>1, RangeOfNothing DEF Kept
  <2> QED
    BY <1>1, <1>3, <2>1, SameDocument DEF NothingLost, InArticle, InRecital
<1> QED
  BY <1>2, <1>3, <1>7, <1>8, <1>9 DEF ParserInv

\* While lines are left to read the chunks are sound and nothing has to be complete.
LEMMA ReadingKeepsInv ==
  ASSUME Reading', done' = FALSE
  PROVE  ParserInv'
<1>1. TypeOK'
  BY DEF Reading
<1>2. FiledWhereItStands'
  BY DEF Reading, ChunksSound, FiledWhereItStands, Filed
<1>3. NeighboursOverlap'
  BY DEF Reading, ChunksSound, NeighboursOverlap, Meet
<1>4. NothingLost'
  BY DEF NothingLost
<1> QED
  BY <1>1, <1>2, <1>3, <1>4 DEF ParserInv

LEMMA InitEstablishesInv == Init => ParserInv
<1> SUFFICES ASSUME Init PROVE ParserInv
  OBVIOUS
<1> DEFINE nothing == <<>>
<1>1. /\ nothing \in Seq(Kind) /\ nothing \in Seq(Line) /\ nothing \in Seq(Chunk)
      /\ Len(nothing) = 0 /\ DOMAIN nothing = {} /\ Range(nothing) = {}
  BY RangeOfNothing
<1> HIDE DEF nothing
<1>2. /\ doc = nothing /\ body = nothing /\ recitalLines = nothing /\ chunks = nothing
      /\ chapter = 0 /\ section = 0 /\ article = 0 /\ title = 0
      /\ inRecitals = TRUE /\ recital = 0 /\ done = FALSE
  BY DEF Init, nothing
<1>3. TypeOK
  <2>1. {chapter, section, article, title, recital} \subseteq Line \cup {0} /\ inRecitals \in BOOLEAN /\ done \in BOOLEAN
    BY <1>2
  <2>2. doc \in Seq(Kind) /\ Len(doc) <= MaxLines
    BY <1>1, <1>2, ParserAssumption
  <2>3. body \in Seq(Line) /\ recitalLines \in Seq(Line) /\ chunks \in Seq(Chunk)
    BY <1>1, <1>2
  <2> QED
    BY <2>1, <2>2, <2>3 DEF TypeOK
<1>4. \A kinds : LastLine(kinds, ThisLine) = 0
  <2>1. doc \in Seq(Kind) /\ Len(doc) = 0
    BY <1>1, <1>2
  <2>2. \A kinds : LastLine(kinds, ThisLine) \in 0..0
    BY <2>1, LastLineOfNext
  <2> QED
    BY <2>2
<1>5. PlaceOfLine
  BY <1>2, <1>4 DEF PlaceOfLine, ChapterOf, SectionOf, Enacting
<1>6. ArticleSoFar
  BY <1>2, <1>4 DEF ArticleSoFar, nothing
<1>7. RecitalSoFar
  BY <1>2, <1>4 DEF RecitalSoFar, nothing
<1>8. \A n : ChunksSound(chunks, n)
  BY <1>1, <1>2 DEF ChunksSound
<1>9. Kept(chunks, body, recitalLines)
  BY <1>1, <1>2 DEF Kept
<1>10. Reading
  BY <1>3, <1>5, <1>6, <1>7, <1>8, <1>9 DEF Reading, Walk
<1>11. FiledWhereItStands /\ NeighboursOverlap /\ NothingLost
  BY <1>1, <1>2 DEF FiledWhereItStands, NeighboursOverlap, NothingLost
<1> QED
  BY <1>3, <1>10, <1>11 DEF ParserInv

LEMMA UnchangedKeepsInv ==
  ASSUME ParserInv, UNCHANGED vars
  PROVE  ParserInv'
<1>1. /\ doc' = doc /\ body' = body /\ recitalLines' = recitalLines /\ chunks' = chunks /\ done' = done
      /\ chapter' = chapter /\ section' = section /\ article' = article /\ title' = title
      /\ inRecitals' = inRecitals /\ recital' = recital
  BY DEF vars, place, recitals
<1>2. TypeOK'
  BY <1>1 DEF ParserInv, TypeOK
<1>3. PICK cs : cs = chunks
  OBVIOUS
<1>4. FiledWhereItStands'
  <2>1. \A c \in Range(cs) : Filed(c)'
    BY <1>1, <1>3, SameDocument DEF ParserInv, FiledWhereItStands, Filed
  <2> QED
    BY <1>1, <1>3, <2>1 DEF FiledWhereItStands, Filed
<1>5. NeighboursOverlap'
  BY <1>1 DEF ParserInv, NeighboursOverlap
<1>6. NothingLost'
  BY <1>1, SameDocument DEF ParserInv, NothingLost
<1>7. ASSUME Reading PROVE Reading'
  <2>1. PICK m : m = ThisLine
    OBVIOUS
  <2>2. m = ThisLine'
    BY <1>1, <2>1, SameDocument
  <2>3. PlaceOfLine'
    BY <1>1, <1>7, <2>1, <2>2, SameDocument DEF Reading, Walk, PlaceOfLine
  <2>4. ArticleSoFar'
    <3>1. PICK a : a = article
      OBVIOUS
    <3>2. Increasing(body)' <=> Increasing(body)
      BY <1>1 DEF Increasing
    <3> QED
      BY <1>1, <1>7, <2>1, <2>2, <3>1, <3>2, SameDocument DEF Reading, Walk, ArticleSoFar
  <2>5. RecitalSoFar'
    BY <1>1, <1>7, <2>1, <2>2, SameDocument DEF Reading, Walk, RecitalSoFar
  <2>6. ChunksSound(chunks, LastLine(Heading, ThisLine))'
    <3>1. LastLine(Heading, ThisLine)' = LastLine(Heading, ThisLine)
      BY <1>1 DEF LastLine, ThisLine
    <3>2. \A c \in Range(chunks) : Filed(c)' /\ Before(c, LastLine(Heading, ThisLine))
      BY <1>1, <1>7, SameDocument DEF Reading, ChunksSound
    <3> QED
      BY <1>1, <1>7, <3>1, <3>2 DEF Reading, ChunksSound, Meet, Before
  <2>7. Kept(chunks, body, recitalLines)'
    BY <1>1, <1>7, SameDocument DEF Reading, Kept, InArticle, InRecital
  <2> QED
    BY <1>2, <2>3, <2>4, <2>5, <2>6, <2>7 DEF Reading, Walk
<1> QED
  BY <1>1, <1>2, <1>4, <1>5, <1>6, <1>7 DEF ParserInv

LEMMA NextKeepsInv == ParserInv /\ [Next]_vars => ParserInv'
<1> SUFFICES ASSUME ParserInv, [Next]_vars PROVE ParserInv'
  OBVIOUS
<1>1. CASE UNCHANGED vars
  BY <1>1, UnchangedKeepsInv
<1>2. CASE ReadChapter
  <2>1. ~ done /\ done' = done
    BY <1>2 DEF ReadChapter, Read
  <2> QED
    BY <1>2, <2>1, ReadChapterKeeps, ReadingKeepsInv DEF ParserInv, TypeOK
<1>3. CASE ReadSection
  <2>1. ~ done /\ done' = done
    BY <1>3 DEF ReadSection, Read
  <2> QED
    BY <1>3, <2>1, ReadSectionKeeps, ReadingKeepsInv DEF ParserInv, TypeOK
<1>4. CASE ReadArticle
  <2>1. ~ done /\ done' = done
    BY <1>4 DEF ReadArticle, Read
  <2> QED
    BY <1>4, <2>1, ReadArticleKeeps, ReadingKeepsInv DEF ParserInv, TypeOK
<1>5. CASE ReadAnnex
  <2>1. ~ done /\ done' = done
    BY <1>5 DEF ReadAnnex, Read
  <2> QED
    BY <1>5, <2>1, ReadAnnexKeeps, ReadingKeepsInv DEF ParserInv, TypeOK
<1>6. CASE ReadTitle
  <2>1. ~ done /\ done' = done
    BY <1>6 DEF ReadTitle, Read
  <2> QED
    BY <1>6, <2>1, ReadTitleKeeps, ReadingKeepsInv DEF ParserInv, TypeOK
<1>7. ASSUME NEW kind \in Prose, ReadInRecitals(kind) PROVE ParserInv'
  <2>1. ~ done /\ done' = done
    BY <1>7 DEF ReadInRecitals, Read
  <2> QED
    BY <1>7, <2>1, ReadInRecitalsKeeps, ReadingKeepsInv DEF ParserInv, TypeOK
<1>8. ASSUME NEW kind \in Prose, ReadInArticle(kind) PROVE ParserInv'
  <2>1. ~ done /\ done' = done
    BY <1>8 DEF ReadInArticle, Read
  <2> QED
    BY <1>8, <2>1, ReadInArticleKeeps, ReadingKeepsInv DEF ParserInv, TypeOK
<1>9. CASE EndOfDocument
  BY <1>9, EndOfDocumentKeeps DEF ParserInv, EndOfDocument
<1> QED
  BY <1>1, <1>2, <1>3, <1>4, <1>5, <1>6, <1>7, <1>8, <1>9 DEF Next

-----------------------------------------------------------------------------
(* The theorems *)

\* The inductive invariant of _parse_markdown.
THEOREM ParserInvariant == Spec => []ParserInv
<1>1. Init => ParserInv
  BY InitEstablishesInv
<1>2. ParserInv /\ [Next]_vars => ParserInv'
  BY NextKeepsInv
<1> QED
  BY <1>1, <1>2, PTL DEF Spec

\* The lines, the chunks and what the walk remembers are of their types.
THEOREM TypeCorrect == Spec => []TypeOK
<1>1. ParserInv => TypeOK
  BY DEF ParserInv
<1> QED
  BY <1>1, ParserInvariant, PTL

\* _parse_markdown files each chunk under the article or the recital, and the
\* chapter, section and title, in which its text stands.
THEOREM EveryChunkFiled == Spec => []FiledWhereItStands
<1>1. ParserInv => FiledWhereItStands
  BY DEF ParserInv
<1> QED
  BY <1>1, ParserInvariant, PTL

\* When _parse_markdown returns, every word of every article and recital is in
\* one of its chunks.
THEOREM NoWordLost == Spec => []NothingLost
<1>1. ParserInv => NothingLost
  BY DEF ParserInv
<1> QED
  BY <1>1, ParserInvariant, PTL

\* Chunks of one article that _chunk_text cuts side by side share Overlap words.
THEOREM CutsOverlap == Spec => []NeighboursOverlap
<1>1. ParserInv => NeighboursOverlap
  BY DEF ParserInv
<1> QED
  BY <1>1, ParserInvariant, PTL

=============================================================================
