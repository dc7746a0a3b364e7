-------------------------- MODULE RegulationParser --------------------------
(***************************************************************************)
(* _parse_markdown of the agent's infrastructure/ingest.py: the walk over  *)
(* the lines of a regulation that files its text under recitals and        *)
(* articles and cuts it into chunks.                                       *)
(*                                                                         *)
(* A line is its place in the document; only its kind matters, and a text  *)
(* is the sequence of its words.  Page artifacts and blank lines leave no  *)
(* trace in the walk and are no lines of the model.                        *)
(***************************************************************************)
EXTENDS Naturals, SequencesExt

CONSTANTS
  Target,      \* CHUNK_TARGET_TOKENS
  Overlap,     \* CHUNK_OVERLAP_TOKENS
  LineWords,   \* bound of the instance: words of a line
  MaxLines     \* bound of the instance: lines of the document

ASSUME ParserAssumption ==
  /\ Target \in Nat /\ Overlap \in Nat /\ Overlap < Target
  /\ LineWords \in Nat \ {0}
  /\ MaxLines \in Nat

Heading == {"chapter", "section", "article", "annex"}
Prose == {"recital", "footnote", "text"}   \* a recital line opens a recital
Kind == Heading \cup Prose \cup {"title"}

VARIABLES
  doc,                               \* the kinds of the lines read so far
  chapter, section, article, title,  \* current_*: a line, or 0 for None
  body,                              \* current_article_body_lines
  inRecitals, recital, recitalLines, \* current_recital_*
  chunks,
  done

place == <<chapter, section, article, title>>
recitals == <<inRecitals, recital, recitalLines>>
vars == <<doc, place, body, recitals, chunks, done>>

Line == 1..MaxLines
Word == Line \X (1..LineWords)

Chunk ==
  [recital : {0}, article : Line, title : Line \cup {0}, chapter : Line \cup {0},
   section : Line \cup {0}, text : Seq(Word), parent : Seq(Word)]
  \cup [recital : Line, text : Seq(Word)]

TypeOK ==
  /\ doc \in Seq(Kind) /\ Len(doc) <= MaxLines
  /\ {chapter, section, article, title, recital} \subseteq Line \cup {0}
  /\ body \in Seq(Line) /\ recitalLines \in Seq(Line)
  /\ inRecitals \in BOOLEAN /\ done \in BOOLEAN
  /\ chunks \in Seq(Chunk)

Init ==
  /\ doc = <<>>
  /\ chapter = 0 /\ section = 0 /\ article = 0 /\ title = 0
  /\ body = <<>>
  /\ inRecitals = TRUE /\ recital = 0 /\ recitalLines = <<>>
  /\ chunks = <<>>
  /\ done = FALSE

-----------------------------------------------------------------------------
(* _chunk_text *)

WordsOf(lines) ==
  FlattenSeq([i \in DOMAIN lines |-> [k \in 1..LineWords |-> <<lines[i], k>>]])

\* Variant of Windows: the next window starts where the last one ended.
AdjacentWindows(words) ==
  LET from[start \in 0..Len(words)] ==
        LET end == Min({start + Target, Len(words)}) IN
        <<SubSeq(words, start + 1, end)>>
          \o IF end >= Len(words) THEN <<>> ELSE from[end]
  IN  from[0]

Windows(words) ==
  LET from[start \in 0..Len(words)] ==
        LET end == Min({start + Target, Len(words)}) IN
        <<SubSeq(words, start + 1, end)>>
          \o IF end >= Len(words) THEN <<>> ELSE from[end - Overlap]
  IN  from[0]

\* Whether a text is cut is decided by its characters, the windows are counted
\* in words: any text may be taken for a short one or for a long one.
ChunkText(words) == {<<words>>, Windows(words)}

\* Called only while there is an article.
FlushArticle ==
  /\ body' = IF article = 0 THEN body ELSE <<>>
  /\ IF article = 0 \/ body = <<>>
     THEN UNCHANGED chunks
     ELSE \E texts \in ChunkText(WordsOf(body)) :
            chunks' = chunks \o [i \in DOMAIN texts |->
              [recital |-> 0, article |-> article, title |-> title, chapter |-> chapter,
               section |-> section, text |-> texts[i], parent |-> WordsOf(body)]]

\* Variant of FlushSingleRecital: also when no recital is open.
FlushSingleRecitalUnguarded ==
  \E texts \in ChunkText(WordsOf(recitalLines)) :
    chunks' = chunks \o [i \in DOMAIN texts |-> [recital |-> recital, text |-> texts[i]]]

FlushSingleRecital ==
  IF recital = 0 \/ recitalLines = <<>>
  THEN UNCHANGED chunks
  ELSE \E texts \in ChunkText(WordsOf(recitalLines)) :
         chunks' = chunks \o [i \in DOMAIN texts |-> [recital |-> recital, text |-> texts[i]]]

-----------------------------------------------------------------------------
(* One action for each kind of line *)

Read(kind) == ~ done /\ Len(doc) < MaxLines /\ doc' = Append(doc, kind)
ThisLine == Len(doc) + 1

\* A heading ends the recital that is being read, or else the article.
EndUnit ==
  \/ /\ inRecitals /\ recital # 0
     /\ FlushSingleRecital /\ recitalLines' = <<>>
     /\ UNCHANGED body
  \/ /\ ~ (inRecitals /\ recital # 0)
     /\ FlushArticle
     /\ UNCHANGED recitalLines

\* Variant of ReadChapter: the section goes on.
ReadChapterInSection ==
  /\ Read("chapter")
  /\ EndUnit
  /\ inRecitals' = FALSE
  /\ chapter' = ThisLine
  /\ article' = 0 /\ title' = 0
  /\ UNCHANGED <<section, recital, done>>

ReadChapter ==
  /\ Read("chapter")
  /\ EndUnit
  /\ inRecitals' = FALSE
  /\ chapter' = ThisLine
  /\ section' = 0
  /\ article' = 0 /\ title' = 0
  /\ UNCHANGED <<recital, done>>

\* Variant of ReadSection: the text of the article stays behind.
ReadSectionUnflushed ==
  /\ Read("section")
  /\ section' = ThisLine
  /\ article' = 0 /\ title' = 0
  /\ UNCHANGED <<chunks, body, chapter, recitals, done>>

ReadSection ==
  /\ Read("section")
  /\ FlushArticle
  /\ section' = ThisLine
  /\ article' = 0 /\ title' = 0
  /\ UNCHANGED <<chapter, recitals, done>>

ReadArticle ==
  /\ Read("article")
  /\ EndUnit
  /\ article' = ThisLine
  /\ title' = 0
  /\ UNCHANGED <<chapter, section, inRecitals, recital, done>>

ReadAnnex ==
  /\ Read("annex")
  /\ EndUnit
  /\ inRecitals' = FALSE
  /\ article' = 0 /\ title' = 0
  /\ UNCHANGED <<chapter, section, recital, done>>

\* The first bold line of an article is its title.
ReadTitle ==
  /\ Read("title")
  /\ title' = IF article # 0 /\ title = 0 THEN ThisLine ELSE title
  /\ UNCHANGED <<chapter, section, article, body, recitals, chunks, done>>

ReadInRecitals(kind) ==
  /\ inRecitals
  /\ Read(kind)
  /\ \/ /\ kind = "footnote"
        /\ UNCHANGED <<chunks, recital, recitalLines>>
     \/ /\ kind = "recital"
        /\ FlushSingleRecital
        /\ recital' = ThisLine
        /\ recitalLines' = <<ThisLine>>
     \/ /\ kind = "text"
        /\ recitalLines' = IF recital # 0 THEN Append(recitalLines, ThisLine) ELSE recitalLines
        /\ UNCHANGED <<chunks, recital>>
  /\ UNCHANGED <<place, body, inRecitals, done>>

\* Behind the recitals footnotes and numbered points are text like any other.
ReadInArticle(kind) ==
  /\ ~ inRecitals
  /\ Read(kind)
  /\ body' = IF article # 0 THEN Append(body, ThisLine) ELSE body
  /\ UNCHANGED <<place, recitals, chunks, done>>

\* Variant of EndOfDocument: the last unit is not flushed.
EndOfDocumentUnflushed ==
  /\ ~ done
  /\ done' = TRUE
  /\ UNCHANGED <<doc, place, body, recitals, chunks>>

\* An article has no text while the recitals last, so one of the two flushes
\* at the end has nothing to do.
EndOfDocument ==
  /\ ~ done
  /\ done' = TRUE
  /\ EndUnit
  /\ UNCHANGED <<doc, place, inRecitals, recital>>

Next ==
  \/ ReadChapter
  \/ ReadSection
  \/ ReadArticle
  \/ ReadAnnex
  \/ ReadTitle
  \/ \E kind \in Prose : ReadInRecitals(kind) \/ ReadInArticle(kind)
  \/ EndOfDocument

Spec == Init /\ [][Next]_vars

-----------------------------------------------------------------------------
(* What the document says, by its lines alone *)

LastLine(kinds, i) == Max({j \in 1..(i - 1) : doc[j] \in kinds} \cup {0})

\* The enacting terms begin with the first chapter, or the first annex.
Enacting(i) == LastLine({"chapter", "annex"}, i) # 0

\* The prose of an article is what follows up to the next heading.  An article
\* in front of the first chapter, which an excerpt may have, is given none.  Bold
\* lines are titles: the code drops those after the first, and they are no prose.
Article(a) ==
  {i \in DOMAIN doc : doc[i] \in Prose /\ Enacting(i) /\ LastLine(Heading, i) = a}

\* The prose of a recital ends with the next one; its footnotes are no part.
Recital(r) ==
  {r} \cup {i \in DOMAIN doc : doc[i] = "text" /\ ~ Enacting(i) /\ LastLine({"recital"}, i) = r}

ChapterOf(a) == LastLine({"chapter"}, a)
SectionOf(a) == LET s == LastLine({"section"}, a) IN IF s > ChapterOf(a) THEN s ELSE 0

TitleOf(a) ==
  LET titles == {i \in DOMAIN doc : doc[i] = "title" /\ LastLine(Heading, i) = a}
  IN  IF titles = {} THEN 0 ELSE Min(titles)

\* Lines in the order of the document: the k-th has k of them up to itself.
InOrder(lines) ==
  [k \in 1..Cardinality(lines) |->
    CHOOSE i \in lines : Cardinality({j \in lines : j <= i}) = k]

LinesIn(words) == {words[k][1] : k \in DOMAIN words}

-----------------------------------------------------------------------------
(* Properties *)

\* A chunk is filed where its text stands in the document: its words are prose
\* of the article or recital it names, chapter, section and title are those of
\* that article, and parent_text is the article whole and in order.
FiledWhereItStands ==
  \A c \in Range(chunks) :
    IF c.recital # 0
    THEN doc[c.recital] = "recital" /\ LinesIn(c.text) \subseteq Recital(c.recital)
    ELSE /\ doc[c.article] = "article"
         /\ LinesIn(c.text) \subseteq Article(c.article)
         /\ c.parent = WordsOf(InOrder(Article(c.article)))
         /\ c.chapter = ChapterOf(c.article)
         /\ c.section = SectionOf(c.article)
         /\ c.title = TitleOf(c.article)

\* Every word of every article and recital is in one of its chunks.
NothingLost ==
  done => \A i \in DOMAIN doc : \A k \in 1..LineWords :
    /\ \A a \in DOMAIN doc : doc[a] = "article" /\ i \in Article(a) =>
         \E c \in Range(chunks) : c.recital = 0 /\ c.article = a /\ <<i, k>> \in Range(c.text)
    /\ \A r \in DOMAIN doc : doc[r] = "recital" /\ ~ Enacting(r) /\ i \in Recital(r) =>
         \E c \in Range(chunks) : c.recital = r /\ <<i, k>> \in Range(c.text)

\* A sentence cut by the end of a chunk is found in the next one: neighbouring
\* chunks of an article share Overlap words.
NeighboursOverlap ==
  \A i \in 2..Len(chunks) :
    LET c == chunks[i - 1]
        d == chunks[i]
    IN  c.recital = 0 /\ d.recital = 0 /\ c.article = d.article =>
          SubSeq(c.text, Len(c.text) - Overlap + 1, Len(c.text)) = SubSeq(d.text, 1, Overlap)

=============================================================================
