----------------------------- MODULE VectorIndex -----------------------------
(***************************************************************************)
(* The Qdrant collection of the agent, filled by runs of the pipeline      *)
(* (ingest.py --upsert with infrastructure/embeddings.py and               *)
(* infrastructure/qdrant_client.py) and searched by the retriever node.    *)
(*                                                                         *)
(* Every run of the pipeline parses the same regulation into the same      *)
(* chunks, under ids of its own; the vector of a text is named by the      *)
(* chunk the text is of.  Runs may overlap, and die at any step.           *)
(***************************************************************************)
EXTENDS Naturals, SequencesExt

CONSTANTS
  Run,          \* runs of the pipeline
  KeyOf,        \* KeyOf[c]: the article or recital of chunk c
  Recital,      \* the keys that are recitals
  EmbedSize,    \* batch_size of embed_all
  UpsertSize,   \* batch_size of _upsert_to_qdrant
  Attempts,     \* max_retries of _embed_with_retry
  TopK,         \* RETRIEVAL_TOP_K
  Threshold,    \* SIMILARITY_THRESHOLD
  MaxScore,     \* bound of the instance: scores are 0..MaxScore
  NoText

Chunk == DOMAIN KeyOf
Key == Range(KeyOf)

ASSUME IndexAssumption ==
  /\ KeyOf \in Seq(Key)
  /\ Recital \subseteq Key
  /\ {EmbedSize, UpsertSize, Attempts, TopK} \subseteq Nat \ {0}
  /\ {Threshold, MaxScore} \subseteq Nat
  /\ NoText \notin Key

PayloadIndex ==
  <<"article_number", "chapter_number", "section_number", "is_recital", "recital_number">>

VARIABLES
  collection,  \* the collection exists
  indexed,     \* the payload indexes it has
  points,      \* what is stored in it
  pc,          \* of each run: its next step; "hung" in a call that never returns
  step,        \* of each run: indexes, texts or points it is through with
  attempt,     \* of each run: failed calls for the batch being embedded
  vectors,     \* of each run: all_embeddings
  score,       \* the similarity of each chunk to the objective
  docs,        \* retrieved_docs of the last search
  maimed       \* history: runs that died between creation and last index

index == <<collection, indexed, points>>
pipeline == <<pc, step, attempt, vectors>>
search == <<score, docs>>
vars == <<index, pipeline, search, maimed>>

\* The id of a point is <<run, chunk>>.
Point == [run : Run, chunk : Chunk, vector : Chunk]
Doc == [key : Key, parent_text : Key \cup {NoText}, score : 0..MaxScore]

TypeOK ==
  /\ collection \in BOOLEAN
  /\ indexed \subseteq Range(PayloadIndex)
  /\ points \subseteq Point
  /\ pc \in [Run -> {"idle", "ensure", "create", "index", "embed", "hung", "upsert", "done", "dead"}]
  /\ step \in [Run -> 0..Max({Len(KeyOf), Len(PayloadIndex)})]
  /\ attempt \in [Run -> 0..(Attempts - 1)]
  /\ vectors \in [Run -> Seq(Chunk)]
  /\ \A r \in Run : Len(vectors[r]) <= Len(KeyOf)
  /\ score \in [Chunk -> 0..MaxScore]
  /\ docs \subseteq Doc /\ \A d, e \in docs : d.key = e.key => d = e
  /\ maimed \subseteq Run

Init ==
  /\ collection = FALSE /\ indexed = {} /\ points = {}
  /\ pc = [r \in Run |-> "idle"]
  /\ step = [r \in Run |-> 0]
  /\ attempt = [r \in Run |-> 0]
  /\ vectors = [r \in Run |-> <<>>]
  /\ score \in [Chunk -> 0..MaxScore]
  /\ docs = {}
  /\ maimed = {}

Goto(r, place) == pc' = [pc EXCEPT ![r] = place]
Through(r, n) == step' = [step EXCEPT ![r] = n]

\* The process is gone, and what it had in memory.
Gone(r) ==
  /\ Goto(r, "dead") /\ Through(r, 0)
  /\ attempt' = [attempt EXCEPT ![r] = 0]
  /\ vectors' = [vectors EXCEPT ![r] = <<>>]

-----------------------------------------------------------------------------
(* ensure_collection *)

StartPipeline(r) ==
  /\ pc[r] = "idle"
  /\ Goto(r, "ensure")
  /\ UNCHANGED <<index, step, attempt, vectors, search, maimed>>

EnsureCollection(r) ==
  /\ pc[r] = "ensure"
  /\ Goto(r, IF collection THEN "embed" ELSE "create")
  /\ UNCHANGED <<index, step, attempt, vectors, search, maimed>>

\* Qdrant refuses to create a collection that another run has created.
CreateCollection(r) ==
  /\ pc[r] = "create"
  /\ \/ ~ collection /\ Goto(r, "index") /\ UNCHANGED <<step, attempt, vectors>>
     \/ collection /\ Gone(r)
  /\ collection' = TRUE
  /\ UNCHANGED <<indexed, points, search, maimed>>

\* Variant of CreatePayloadIndex: the last index is left out.
CreatePayloadIndexButLast(r) ==
  /\ pc[r] = "index"
  /\ indexed' = indexed \cup {PayloadIndex[step[r] + 1]}
  /\ IF step[r] + 2 < Len(PayloadIndex)
     THEN Through(r, step[r] + 1) /\ UNCHANGED pc
     ELSE Through(r, 0) /\ Goto(r, "embed")
  /\ UNCHANGED <<collection, points, attempt, vectors, search, maimed>>

CreatePayloadIndex(r) ==
  /\ pc[r] = "index"
  /\ indexed' = indexed \cup {PayloadIndex[step[r] + 1]}
  /\ IF step[r] + 1 < Len(PayloadIndex)
     THEN Through(r, step[r] + 1) /\ UNCHANGED pc
     ELSE Through(r, 0) /\ Goto(r, "embed")
  /\ UNCHANGED <<collection, points, attempt, vectors, search, maimed>>

-----------------------------------------------------------------------------
(* embed_all, _embed_with_retry, embed_batch *)

\* The chunks of the batch after the first n.
Batch(n, size) == SubSeq([c \in Chunk |-> c], n + 1, Min({n + size, Len(KeyOf)}))

NextBatch(r, n) ==
  IF n < Len(KeyOf) THEN Through(r, n) /\ UNCHANGED pc
                    ELSE Through(r, 0) /\ Goto(r, "upsert")

EmbedBatch(r) ==
  LET batch == Batch(step[r], EmbedSize) IN
  /\ pc[r] = "embed"
  /\ vectors' = [vectors EXCEPT ![r] = @ \o batch]
  /\ attempt' = [attempt EXCEPT ![r] = 0]
  /\ NextBatch(r, step[r] + Len(batch))
  /\ UNCHANGED <<index, search, maimed>>

\* Variant of EmbedRateLimited: the batch is given up, and the run goes on.
EmbedRateLimitedSkips(r) ==
  /\ pc[r] = "embed"
  /\ \/ /\ attempt[r] < Attempts - 1
        /\ attempt' = [attempt EXCEPT ![r] = @ + 1]
        /\ UNCHANGED <<pc, step>>
     \/ /\ attempt[r] = Attempts - 1
        /\ attempt' = [attempt EXCEPT ![r] = 0]
        /\ NextBatch(r, step[r] + Len(Batch(step[r], EmbedSize)))
  /\ UNCHANGED <<vectors, index, search, maimed>>

\* Variant of EmbedRateLimited: the attempts are not counted.
EmbedRateLimitedOnAndOn(r) ==
  /\ pc[r] = "embed"
  /\ attempt' = [attempt EXCEPT ![r] = (@ + 1) % Attempts]
  /\ UNCHANGED <<pc, step, vectors, index, search, maimed>>

EmbedRateLimited(r) ==
  /\ pc[r] = "embed"
  /\ attempt[r] < Attempts - 1
  /\ attempt' = [attempt EXCEPT ![r] = @ + 1]
  /\ UNCHANGED <<pc, step, vectors, index, search, maimed>>

\* embed_content is called without a time limit: neither the client nor embed_batch
\* sets one, and a call may never return.
EmbedHangs(r) ==
  /\ pc[r] = "embed"
  /\ Goto(r, "hung")
  /\ UNCHANGED <<step, attempt, vectors, index, search, maimed>>

-----------------------------------------------------------------------------
(* _upsert_to_qdrant, upsert_chunks *)

\* zip(chunks, vectors) pairs them by their place.
PointsOf(r, batch) ==
  {[run |-> r, chunk |-> c, vector |-> vectors[r][c]] : c \in Range(batch) \cap DOMAIN vectors[r]}

\* Variant of UpsertBatch: the last batch is left out.
UpsertBatchButLast(r) ==
  LET batch == Batch(step[r], UpsertSize) IN
  /\ pc[r] = "upsert"
  /\ points' = points \cup PointsOf(r, batch)
  /\ IF step[r] + Len(batch) + UpsertSize < Len(KeyOf)
     THEN Through(r, step[r] + Len(batch)) /\ UNCHANGED <<pc, attempt, vectors>>
     ELSE /\ Goto(r, "done") /\ Through(r, 0)
          /\ vectors' = [vectors EXCEPT ![r] = <<>>] /\ UNCHANGED attempt
  /\ UNCHANGED <<collection, indexed, search, maimed>>

UpsertBatch(r) ==
  LET batch == Batch(step[r], UpsertSize) IN
  /\ pc[r] = "upsert"
  /\ points' = points \cup PointsOf(r, batch)
  /\ IF step[r] + Len(batch) < Len(KeyOf)
     THEN Through(r, step[r] + Len(batch)) /\ UNCHANGED <<pc, attempt, vectors>>
     ELSE /\ Goto(r, "done") /\ Through(r, 0)
          /\ vectors' = [vectors EXCEPT ![r] = <<>>] /\ UNCHANGED attempt
  /\ UNCHANGED <<collection, indexed, search, maimed>>

\* The call times out, but Qdrant has stored the batch.
UpsertTimesOut(r) ==
  /\ pc[r] = "upsert"
  /\ points' = points \cup PointsOf(r, Batch(step[r], UpsertSize))
  /\ Gone(r)
  /\ UNCHANGED <<collection, indexed, search, maimed>>

\* An exception nobody catches, the last rate limit among them, or a kill.
Die(r) ==
  /\ pc[r] \notin {"idle", "done", "dead"}
  /\ Gone(r)
  /\ maimed' = IF pc[r] = "index" THEN maimed \cup {r} ELSE maimed
  /\ UNCHANGED <<index, search>>

-----------------------------------------------------------------------------
(* search_chunks and what retriever_node makes of its hits *)

Score(p) == score[p.chunk]

\* The TopK points nearest to the objective; who comes in among equals is open.
Hits(hits) ==
  /\ hits \subseteq points
  /\ Cardinality(hits) = Min({TopK, Cardinality(points)})
  /\ \A p \in hits, q \in points \ hits : Score(p) >= Score(q)

FilterByThreshold(hits) == {p \in hits : Score(p) >= Threshold}

\* Variant of DeduplicateByArticle: every point has a key of its own.
DeduplicateById(hits) == hits

\* Variant of DeduplicateByArticle: any hit of an article will do.
DeduplicateByArticleFirst(hits) ==
  {CHOOSE p \in hits : KeyOf[p.chunk] = k : k \in {KeyOf[p.chunk] : p \in hits}}

DeduplicateByArticle(hits) ==
  {CHOOSE p \in hits : /\ KeyOf[p.chunk] = k
                       /\ \A q \in hits : KeyOf[q.chunk] = k => Score(p) >= Score(q)
     : k \in {KeyOf[p.chunk] : p \in hits}}

\* The payload of a recital has its text and no parent_text.
ParentText(k) == IF k \in Recital THEN NoText ELSE k

FormatRetrievedDocs(hits) ==
  {[key |-> KeyOf[p.chunk], parent_text |-> ParentText(KeyOf[p.chunk]), score |-> Score(p)] :
     p \in hits}

Retrieve ==
  /\ collection
  /\ \E hits \in SUBSET points :
       /\ Hits(hits)
       /\ docs' = FormatRetrievedDocs(DeduplicateByArticle(FilterByThreshold(hits)))
  /\ UNCHANGED <<index, pipeline, score, maimed>>

\* Without a collection, and when a call fails, nothing is retrieved.
RetrievalFails ==
  /\ docs' = {}
  /\ UNCHANGED <<index, pipeline, score, maimed>>

-----------------------------------------------------------------------------

Continue(r) ==
  \/ EnsureCollection(r)
  \/ CreateCollection(r)
  \/ CreatePayloadIndex(r)
  \/ EmbedBatch(r)
  \/ EmbedRateLimited(r)
  \/ UpsertBatch(r)

Next ==
  \/ \E r \in Run :
       StartPipeline(r) \/ Continue(r) \/ EmbedHangs(r) \/ UpsertTimesOut(r) \/ Die(r)
  \/ Retrieve
  \/ RetrievalFails

Spec == Init /\ [][Next]_vars

\* A run takes its next step when a call has ended.  Calls to Qdrant have time
\* limits; those to the embedding API have none, and EmbedHangs is one without an end.
FairSpec == Spec /\ \A r \in Run : WF_vars(Continue(r))

-----------------------------------------------------------------------------
(* Properties *)

\* Every point carries the vector of its own text: batches, retries and runs
\* that overlap never shift all_embeddings against the chunks it is zipped to.
VectorsMatchTexts == \A p \in points : p.vector = p.chunk

\* A run that reports "Done" has stored every chunk, however the runs overlap.
DoneMeansStored ==
  \A r \in Run : pc[r] = "done" =>
    \A c \in Chunk : \E p \in points : p.run = r /\ p.chunk = c

\* A collection lacks a payload index only while the run that created it is at
\* it, or because that run died: later runs take the collection as it is.
IndexesAccountedFor ==
  collection /\ indexed # Range(PayloadIndex) =>
    maimed # {} \/ \E r \in Run : pc[r] = "index"

\* A search gives for each article its best chunk in the collection, and the
\* best chunk of all whenever it is relevant, whatever half-finished and
\* repeated runs have left in the collection.
BestOfEachArticle ==
  [][Retrieve =>
       /\ \A d \in docs' :
            /\ d.score >= Threshold
            /\ \A p \in points : KeyOf[p.chunk] = d.key => Score(p) <= d.score
       /\ \A p \in points :
            Score(p) >= Threshold /\ (\A q \in points : Score(q) <= Score(p))
              => \E d \in docs' : d.score = Score(p)]_vars

\* Every run that is started ends, rate limits and races for the collection
\* included, unless a call to the embedding API never returns.
PipelineEnds == \A r \in Run : pc[r] = "ensure" ~> pc[r] \in {"done", "dead", "hung"}

\* "Each chunk carries metadata: [...] parent_text (full article text for
\* context)": what is retrieved has a text for _format_context to show.
DocsHaveText == \A d \in docs : d.parent_text # NoText

=============================================================================
