--------------------------- MODULE ComplianceGraph ---------------------------
(***************************************************************************)
(* The LangGraph agent of src/agent/app on one thread: the nodes intent,   *)
(* retrieve, rewrite_objective, generate and fallback, the conditional     *)
(* edges between them and the reducers of AgentState.                      *)
(*                                                                         *)
(* The state is kept by the LangGraph server from one run of the thread to *)
(* the next, and a checkpoint is written after every node, so a run that   *)
(* dies leaves the state of its last completed node to the next run.  The  *)
(* runs of a thread are queued and executed one after the other.           *)
(*                                                                         *)
(* The nodes also emit what stream_mode=["events"] shows of a run; `heard` *)
(* says whether somebody listens to the run in execution.                  *)
(***************************************************************************)
EXTENDS Naturals, SequencesExt

CONSTANTS
  Query,        \* user messages; AlignRequest refuses the empty one
  Article,      \* articles and recitals of the index
  MaxAttempts,  \* the limit in check_relevance
  LLMAttempts,  \* LLM_MAX_RETRIES
  Pieces,       \* bound of the instance: pieces one LLM answer is streamed in
  MaxRuns,      \* bound of the instance: runs on the thread
  NoQuery

Node == {"intent", "retrieve", "rewrite_objective", "generate", "fallback"}

ASSUME GraphAssumption ==
  /\ MaxAttempts \in Nat \ {0}
  /\ LLMAttempts \in Nat \ {0}
  /\ Pieces \in Nat
  /\ MaxRuns \in Nat
  /\ NoQuery \notin Query

VARIABLES
  messages,            \* the conversation
  objective,           \* the query it was made of, and how often it was rewritten
  retrieved_docs,
  is_relevant,         \* "none", "no" or "yes"
  retrieval_attempts,
  next,                \* the node to execute; "end" when no run executes
  call, draft,         \* of the generate node: LLM call, pieces it has streamed
  pending,             \* runs that wait for the thread
  heard,               \* the run in execution has a listener
  events,              \* events on their way to the listener
  runs,                \* runs asked for so far
  searched             \* history: retrievals of the run in execution, counted up
                       \* to one more than there may be

agentState == <<messages, objective, retrieved_docs, is_relevant, retrieval_attempts>>
writing == <<call, draft>>
queue == <<pending, heard, runs>>
graph == <<agentState, next, writing, queue, events, searched>>

NoObjective == [query |-> NoQuery, round |-> 0]
Objective == [query : Query, round : Nat] \cup {NoObjective}
Doc == [article : Article, for : Objective]

\* A piece of text is known by the LLM call that wrote it and its place in the
\* answer of that call; a canned text is piece 0 of call 0.
Piece == Nat \X Nat
Canned == << <<0, 0>> >>

Kind == {"question", "chat", "report", "write-up failed", "insufficient", "failure"}
Message == [kind : Kind, query : Query, text : Seq(Piece), cites : SUBSET Doc]

Event == [kind : {"on_chain_start", "on_chat_model_stream", "on_chain_end"},
          name : Node \cup {"nested"}, node : Node,
          text : Seq(Piece), objective : BOOLEAN]

TypeOK ==
  /\ messages \in Seq(Message)
  /\ objective \in Objective
  /\ retrieved_docs \subseteq Doc
  /\ is_relevant \in {"none", "no", "yes"}
  /\ retrieval_attempts \in Nat
  /\ next \in Node \cup {"end"}
  /\ call \in 0..LLMAttempts
  /\ draft \in Seq(Piece)
  /\ pending \in Seq([query : Query, heard : BOOLEAN])
  /\ heard \in BOOLEAN
  /\ events \in Seq(Event)
  /\ runs \in 0..MaxRuns
  /\ searched \in Nat

Init ==
  /\ messages = <<>>
  /\ objective = NoObjective
  /\ retrieved_docs = {}
  /\ is_relevant = "none"
  /\ retrieval_attempts = 0
  /\ next = "end"
  /\ call = 0
  /\ draft = <<>>
  /\ pending = <<>>
  /\ heard = FALSE
  /\ events = <<>>
  /\ runs = 0
  /\ searched = 0

-----------------------------------------------------------------------------
(* Reducers, edges, events *)

\* add_messages and docs_reducer append; RESET_DOCS empties retrieved_docs, whose
\* order nothing depends on.
Say(kind, q, text, docs) ==
  messages' = Append(messages, [kind |-> kind, query |-> q, text |-> text, cites |-> docs])
AppendDocs(docs) == retrieved_docs' = retrieved_docs \cup docs
ResetDocs == retrieved_docs' = {}

LastUserMessage ==
  LET i == CHOOSE i \in DOMAIN messages :
             /\ messages[i].kind = "question"
             /\ \A j \in DOMAIN messages : messages[j].kind = "question" => j <= i
  IN  messages[i].query

ShouldRetrieve(o) == IF o # NoObjective THEN "retrieve" ELSE "end"

\* Variant of CheckRelevance: one retrieval more.
CheckRelevanceLate(relevant, attempts) ==
  CASE relevant = "yes" -> "generate"
    [] relevant # "yes" /\ attempts > MaxAttempts -> "fallback"
    [] OTHER -> "rewrite_objective"

CheckRelevance(relevant, attempts) ==
  CASE relevant = "yes" -> "generate"
    [] relevant # "yes" /\ attempts >= MaxAttempts -> "fallback"
    [] OTHER -> "rewrite_objective"

\* A node's own events carry its name; those of the LLM calls, parsers and
\* edges inside it carry other names and the same langgraph_node.
Boundary(kind, n, text, withObjective) ==
  [kind |-> kind, name |-> n, node |-> n, text |-> text, objective |-> withObjective]
Nested(kind, n, text) ==
  [kind |-> kind, name |-> "nested", node |-> n, text |-> text, objective |-> FALSE]

Started(n) == << Boundary("on_chain_start", n, <<>>, FALSE),
                 Nested("on_chain_start", n, <<>>) >>
Ended(n, text, withObjective) ==
  << Nested("on_chain_end", n, <<>>), Boundary("on_chain_end", n, text, withObjective) >>
Token(n, piece) == << Nested("on_chat_model_stream", n, <<piece>>) >>

Emit(evs) == events' = IF heard THEN events \o evs ELSE events

-----------------------------------------------------------------------------
(* Runs *)

\* runs.stream is received by the server: the run is queued on the thread.
Enqueue(q, listened) ==
  /\ runs < MaxRuns
  /\ runs' = runs + 1
  /\ pending' = Append(pending, [query |-> q, heard |-> listened])

\* The next run starts: its input is one user message.
BeginRun ==
  /\ next = "end"
  /\ pending # <<>>
  /\ Say("question", Head(pending).query, Canned, {})
  /\ heard' = Head(pending).heard
  /\ pending' = Tail(pending)
  /\ next' = "intent"
  /\ searched' = 0
  /\ UNCHANGED <<objective, retrieved_docs, is_relevant, retrieval_attempts,
                 writing, events, runs>>

\* The run dies: it is cancelled, or the server stops.
Interrupt ==
  /\ next # "end"
  /\ next' = "end"
  /\ call' = 0
  /\ draft' = <<>>
  /\ UNCHANGED <<agentState, queue, events, searched>>

-----------------------------------------------------------------------------
(* Nodes *)

\* Variant of IntentNode: the user is told that the audit goes ahead.
IntentNodeAnnounces ==
  /\ next = "intent"
  /\ objective' \in {[query |-> LastUserMessage, round |-> 0], NoObjective}
  /\ Say("chat", LastUserMessage, Canned, {})
  /\ Emit(Started("intent") \o Ended("intent", Canned, objective' # NoObjective))
  /\ ResetDocs
  /\ is_relevant' = "none"
  /\ retrieval_attempts' = 0
  /\ next' = ShouldRetrieve(objective')
  /\ UNCHANGED <<writing, queue, searched>>

\* Variant of IntentNode: the documents of the run before are kept.
IntentNodeKeepsDocs ==
  /\ next = "intent"
  /\ \/ /\ objective' = [query |-> LastUserMessage, round |-> 0]
        /\ UNCHANGED messages
     \/ /\ objective' = NoObjective
        /\ Say("chat", LastUserMessage, Canned, {})
  /\ is_relevant' = "none"
  /\ retrieval_attempts' = 0
  /\ next' = ShouldRetrieve(objective')
  /\ UNCHANGED <<retrieved_docs, writing, queue, events, searched>>

\* The LLM, or after its failure the keywords of the message, decide between
\* an objective and a chat answer.
IntentNode ==
  /\ next = "intent"
  /\ \/ /\ objective' = [query |-> LastUserMessage, round |-> 0]
        /\ UNCHANGED messages
        /\ Emit(Started("intent") \o Token("intent", <<1, 1>>) \o Ended("intent", <<>>, TRUE))
     \/ /\ objective' = NoObjective
        /\ Say("chat", LastUserMessage, Canned, {})
        /\ Emit(Started("intent") \o Token("intent", <<1, 1>>) \o Ended("intent", Canned, FALSE))
  /\ ResetDocs
  /\ is_relevant' = "none"
  /\ retrieval_attempts' = 0
  /\ next' = ShouldRetrieve(objective')
  /\ UNCHANGED <<writing, queue, searched>>

\* The search fails, or nothing scores above the threshold, or one hit per
\* article is kept.
RetrieverNode ==
  /\ next = "retrieve"
  /\ retrieval_attempts' = retrieval_attempts + 1
  /\ searched' = IF searched > MaxAttempts THEN searched ELSE searched + 1
  /\ \/ /\ is_relevant' = "no"
        /\ AppendDocs({})
     \/ /\ objective # NoObjective
        /\ is_relevant' = "yes"
        /\ \E hits \in (SUBSET Article) \ {{}} :
             AppendDocs({[article |-> a, for |-> objective] : a \in hits})
  /\ next' = CheckRelevance(is_relevant', retrieval_attempts')
  /\ Emit(Started("retrieve") \o Ended("retrieve", <<>>, FALSE))
  /\ UNCHANGED <<messages, objective, writing, queue>>

\* Variant of RewriteObjectiveNode: a rewritten objective starts afresh.
RewriteObjectiveNodeAfresh ==
  /\ next = "rewrite_objective"
  /\ objective' = [objective EXCEPT !.round = 0]
  /\ is_relevant' = "none"
  /\ retrieval_attempts' = 0
  /\ next' = "retrieve"
  /\ Emit(Started("rewrite_objective") \o Ended("rewrite_objective", <<>>, TRUE))
  /\ UNCHANGED <<messages, retrieved_docs, writing, queue, searched>>

RewriteObjectiveNode ==
  /\ next = "rewrite_objective"
  /\ objective' = [objective EXCEPT !.round = @ + 1]
  /\ is_relevant' = "none"
  /\ next' = "retrieve"
  /\ Emit(Started("rewrite_objective") \o Token("rewrite_objective", <<1, 1>>)
            \o Ended("rewrite_objective", <<>>, TRUE))
  /\ UNCHANGED <<messages, retrieved_docs, retrieval_attempts, writing, queue, searched>>

GeneratorBegins ==
  /\ next = "generate"
  /\ call = 0
  /\ call' = 1
  /\ Emit(Started("generate"))
  /\ UNCHANGED <<agentState, next, draft, queue, searched>>

\* The LLM streams one more piece of its answer.
GeneratorStreams ==
  /\ next = "generate"
  /\ call > 0
  /\ Len(draft) < Pieces
  /\ draft' = Append(draft, <<call, Len(draft) + 1>>)
  /\ Emit(Token("generate", <<call, Len(draft) + 1>>))
  /\ UNCHANGED <<agentState, next, call, queue, searched>>

\* call_llm fails in a way it retries; what was streamed stays streamed.
GeneratorRetries ==
  /\ next = "generate"
  /\ call \in 1..(LLMAttempts - 1)
  /\ call' = call + 1
  /\ draft' = <<>>
  /\ UNCHANGED <<agentState, next, queue, events, searched>>

\* The call returns its answer, or fails for good and a canned report says
\* whether anything had been retrieved.
GeneratorNode ==
  /\ next = "generate"
  /\ call > 0
  /\ \/ /\ Say("report", objective.query, draft, retrieved_docs)
        /\ Emit(Ended("generate", draft, FALSE))
     \/ /\ Say(IF retrieved_docs # {} THEN "write-up failed" ELSE "insufficient",
               objective.query, Canned, retrieved_docs)
        /\ Emit(Ended("generate", Canned, FALSE))
  /\ ResetDocs
  /\ next' = "end"
  /\ call' = 0
  /\ draft' = <<>>
  /\ UNCHANGED <<objective, is_relevant, retrieval_attempts, queue, searched>>

FallbackNode ==
  /\ next = "fallback"
  /\ Say("failure", objective.query, Canned, {})
  /\ Emit(Started("fallback") \o Ended("fallback", Canned, FALSE))
  /\ ResetDocs
  /\ next' = "end"
  /\ UNCHANGED <<objective, is_relevant, retrieval_attempts, writing, queue, searched>>

ExecuteNode ==
  \/ IntentNode
  \/ RetrieverNode
  \/ RewriteObjectiveNode
  \/ GeneratorBegins
  \/ GeneratorStreams
  \/ GeneratorRetries
  \/ GeneratorNode
  \/ FallbackNode

Execute == BeginRun \/ ExecuteNode

-----------------------------------------------------------------------------
(* Properties *)

Report == {"report", "write-up failed", "insufficient"}

\* A report is written from provisions that were retrieved for the very
\* question it answers, and from at least one: what an interrupted run had
\* retrieved never reaches the report of the next one, and a report never
\* claims that nothing was found.
ReportsGrounded ==
  \A i \in DOMAIN messages :
    messages[i].kind \in Report =>
      /\ messages[i].kind # "insufficient"
      /\ messages[i].cites # {}
      /\ \A d \in messages[i].cites : d.for.query = messages[i].query

\* Every answer in the thread directly follows the question it is about: a
\* run answers once, also when the runs before it died at any node.
AnswersFollowTheirQuestion ==
  \A i \in DOMAIN messages :
    messages[i].kind # "question" =>
      /\ i > 1
      /\ messages[i - 1].kind = "question"
      /\ messages[i - 1].query = messages[i].query

\* A run gives up on retrieval after MaxAttempts searches of its own, not
\* earlier and not later, whatever the run before it had counted.
GivesUpAfterAllAttempts ==
  /\ searched <= MaxAttempts
  /\ next = "fallback" => searched = MaxAttempts

\* Every run of the graph comes to its end: the loop of retrieve and
\* rewrite_objective is left.
EveryRunEnds == next # "end" ~> next = "end"

=============================================================================
