----------------------------- MODULE AlignStream -----------------------------
(***************************************************************************)
(* stream_align of the backend reading the runs of module ComplianceGraph: *)
(* the run is opened with retries, the events of the graph arrive one by   *)
(* one while the graph goes on, and each is turned into the events of the  *)
(* response, or dropped.                                                   *)
(*                                                                         *)
(* One response at a time reads from the thread; runs that an attempt to   *)
(* open left behind execute with nobody listening.                         *)
(***************************************************************************)
EXTENDS ComplianceGraph

CONSTANT StreamAttempts   \* stop_after_attempt of _stream_from_langgraph

ASSUME StreamAssumption == StreamAttempts \in Nat \ {0}

VARIABLES
  phase,            \* "idle", "opening", "open" or "closed"
  asked,            \* user_message of the request
  tries,            \* failed attempts to open its run
  emitted_start, streamed_tokens,
  response_type,    \* of the StartEvent that was sent
  text,             \* data of the TokenEvents sent, in order
  outcome,          \* how the response was closed
  stored            \* history: the answer of its run, once it is in the thread

reader == <<emitted_start, streamed_tokens, response_type, text>>
stream == <<phase, asked, tries, reader, outcome, stored>>

NodeResponseType == [n \in {"generate", "fallback"} |->
                       IF n = "generate" THEN "report" ELSE "failure"]
StreamingNodes == {"generate"}
FinalTokenNodes == {"fallback", "intent"}

StreamTypeOK ==
  /\ TypeOK
  /\ phase \in {"idle", "opening", "open", "closed"}
  /\ asked \in Query \cup {NoQuery}
  /\ tries \in 0..(StreamAttempts - 1)
  /\ emitted_start \in BOOLEAN
  /\ streamed_tokens \in BOOLEAN
  /\ response_type \in {"none", "chat", "report", "failure"}
  /\ text \in Seq(Piece)
  /\ outcome \in {"none", "done", "error", "gone"}
  /\ stored \in Seq(Message) /\ Len(stored) <= 1

StreamInit ==
  /\ Init
  /\ phase = "idle"
  /\ asked = NoQuery
  /\ tries = 0
  /\ emitted_start = FALSE
  /\ streamed_tokens = FALSE
  /\ response_type = "none"
  /\ text = <<>>
  /\ outcome = "none"
  /\ stored = <<>>

-----------------------------------------------------------------------------
(* Opening the run *)

\* A request that has passed validate_session calls stream_align.
Ask(q) ==
  /\ phase \in {"idle", "closed"}
  /\ runs < MaxRuns
  /\ phase' = "opening"
  /\ asked' = q
  /\ tries' = 0
  /\ emitted_start' = FALSE
  /\ streamed_tokens' = FALSE
  /\ response_type' = "none"
  /\ text' = <<>>
  /\ outcome' = "none"
  /\ stored' = <<>>
  /\ UNCHANGED graph

\* The first chunk, which carries no event, is there.
OpenRun ==
  /\ phase = "opening"
  /\ Enqueue(asked, TRUE)
  /\ phase' = "open"
  /\ UNCHANGED <<agentState, next, writing, heard, events, searched,
                 asked, tries, reader, outcome, stored>>

\* Variant of OpenRunFails: the attempts are counted anew after the last.
OpenRunFailsOnAndOn ==
  /\ phase = "opening"
  /\ tries' = (tries + 1) % StreamAttempts
  /\ UNCHANGED <<graph, phase, asked, reader, outcome, stored>>

\* Variant of OpenRunFails: one attempt too many.
OpenRunFailsLate ==
  /\ phase = "opening"
  /\ \/ /\ tries < StreamAttempts
        /\ tries' = tries + 1
        /\ UNCHANGED <<phase, outcome>>
     \/ /\ tries = StreamAttempts
        /\ phase' = "closed"
        /\ outcome' = "error"
        /\ UNCHANGED tries
  /\ UNCHANGED <<graph, asked, reader, stored>>

\* A connection error or a timeout is retried, any other failure is not; when the
\* request got there the run may be queued all the same.
OpenRunFails ==
  /\ phase = "opening"
  /\ \/ /\ Enqueue(asked, FALSE)
        /\ UNCHANGED heard
     \/ UNCHANGED queue
  /\ \/ /\ tries + 1 < StreamAttempts
        /\ tries' = tries + 1
        /\ UNCHANGED <<phase, outcome>>
     \/ /\ phase' = "closed"
        /\ outcome' = "error"
        /\ UNCHANGED tries
  /\ UNCHANGED <<agentState, next, writing, events, searched, asked, reader, stored>>

-----------------------------------------------------------------------------
(* The events of the run *)

Take == events' = Tail(events)

AtBoundary(kind) ==
  /\ phase = "open"
  /\ events # <<>>
  /\ Head(events).kind = kind
  /\ Head(events).name = Head(events).node

HandleNodeStart ==
  /\ AtBoundary("on_chain_start")
  /\ LET n == Head(events).name
     IN  \/ /\ n \in DOMAIN NodeResponseType
            /\ ~ emitted_start
            /\ response_type' = NodeResponseType[n]
            /\ emitted_start' = TRUE
         \/ /\ n \notin DOMAIN NodeResponseType \/ emitted_start
            /\ UNCHANGED <<response_type, emitted_start>>
  /\ Take
  /\ UNCHANGED <<agentState, next, writing, queue, searched,
                 phase, asked, tries, streamed_tokens, text, outcome, stored>>

\* Variant of HandleToken: the tokens of every node are passed on.
HandleTokenOfAnyNode ==
  /\ phase = "open"
  /\ events # <<>>
  /\ Head(events).kind = "on_chat_model_stream"
  /\ text' = text \o Head(events).text
  /\ streamed_tokens' = TRUE
  /\ Take
  /\ UNCHANGED <<agentState, next, writing, queue, searched,
                 phase, asked, tries, emitted_start, response_type, outcome, stored>>

HandleToken ==
  /\ phase = "open"
  /\ events # <<>>
  /\ Head(events).kind = "on_chat_model_stream"
  /\ \/ /\ Head(events).node \in StreamingNodes
        /\ Head(events).text # <<>>
        /\ text' = text \o Head(events).text
        /\ streamed_tokens' = TRUE
     \/ /\ Head(events).node \notin StreamingNodes \/ Head(events).text = <<>>
        /\ UNCHANGED <<text, streamed_tokens>>
  /\ Take
  /\ UNCHANGED <<agentState, next, writing, queue, searched,
                 phase, asked, tries, emitted_start, response_type, outcome, stored>>

\* Variant of HandleNodeEnd: what was streamed does not count.
HandleNodeEndAlways ==
  /\ AtBoundary("on_chain_end")
  /\ LET e == Head(events)
         chat == e.name = "intent" /\ ~ emitted_start /\ ~ e.objective
     IN  /\ emitted_start' = (emitted_start \/ chat)
         /\ response_type' = IF chat THEN "chat" ELSE response_type
         /\ text' = text \o e.text
  /\ streamed_tokens' = FALSE
  /\ Take
  /\ UNCHANGED <<agentState, next, writing, queue, searched,
                 phase, asked, tries, outcome, stored>>

\* intent without an objective has answered itself; nodes that do not stream
\* hand over the text of their message.
HandleNodeEnd ==
  /\ AtBoundary("on_chain_end")
  /\ LET e == Head(events)
         chat == e.name = "intent" /\ ~ emitted_start /\ ~ e.objective
         whole == e.name \in FinalTokenNodes /\ ~ streamed_tokens
     IN  /\ emitted_start' = (emitted_start \/ chat)
         /\ response_type' = IF chat THEN "chat" ELSE response_type
         /\ text' = IF whole THEN text \o e.text ELSE text
  /\ streamed_tokens' = FALSE
  /\ Take
  /\ UNCHANGED <<agentState, next, writing, queue, searched,
                 phase, asked, tries, outcome, stored>>

\* Variant of HandleNested: they are taken for the boundaries of their node.
HandleNestedAsBoundary ==
  /\ phase = "open"
  /\ events # <<>>
  /\ Head(events).kind # "on_chat_model_stream"
  /\ Head(events).name # Head(events).node
  /\ LET e == Head(events)
         chat == e.kind = "on_chain_end" /\ e.node = "intent" /\ ~ emitted_start
     IN  /\ emitted_start' = (emitted_start \/ chat)
         /\ response_type' = IF chat THEN "chat" ELSE response_type
  /\ Take
  /\ UNCHANGED <<agentState, next, writing, queue, searched,
                 phase, asked, tries, streamed_tokens, text, outcome, stored>>

\* Chains nested in a node are not its boundaries.
HandleNested ==
  /\ phase = "open"
  /\ events # <<>>
  /\ Head(events).kind # "on_chat_model_stream"
  /\ Head(events).name # Head(events).node
  /\ Take
  /\ UNCHANGED <<agentState, next, writing, queue, searched, stream>>

-----------------------------------------------------------------------------
(* The end of the response *)

RunOver ==
  /\ ~ heard \/ next = "end"
  /\ \A i \in DOMAIN pending : ~ pending[i].heard

\* The server ends the body after the run, also after one that was cut short.
FinishStream ==
  /\ phase = "open"
  /\ RunOver
  /\ events = <<>>
  /\ phase' = "closed"
  /\ outcome' = "done"
  /\ UNCHANGED <<graph, asked, tries, reader, stored>>

\* The connection to the agent breaks (an ErrorEvent follows), or the client
\* has gone and the generator is closed.
CutStream ==
  /\ phase = "open"
  /\ phase' = "closed"
  /\ outcome' \in {"error", "gone"}
  /\ heard' = FALSE
  /\ pending' = [i \in DOMAIN pending |-> [pending[i] EXCEPT !.heard = FALSE]]
  /\ events' = <<>>
  /\ UNCHANGED <<agentState, next, writing, runs, searched, asked, tries, reader, stored>>

GraphStep ==
  /\ Execute \/ Interrupt
  /\ stored' = IF heard /\ Len(messages') > Len(messages) /\ next # "end"
               THEN <<Last(messages')>> ELSE stored
  /\ UNCHANGED <<phase, asked, tries, reader, outcome>>

Opening == OpenRun \/ OpenRunFails
Reading == HandleNodeStart \/ HandleToken \/ HandleNodeEnd \/ HandleNested \/ FinishStream

StreamNext ==
  \/ \E q \in Query : Ask(q)
  \/ Opening
  \/ Reading
  \/ CutStream
  \/ GraphStep

StreamSpec == StreamInit /\ [][StreamNext]_<<graph, stream>>

\* An attempt to open ends in success or by its timeout; the event loop hands
\* on what has arrived; the server goes on with its runs.
StreamFairSpec ==
  /\ StreamSpec
  /\ WF_<<graph, stream>>(Opening)
  /\ WF_<<graph, stream>>(Reading)
  /\ WF_<<graph, stream>>(GraphStep /\ Execute)

-----------------------------------------------------------------------------
(* Properties *)

\* The response keeps the protocol of module StreamProtocol whatever the graph
\* does, retries and dead runs included: one start, no text before it, one end.
Protocol == INSTANCE StreamProtocol WITH
  stage    <- CASE phase = "idle" -> "idle"
                [] phase = "closed" -> "closed"
                [] phase \in {"opening", "open"} /\ emitted_start -> "answering"
                [] OTHER -> "waiting",
  type     <- response_type,
  received <- text

ImplementsProtocol == Protocol!Spec

TypeOfKind(kind) ==
  CASE kind = "chat" -> "chat"
    [] kind = "failure" -> "failure"
    [] OTHER -> "report"

\* When a response is done and its run has answered, the type it announced
\* is that of the answer kept in the thread, the text it carried ends with that
\* answer, and no piece came twice: streaming, backfilling and retried LLM calls
\* neither lose a piece of the answer nor repeat one.
DoneMatchesThread ==
  outcome = "done" /\ stored # <<>> =>
    /\ response_type = TypeOfKind(stored[1].kind)
    /\ stored[1].kind \in {"chat", "failure", "report"} => IsSuffix(stored[1].text, text)
    /\ \A i, j \in DOMAIN text : text[i] = text[j] => i = j

\* Every response is closed: opening gives up, and the run it reads ends.
EveryResponseCloses == phase = "opening" ~> phase = "closed"

\* "fallback/intent nodes don't stream tokens -- on_chain_end must backfill a token
\* event from the final output so the client still gets a response": a response
\* that is done has carried the answer in the thread, whichever node it is of.
ClientGetsTheAnswer ==
  outcome = "done" /\ stored # <<>> => IsSuffix(stored[1].text, text)

=============================================================================
