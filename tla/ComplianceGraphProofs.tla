------------------------ MODULE ComplianceGraphProofs ------------------------
(***************************************************************************)
(* Proofs about module ComplianceGraph, for any messages, any index and    *)
(* any limits of attempts, retries and runs.                               *)
(*                                                                         *)
(* The module has no specification of its own, since it is the modules     *)
(* around it that ask for runs; what is proved is that each step of the    *)
(* graph keeps GraphInv.  GraphInv says that while a run executes, the     *)
(* last message is its question, its objective is of that question, what   *)
(* is in retrieved_docs was found for it, and retrieval_attempts counts    *)
(* its own searches: what the run before it left in the state is gone      *)
(* when it matters.                                                        *)
(***************************************************************************)
EXTENDS ComplianceGraph, SequenceTheorems, TLAPS

QuestionLast ==
  next # "end" => messages # <<>> /\ Last(messages).kind = "question"

ObjectiveOfQuestion ==
  next \in {"retrieve", "rewrite_objective", "generate", "fallback"} =>
    objective # NoObjective /\ objective.query = Last(messages).query

DocsOfObjective ==
  /\ next \in {"retrieve", "rewrite_objective", "fallback"} => retrieved_docs = {}
  /\ next = "generate" => /\ retrieved_docs # {}
                          /\ \A d \in retrieved_docs : d.for.query = objective.query

SearchesCounted ==
  /\ next = "intent" => searched = 0
  /\ next \in {"retrieve", "rewrite_objective"} =>
       searched = retrieval_attempts /\ searched < MaxAttempts

CallsCounted ==
  /\ next # "generate" => call = 0
  /\ call = 0 => draft = <<>>

GraphInv ==
  /\ TypeOK
  /\ QuestionLast
  /\ ObjectiveOfQuestion
  /\ DocsOfObjective
  /\ SearchesCounted
  /\ CallsCounted
  /\ ReportsGrounded
  /\ AnswersFollowTheirQuestion
  /\ GivesUpAfterAllAttempts

-----------------------------------------------------------------------------
(* Lemmas *)

LEMMA Values ==
  /\ Canned \in Seq(Piece)
  /\ \A q \in Query, n \in Nat :
       [query |-> q, round |-> n] \in Objective \ {NoObjective}
  /\ \A o \in Objective \ {NoObjective} :
       /\ o.query \in Query /\ o.round \in Nat
       /\ [o EXCEPT !.round = o.round + 1] \in Objective \ {NoObjective}
       /\ [o EXCEPT !.round = o.round + 1].query = o.query
<1>1. Canned \in Seq(Piece)
  <2>1. <<0, 0>> \in Piece
    BY DEF Piece
  <2> QED
    BY <2>1 DEF Canned
<1>2. ASSUME NEW q \in Query, NEW n \in Nat
      PROVE  [query |-> q, round |-> n] \in Objective \ {NoObjective}
  <2>1. q # NoQuery
    BY GraphAssumption
  <2>2. [query |-> q, round |-> n] # NoObjective
    BY <2>1 DEF NoObjective
  <2>3. [query |-> q, round |-> n] \in [query : Query, round : Nat]
    OBVIOUS
  <2> QED
    BY <2>2, <2>3 DEF Objective
<1>3. ASSUME NEW o \in Objective \ {NoObjective}
      PROVE  /\ o.query \in Query /\ o.round \in Nat
             /\ [o EXCEPT !.round = o.round + 1] \in Objective \ {NoObjective}
             /\ [o EXCEPT !.round = o.round + 1].query = o.query
  <2>1. PICK q \in Query, n \in Nat : o = [query |-> q, round |-> n]
    BY DEF Objective
  <2>2. o.query = q /\ o.round = n
    BY <2>1
  <2>3. [o EXCEPT !.round = n + 1] = [query |-> q, round |-> n + 1]
    BY <2>1
  <2>4. n + 1 \in Nat
    OBVIOUS
  <2> QED
    BY <1>2, <2>2, <2>3, <2>4
<1> QED
  BY <1>1, <1>2, <1>3

\* What a new message leaves of the conversation.
LEMMA Appended ==
  ASSUME messages \in Seq(Message), NEW m \in Message, messages' = Append(messages, m)
  PROVE  /\ messages' \in Seq(Message)
         /\ Len(messages) \in Nat
         /\ messages' # <<>> /\ Last(messages') = m
         /\ DOMAIN messages' = 1..(Len(messages) + 1)
         /\ DOMAIN messages = 1..Len(messages)
         /\ \A i \in 1..Len(messages) : messages'[i] = messages[i]
         /\ messages'[Len(messages) + 1] = m
<1>1. /\ messages' \in Seq(Message) /\ messages' # <<>>
      /\ Len(messages') = Len(messages) + 1
      /\ \A i \in 1..Len(messages) : messages'[i] = messages[i]
      /\ messages'[Len(messages) + 1] = m
  BY AppendProperties
<1>2. Len(messages) \in Nat /\ DOMAIN messages = 1..Len(messages)
  BY LenProperties
<1>3. DOMAIN messages' = 1..Len(messages')
  BY <1>1, LenProperties
<1> QED
  BY <1>1, <1>2, <1>3 DEF Last

\* An answer that follows its question.
LEMMA Answered ==
  ASSUME GraphInv, next # "end",
         NEW m \in Message, messages' = Append(messages, m),
         m.kind # "question", m.query = Last(messages).query
  PROVE  AnswersFollowTheirQuestion'
<1> DEFINE n == Len(messages)
<1>1. /\ n \in Nat /\ n >= 1
      /\ messages[n].kind = "question" /\ m.query = messages[n].query
  BY LenProperties, EmptySeq DEF GraphInv, TypeOK, QuestionLast, Last
<1>2. /\ DOMAIN messages' = 1..(n + 1) /\ DOMAIN messages = 1..n
      /\ \A i \in 1..n : messages'[i] = messages[i]
      /\ messages'[n + 1] = m
  BY Appended DEF GraphInv, TypeOK
<1> SUFFICES ASSUME NEW i \in 1..(n + 1), messages'[i].kind # "question"
             PROVE  /\ i > 1
                    /\ messages'[i - 1].kind = "question"
                    /\ messages'[i - 1].query = messages'[i].query
  BY <1>2 DEF AnswersFollowTheirQuestion
<1> HIDE DEF n
<1>3. CASE i = n + 1
  <2>1. i > 1 /\ i - 1 = n /\ n \in 1..n
    BY <1>1, <1>3
  <2> QED
    BY <2>1, <1>1, <1>2, <1>3
<1>4. CASE i # n + 1
  <2>1. i \in 1..n
    BY <1>1, <1>4
  <2>2. i > 1 /\ messages[i - 1].kind = "question" /\ messages[i - 1].query = messages[i].query
    BY <2>1, <1>2 DEF GraphInv, AnswersFollowTheirQuestion
  <2>3. i - 1 \in 1..n
    BY <2>1, <2>2, <1>1
  <2> QED
    BY <2>1, <2>2, <2>3, <1>2
<1> QED
  BY <1>3, <1>4

\* A message that is no report, or is grounded.
LEMMA Grounded ==
  ASSUME GraphInv, NEW m \in Message, messages' = Append(messages, m),
         m.kind \in Report =>
           /\ m.kind # "insufficient"
           /\ m.cites # {}
           /\ \A d \in m.cites : d.for.query = m.query
  PROVE  ReportsGrounded'
<1> DEFINE n == Len(messages)
<1>1. n \in Nat
  BY LenProperties DEF GraphInv, TypeOK
<1>2. /\ DOMAIN messages' = 1..(n + 1) /\ DOMAIN messages = 1..n
      /\ \A i \in 1..n : messages'[i] = messages[i]
      /\ messages'[n + 1] = m
  BY Appended DEF GraphInv, TypeOK
<1> HIDE DEF n
<1> SUFFICES ASSUME NEW i \in 1..(n + 1), messages'[i].kind \in Report
             PROVE  /\ messages'[i].kind # "insufficient"
                    /\ messages'[i].cites # {}
                    /\ \A d \in messages'[i].cites : d.for.query = messages'[i].query
  BY <1>2 DEF ReportsGrounded
<1>3. CASE i = n + 1
  BY <1>2, <1>3
<1>4. CASE i # n + 1
  <2>1. i \in 1..n
    BY <1>1, <1>4
  <2> QED
    BY <2>1, <1>2 DEF GraphInv, ReportsGrounded
<1> QED
  BY <1>3, <1>4

\* The question a run answers is its last one.
LEMMA QuestionOfRun ==
  ASSUME GraphInv, next # "end"
  PROVE  LastUserMessage = Last(messages).query /\ LastUserMessage \in Query
<1> DEFINE n == Len(messages)
           IsLast(i) == /\ messages[i].kind = "question"
                        /\ \A j \in DOMAIN messages : messages[j].kind = "question" => j <= i
<1>1. /\ n \in Nat /\ n >= 1 /\ DOMAIN messages = 1..n
      /\ messages[n].kind = "question" /\ messages[n] \in Message
  BY LenProperties, EmptySeq, ElementOfSeq DEF GraphInv, TypeOK, QuestionLast, Last
<1>2. IsLast(n) /\ n \in DOMAIN messages
  BY <1>1
<1>3. \A i \in DOMAIN messages : IsLast(i) => i = n
  BY <1>1
<1>4. (CHOOSE i \in DOMAIN messages : IsLast(i)) = n
  <2> HIDE DEF IsLast
  <2> QED
    BY <1>2, <1>3
<1>5. LastUserMessage = messages[n].query
  BY <1>4 DEF LastUserMessage
<1> QED
  BY <1>1, <1>5 DEF Last, Message

\* The events of a node.
LEMMA EventsOfNode ==
  ASSUME NEW n \in Node
  PROVE  /\ Started(n) \in Seq(Event)
         /\ \A c, k \in Nat : Token(n, <<c, k>>) \in Seq(Event)
         /\ \A words \in Seq(Piece), o \in BOOLEAN : Ended(n, words, o) \in Seq(Event)
<1>1. ASSUME NEW kind \in {"on_chain_start", "on_chat_model_stream", "on_chain_end"},
             NEW words \in Seq(Piece), NEW o \in BOOLEAN
      PROVE  Boundary(kind, n, words, o) \in Event /\ Nested(kind, n, words) \in Event
  BY DEF Boundary, Nested, Event
<1>2. ASSUME NEW e \in Event, NEW f \in Event PROVE <<e, f>> \in Seq(Event) /\ <<e>> \in Seq(Event)
  OBVIOUS
<1>3. <<>> \in Seq(Piece)
  OBVIOUS
<1>4. Started(n) \in Seq(Event)
  BY <1>1, <1>2, <1>3 DEF Started
<1>5. ASSUME NEW c \in Nat, NEW k \in Nat PROVE Token(n, <<c, k>>) \in Seq(Event)
  <2>1. << <<c, k>> >> \in Seq(Piece)
    <3>1. <<c, k>> \in Piece
      BY DEF Piece
    <3> QED
      BY <3>1
  <2> QED
    BY <1>1, <1>2, <2>1 DEF Token
<1>6. ASSUME NEW words \in Seq(Piece), NEW o \in BOOLEAN PROVE Ended(n, words, o) \in Seq(Event)
  BY <1>1, <1>2, <1>3 DEF Ended
<1> QED
  BY <1>4, <1>5, <1>6

LEMMA Emitted ==
  ASSUME TypeOK, NEW evs \in Seq(Event), Emit(evs)
  PROVE  events' \in Seq(Event)
<1>1. events \o evs \in Seq(Event)
  BY ConcatProperties DEF TypeOK
<1> QED
  BY <1>1 DEF Emit, TypeOK

-----------------------------------------------------------------------------
(* Steps around the thread *)

\* Nothing is lost when runs are queued, and when events are read or dropped.
LEMMA ThreadUntouched ==
  ASSUME GraphInv, UNCHANGED <<agentState, next, writing, searched>>,
         events' \in Seq(Event), heard' \in BOOLEAN, runs' \in 0..MaxRuns,
         pending' \in Seq([query : Query, heard : BOOLEAN])
  PROVE  GraphInv'
<1>1. UNCHANGED <<messages, objective, retrieved_docs, is_relevant, retrieval_attempts,
                  next, call, draft, searched>>
  BY DEF agentState, writing
<1>2. TypeOK'
  BY <1>1 DEF GraphInv, TypeOK
<1> QED
  BY <1>1, <1>2 DEF GraphInv, QuestionLast, ObjectiveOfQuestion, DocsOfObjective, SearchesCounted,
     CallsCounted, ReportsGrounded, AnswersFollowTheirQuestion, GivesUpAfterAllAttempts

LEMMA EnqueueKeepsInv ==
  ASSUME GraphInv, NEW q \in Query, NEW b \in BOOLEAN, Enqueue(q, b),
         UNCHANGED <<agentState, next, writing, heard, events, searched>>
  PROVE  GraphInv'
<1>1. pending' \in Seq([query : Query, heard : BOOLEAN])
  <2>1. [query |-> q, heard |-> b] \in [query : Query, heard : BOOLEAN]
    OBVIOUS
  <2> QED
    BY <2>1, AppendProperties DEF Enqueue, GraphInv, TypeOK
<1>2. runs' \in 0..MaxRuns
  BY GraphAssumption DEF Enqueue, GraphInv, TypeOK
<1>3. heard' \in BOOLEAN /\ events' \in Seq(Event)
  BY DEF GraphInv, TypeOK
<1> QED
  BY <1>1, <1>2, <1>3, ThreadUntouched

LEMMA BeginRunKeepsInv ==
  ASSUME GraphInv, BeginRun
  PROVE  GraphInv'
<1> DEFINE q == Head(pending).query
           m == [kind |-> "question", query |-> q, text |-> Canned, cites |-> {}]
<1>1. /\ next = "end" /\ next' = "intent" /\ searched' = 0
      /\ heard' = Head(pending).heard /\ pending' = Tail(pending)
      /\ messages' = Append(messages, m)
      /\ UNCHANGED <<objective, retrieved_docs, is_relevant, retrieval_attempts,
                     call, draft, events, runs>>
  BY DEF BeginRun, Say, writing
<1>2. /\ Head(pending) \in [query : Query, heard : BOOLEAN]
      /\ Tail(pending) \in Seq([query : Query, heard : BOOLEAN])
  BY HeadTailProperties DEF BeginRun, GraphInv, TypeOK
<1>3. m \in Message /\ m.kind = "question"
  BY <1>2, Values DEF Message, Kind
<1> HIDE DEF m
<1>4. TypeOK'
  <2>1. messages' \in Seq(Message)
    BY <1>1, <1>3, Appended DEF GraphInv, TypeOK
  <2> QED
    BY <1>1, <1>2, <2>1 DEF GraphInv, TypeOK, Node
<1>5. QuestionLast'
  BY <1>1, <1>3, Appended DEF GraphInv, TypeOK, QuestionLast
<1>6. ObjectiveOfQuestion' /\ DocsOfObjective' /\ SearchesCounted' /\ CallsCounted'
  BY <1>1 DEF GraphInv, ObjectiveOfQuestion, DocsOfObjective, SearchesCounted, CallsCounted
<1>7. ReportsGrounded'
  BY <1>1, <1>3, Grounded DEF Report
<1>8. AnswersFollowTheirQuestion'
  <2> DEFINE n == Len(messages)
  <2>1. /\ n \in Nat /\ DOMAIN messages' = 1..(n + 1) /\ DOMAIN messages = 1..n
        /\ \A i \in 1..n : messages'[i] = messages[i]
        /\ messages'[n + 1] = m
    BY <1>1, <1>3, Appended DEF GraphInv, TypeOK
  <2> HIDE DEF n
  <2> SUFFICES ASSUME NEW i \in 1..(n + 1), messages'[i].kind # "question"
               PROVE  /\ i > 1
                      /\ messages'[i - 1].kind = "question"
                      /\ messages'[i - 1].query = messages'[i].query
    BY <2>1 DEF AnswersFollowTheirQuestion
  <2>2. i \in 1..n
    BY <1>3, <2>1
  <2>3. i > 1 /\ messages[i - 1].kind = "question" /\ messages[i - 1].query = messages[i].query
    BY <2>1, <2>2 DEF GraphInv, AnswersFollowTheirQuestion
  <2>4. i - 1 \in 1..n
    BY <2>1, <2>2, <2>3
  <2> QED
    BY <2>1, <2>2, <2>3, <2>4
<1>9. GivesUpAfterAllAttempts'
  BY <1>1, GraphAssumption DEF GivesUpAfterAllAttempts
<1> QED
  BY <1>4, <1>5, <1>6, <1>7, <1>8, <1>9 DEF GraphInv

\* A run that dies leaves the state of its last node.
LEMMA InterruptKeepsInv ==
  ASSUME GraphInv, Interrupt
  PROVE  GraphInv'
<1>1. /\ next' = "end" /\ call' = 0 /\ draft' = <<>>
      /\ UNCHANGED <<messages, objective, retrieved_docs, is_relevant, retrieval_attempts,
                     pending, heard, runs, events, searched>>
  BY DEF Interrupt, agentState, queue
<1>2. TypeOK'
  BY <1>1, GraphAssumption DEF GraphInv, TypeOK
<1> QED
  BY <1>1, <1>2 DEF GraphInv, QuestionLast, ObjectiveOfQuestion, DocsOfObjective, SearchesCounted,
     CallsCounted, ReportsGrounded, AnswersFollowTheirQuestion, GivesUpAfterAllAttempts

-----------------------------------------------------------------------------
(* The nodes *)

LEMMA IntentNodeKeepsInv ==
  ASSUME GraphInv, IntentNode
  PROVE  GraphInv'
<1> DEFINE q == LastUserMessage
           m == [kind |-> "chat", query |-> q, text |-> Canned, cites |-> {}]
<1>1. /\ next = "intent" /\ retrieved_docs' = {} /\ is_relevant' = "none"
      /\ retrieval_attempts' = 0 /\ next' = ShouldRetrieve(objective')
      /\ UNCHANGED <<call, draft, pending, heard, runs, searched>>
  BY DEF IntentNode, ResetDocs, writing, queue
<1>2. q = Last(messages).query /\ q \in Query
  BY <1>1, QuestionOfRun
<1>3. m \in Message /\ m.kind = "chat" /\ m.query = q
  BY <1>2, Values DEF Message, Kind
<1>4. events' \in Seq(Event)
  <2>1. "intent" \in Node /\ <<>> \in Seq(Piece) /\ Canned \in Seq(Piece)
    BY Values DEF Node
  <2>2. /\ Started("intent") \in Seq(Event) /\ Token("intent", <<1, 1>>) \in Seq(Event)
        /\ Ended("intent", <<>>, TRUE) \in Seq(Event)
        /\ Ended("intent", Canned, FALSE) \in Seq(Event)
    BY <2>1, EventsOfNode
  <2>3. /\ Started("intent") \o Token("intent", <<1, 1>>) \o Ended("intent", <<>>, TRUE) \in Seq(Event)
        /\ Started("intent") \o Token("intent", <<1, 1>>) \o Ended("intent", Canned, FALSE) \in Seq(Event)
    BY <2>2, ConcatProperties
  <2> QED
    BY <2>3, Emitted DEF IntentNode, GraphInv
<1>5. /\ SearchesCounted' /\ CallsCounted' /\ DocsOfObjective' /\ GivesUpAfterAllAttempts'
  BY <1>1, GraphAssumption DEF GraphInv, SearchesCounted, CallsCounted, DocsOfObjective,
     GivesUpAfterAllAttempts, ShouldRetrieve
<1>6. CASE objective' = [query |-> q, round |-> 0] /\ UNCHANGED messages
  <2>1. objective' \in Objective \ {NoObjective} /\ objective'.query = q
    BY <1>2, <1>6, Values
  <2>2. next' = "retrieve"
    BY <1>1, <2>1 DEF ShouldRetrieve
  <2>3. TypeOK'
    BY <1>1, <1>4, <1>6, <2>1, <2>2 DEF GraphInv, TypeOK, Node
  <2>4. QuestionLast' /\ ObjectiveOfQuestion'
    BY <1>1, <1>2, <1>6, <2>1 DEF GraphInv, QuestionLast, ObjectiveOfQuestion
  <2>5. ReportsGrounded' /\ AnswersFollowTheirQuestion'
    BY <1>6 DEF GraphInv, ReportsGrounded, AnswersFollowTheirQuestion
  <2> QED
    BY <1>5, <2>3, <2>4, <2>5 DEF GraphInv
<1>7. CASE objective' = NoObjective /\ Say("chat", q, Canned, {})
  <2>1. messages' = Append(messages, m) /\ next' = "end"
    BY <1>1, <1>7 DEF Say, ShouldRetrieve
  <2> HIDE DEF m, q
  <2>2. messages' \in Seq(Message)
    BY <1>3, <2>1, Appended DEF GraphInv, TypeOK
  <2>3. TypeOK'
    BY <1>1, <1>4, <1>7, <2>1, <2>2 DEF GraphInv, TypeOK, Objective
  <2>4. QuestionLast' /\ ObjectiveOfQuestion'
    BY <2>1 DEF QuestionLast, ObjectiveOfQuestion
  <2>5. ReportsGrounded'
    BY <1>3, <2>1, Grounded DEF Report
  <2>6. AnswersFollowTheirQuestion'
    BY <1>1, <1>2, <1>3, <2>1, Answered
  <2> QED
    BY <1>5, <2>3, <2>4, <2>5, <2>6 DEF GraphInv
<1> QED
  BY <1>6, <1>7 DEF IntentNode

LEMMA RetrieverNodeKeepsInv ==
  ASSUME GraphInv, RetrieverNode
  PROVE  GraphInv'
<1>1. /\ next = "retrieve"
      /\ retrieval_attempts' = retrieval_attempts + 1
      /\ next' = CheckRelevance(is_relevant', retrieval_attempts')
      /\ UNCHANGED <<messages, objective, call, draft, pending, heard, runs>>
  BY DEF RetrieverNode, writing, queue
<1>2. /\ objective \in Objective \ {NoObjective} /\ retrieved_docs = {}
      /\ searched \in Nat /\ retrieval_attempts \in Nat /\ MaxAttempts \in Nat
      /\ searched = retrieval_attempts /\ searched < MaxAttempts
      /\ objective.query = Last(messages).query
  BY <1>1, GraphAssumption DEF GraphInv, TypeOK, ObjectiveOfQuestion, DocsOfObjective, SearchesCounted
<1>3. searched' = searched + 1
  BY <1>2 DEF RetrieverNode
<1>4. \/ is_relevant' = "no" /\ retrieved_docs' = {}
      \/ /\ is_relevant' = "yes"
         /\ retrieved_docs' # {}
         /\ \A d \in retrieved_docs' : d \in Doc /\ d.for.query = objective.query
  <2>1. CASE is_relevant' = "no" /\ AppendDocs({})
    BY <1>2, <2>1 DEF AppendDocs
  <2>2. CASE /\ is_relevant' = "yes"
             /\ \E hits \in (SUBSET Article) \ {{}} :
                  AppendDocs({[article |-> a, for |-> objective] : a \in hits})
    <3>1. PICK hits \in (SUBSET Article) \ {{}} :
            retrieved_docs' = {[article |-> a, for |-> objective] : a \in hits}
      BY <1>2, <2>2 DEF AppendDocs
    <3>2. \A d \in retrieved_docs' : d \in Doc /\ d.for = objective
      BY <1>2, <3>1 DEF Doc
    <3>3. retrieved_docs' # {}
      <4>1. PICK a \in hits : TRUE
        OBVIOUS
      <4> QED
        BY <3>1, <4>1
    <3> QED
      BY <2>2, <3>2, <3>3
  <2> QED
    BY <2>1, <2>2 DEF RetrieverNode
<1>5. \/ next' = "generate" /\ is_relevant' = "yes"
      \/ next' = "fallback" /\ searched' = MaxAttempts /\ is_relevant' = "no"
      \/ next' = "rewrite_objective" /\ searched' < MaxAttempts /\ is_relevant' = "no"
  <2>1. CASE is_relevant' = "yes"
    BY <1>1, <2>1 DEF CheckRelevance
  <2>2. CASE is_relevant' = "no" /\ retrieval_attempts' >= MaxAttempts
    BY <1>1, <1>2, <1>3, <2>2 DEF CheckRelevance
  <2>3. CASE is_relevant' = "no" /\ ~ retrieval_attempts' >= MaxAttempts
    BY <1>1, <1>2, <1>3, <2>3 DEF CheckRelevance
  <2> QED
    BY <1>4, <2>1, <2>2, <2>3
<1>6. events' \in Seq(Event)
  <2>1. Started("retrieve") \o Ended("retrieve", <<>>, FALSE) \in Seq(Event)
    <3>1. "retrieve" \in Node /\ <<>> \in Seq(Piece)
      BY DEF Node
    <3>2. Started("retrieve") \in Seq(Event) /\ Ended("retrieve", <<>>, FALSE) \in Seq(Event)
      BY <3>1, EventsOfNode
    <3> QED
      BY <3>2, ConcatProperties
  <2> QED
    BY <2>1, Emitted DEF RetrieverNode, GraphInv
<1>7. TypeOK'
  BY <1>1, <1>2, <1>3, <1>4, <1>5, <1>6 DEF GraphInv, TypeOK, Node
<1>8. QuestionLast' /\ ObjectiveOfQuestion' /\ CallsCounted'
  BY <1>1, <1>2 DEF GraphInv, QuestionLast, ObjectiveOfQuestion, CallsCounted
<1>9. DocsOfObjective'
  BY <1>1, <1>4, <1>5 DEF DocsOfObjective
<1>10. SearchesCounted' /\ GivesUpAfterAllAttempts'
  BY <1>1, <1>2, <1>3, <1>5 DEF SearchesCounted, GivesUpAfterAllAttempts
<1>11. ReportsGrounded' /\ AnswersFollowTheirQuestion'
  BY <1>1 DEF GraphInv, ReportsGrounded, AnswersFollowTheirQuestion
<1> QED
  BY <1>7, <1>8, <1>9, <1>10, <1>11 DEF GraphInv

LEMMA RewriteObjectiveNodeKeepsInv ==
  ASSUME GraphInv, RewriteObjectiveNode
  PROVE  GraphInv'
<1>1. /\ next = "rewrite_objective" /\ next' = "retrieve" /\ is_relevant' = "none"
      /\ objective' = [objective EXCEPT !.round = @ + 1]
      /\ UNCHANGED <<messages, retrieved_docs, retrieval_attempts, call, draft,
                     pending, heard, runs, searched>>
  BY DEF RewriteObjectiveNode, writing, queue
<1>2. objective \in Objective \ {NoObjective}
  BY <1>1 DEF GraphInv, TypeOK, ObjectiveOfQuestion
<1>3. objective' \in Objective \ {NoObjective} /\ objective'.query = objective.query
  <2>1. objective' = [objective EXCEPT !.round = objective.round + 1]
    BY <1>1
  <2> QED
    BY <1>2, <2>1, Values
<1>4. events' \in Seq(Event)
  <2>1. "rewrite_objective" \in Node /\ <<>> \in Seq(Piece)
    BY DEF Node
  <2>2. /\ Started("rewrite_objective") \in Seq(Event)
        /\ Token("rewrite_objective", <<1, 1>>) \in Seq(Event)
        /\ Ended("rewrite_objective", <<>>, TRUE) \in Seq(Event)
    BY <2>1, EventsOfNode
  <2>3. Started("rewrite_objective") \o Token("rewrite_objective", <<1, 1>>)
          \o Ended("rewrite_objective", <<>>, TRUE) \in Seq(Event)
    BY <2>2, ConcatProperties
  <2> QED
    BY <2>3, Emitted DEF RewriteObjectiveNode, GraphInv
<1>5. TypeOK'
  BY <1>1, <1>3, <1>4 DEF GraphInv, TypeOK, Node
<1> QED
  BY <1>1, <1>3, <1>5 DEF GraphInv, QuestionLast, ObjectiveOfQuestion, DocsOfObjective,
     SearchesCounted, CallsCounted, ReportsGrounded, AnswersFollowTheirQuestion,
     GivesUpAfterAllAttempts

LEMMA GeneratorBeginsKeepsInv ==
  ASSUME GraphInv, GeneratorBegins
  PROVE  GraphInv'
<1>1. /\ next = "generate" /\ call' = 1
      /\ UNCHANGED <<messages, objective, retrieved_docs, is_relevant, retrieval_attempts, next,
                     draft, pending, heard, runs, searched>>
  BY DEF GeneratorBegins, agentState, queue
<1>2. events' \in Seq(Event)
  <2>1. Started("generate") \in Seq(Event)
    BY EventsOfNode DEF Node
  <2> QED
    BY <2>1, Emitted DEF GeneratorBegins, GraphInv
<1>3. TypeOK'
  BY <1>1, <1>2, GraphAssumption DEF GraphInv, TypeOK
<1> QED
  BY <1>1, <1>3 DEF GraphInv, QuestionLast, ObjectiveOfQuestion, DocsOfObjective, SearchesCounted,
     CallsCounted, ReportsGrounded, AnswersFollowTheirQuestion, GivesUpAfterAllAttempts

LEMMA GeneratorStreamsKeepsInv ==
  ASSUME GraphInv, GeneratorStreams
  PROVE  GraphInv'
<1> DEFINE piece == <<call, Len(draft) + 1>>
<1>1. /\ next = "generate" /\ call > 0 /\ draft' = Append(draft, piece)
      /\ UNCHANGED <<messages, objective, retrieved_docs, is_relevant, retrieval_attempts, next,
                     call, pending, heard, runs, searched>>
  BY DEF GeneratorStreams, agentState, queue
<1>2. call \in Nat /\ Len(draft) + 1 \in Nat /\ piece \in Piece
  BY LenProperties DEF GraphInv, TypeOK, Piece
<1>3. events' \in Seq(Event)
  <2>1. Token("generate", piece) \in Seq(Event)
    BY <1>2, EventsOfNode DEF Node
  <2> QED
    BY <2>1, Emitted DEF GeneratorStreams, GraphInv
<1> HIDE DEF piece
<1>4. draft' \in Seq(Piece)
  BY <1>1, <1>2, AppendProperties DEF GraphInv, TypeOK
<1>5. TypeOK'
  BY <1>1, <1>3, <1>4 DEF GraphInv, TypeOK
<1>6. CallsCounted'
  BY <1>1 DEF GraphInv, CallsCounted
<1> QED
  BY <1>1, <1>5, <1>6 DEF GraphInv, QuestionLast, ObjectiveOfQuestion, DocsOfObjective, SearchesCounted,
     ReportsGrounded, AnswersFollowTheirQuestion, GivesUpAfterAllAttempts

LEMMA GeneratorRetriesKeepsInv ==
  ASSUME GraphInv, GeneratorRetries
  PROVE  GraphInv'
<1>1. /\ next = "generate" /\ call \in 1..(LLMAttempts - 1) /\ call' = call + 1 /\ draft' = <<>>
      /\ UNCHANGED <<messages, objective, retrieved_docs, is_relevant, retrieval_attempts, next,
                     pending, heard, runs, events, searched>>
  BY DEF GeneratorRetries, agentState, queue
<1>2. call' \in 0..LLMAttempts
  BY <1>1, GraphAssumption
<1>3. TypeOK'
  BY <1>1, <1>2 DEF GraphInv, TypeOK
<1> QED
  BY <1>1, <1>3 DEF GraphInv, QuestionLast, ObjectiveOfQuestion, DocsOfObjective, SearchesCounted,
     CallsCounted, ReportsGrounded, AnswersFollowTheirQuestion, GivesUpAfterAllAttempts

\* A node that says something about the objective and ends the run.
LEMMA LastNodeKeepsInv ==
  ASSUME GraphInv, next \in {"generate", "fallback"}, next' = "end",
         retrieved_docs' = {}, call' = 0, draft' = <<>>, events' \in Seq(Event),
         UNCHANGED <<objective, is_relevant, retrieval_attempts, pending, heard, runs, searched>>,
         NEW kind \in Kind \ {"question"}, NEW words \in Seq(Piece), NEW docs \in SUBSET Doc,
         Say(kind, objective.query, words, docs),
         kind \in Report =>
           kind # "insufficient" /\ docs # {} /\ \A d \in docs : d.for.query = objective.query
  PROVE  GraphInv'
<1> DEFINE m == [kind |-> kind, query |-> objective.query, text |-> words, cites |-> docs]
<1>1. objective \in Objective \ {NoObjective} /\ objective.query = Last(messages).query
  BY DEF GraphInv, TypeOK, ObjectiveOfQuestion
<1>2. objective.query \in Query
  BY <1>1, Values
<1>3. /\ m \in Message /\ messages' = Append(messages, m)
      /\ m.kind = kind /\ m.query = objective.query /\ m.cites = docs
  BY <1>2 DEF Message, Say
<1> HIDE DEF m
<1>4. TypeOK'
  <2>1. messages' \in Seq(Message)
    BY <1>3, Appended DEF GraphInv, TypeOK
  <2> QED
    BY <2>1, GraphAssumption DEF GraphInv, TypeOK
<1>5. ReportsGrounded'
  BY <1>3, Grounded
<1>6. AnswersFollowTheirQuestion'
  BY <1>1, <1>3, Answered
<1> QED
  BY <1>4, <1>5, <1>6 DEF GraphInv, QuestionLast, ObjectiveOfQuestion, DocsOfObjective,
     SearchesCounted, CallsCounted, GivesUpAfterAllAttempts

LEMMA GeneratorNodeKeepsInv ==
  ASSUME GraphInv, GeneratorNode
  PROVE  GraphInv'
<1>1. /\ next = "generate" /\ next' = "end" /\ retrieved_docs' = {} /\ call' = 0 /\ draft' = <<>>
      /\ UNCHANGED <<objective, is_relevant, retrieval_attempts, pending, heard, runs, searched>>
  BY DEF GeneratorNode, ResetDocs, queue
<1>2. /\ retrieved_docs # {} /\ retrieved_docs \in SUBSET Doc
      /\ \A d \in retrieved_docs : d.for.query = objective.query
      /\ draft \in Seq(Piece) /\ Canned \in Seq(Piece)
  BY <1>1, Values DEF GraphInv, TypeOK, DocsOfObjective
<1>3. events' \in Seq(Event)
  <2>1. /\ Ended("generate", draft, FALSE) \in Seq(Event)
        /\ Ended("generate", Canned, FALSE) \in Seq(Event)
    BY <1>2, EventsOfNode DEF Node
  <2> QED
    BY <2>1, Emitted DEF GeneratorNode, GraphInv
<1>4. PICK kind \in {"report", "write-up failed"}, words \in {draft, Canned} :
        Say(kind, objective.query, words, retrieved_docs)
  BY <1>2 DEF GeneratorNode
<1> QED
  BY <1>1, <1>2, <1>3, <1>4, LastNodeKeepsInv DEF Kind, Report

LEMMA FallbackNodeKeepsInv ==
  ASSUME GraphInv, FallbackNode
  PROVE  GraphInv'
<1>1. /\ next = "fallback" /\ next' = "end" /\ retrieved_docs' = {}
      /\ Say("failure", objective.query, Canned, {})
      /\ UNCHANGED <<objective, is_relevant, retrieval_attempts, call, draft,
                     pending, heard, runs, searched>>
  BY DEF FallbackNode, ResetDocs, writing, queue
<1>2. call' = 0 /\ draft' = <<>>
  BY <1>1 DEF GraphInv, CallsCounted
<1>3. Canned \in Seq(Piece) /\ {} \in SUBSET Doc
  BY Values
<1>4. events' \in Seq(Event)
  <2>1. Started("fallback") \in Seq(Event) /\ Ended("fallback", Canned, FALSE) \in Seq(Event)
    BY <1>3, EventsOfNode DEF Node
  <2>2. Started("fallback") \o Ended("fallback", Canned, FALSE) \in Seq(Event)
    BY <2>1, ConcatProperties
  <2> QED
    BY <2>2, Emitted DEF FallbackNode, GraphInv
<1>5. "failure" \in Kind \ {"question"} /\ "failure" \notin Report
  BY DEF Kind, Report
<1> QED
  BY <1>1, <1>2, <1>3, <1>4, <1>5, LastNodeKeepsInv

-----------------------------------------------------------------------------
(* Theorems *)

LEMMA InitEstablishesInv == Init => GraphInv
<1> SUFFICES ASSUME Init PROVE GraphInv
  OBVIOUS
<1>1. TypeOK
  <2>1. /\ <<>> \in Seq(Message) /\ <<>> \in Seq(Piece) /\ <<>> \in Seq(Event)
        /\ <<>> \in Seq([query : Query, heard : BOOLEAN])
    OBVIOUS
  <2>2. 0 \in Nat /\ 0 \in 0..LLMAttempts /\ 0 \in 0..MaxRuns
    BY GraphAssumption
  <2> QED
    BY <2>1, <2>2, Zenon DEF Init, TypeOK, Objective
<1>2. DOMAIN messages = {}
  BY DEF Init
<1> QED
  BY <1>1, <1>2, GraphAssumption DEF Init, GraphInv, QuestionLast, ObjectiveOfQuestion, DocsOfObjective,
     SearchesCounted, CallsCounted, ReportsGrounded, AnswersFollowTheirQuestion, GivesUpAfterAllAttempts

\* Every step of the graph, the start of a run and its death among them, keeps
\* the thread in order: reports grounded, every answer after its question, and
\* the searches of a run counted from its own start.
THEOREM GraphStepsKeepInv == GraphInv /\ (Execute \/ Interrupt) => GraphInv'
  BY BeginRunKeepsInv, InterruptKeepsInv, IntentNodeKeepsInv, RetrieverNodeKeepsInv,
     RewriteObjectiveNodeKeepsInv, GeneratorBeginsKeepsInv, GeneratorStreamsKeepsInv,
     GeneratorRetriesKeepsInv, GeneratorNodeKeepsInv, FallbackNodeKeepsInv
     DEF Execute, ExecuteNode

=============================================================================
