-------------------------- MODULE AlignStreamProofs --------------------------
(***************************************************************************)
(* Proofs about module AlignStream: the invariants of the thread and of    *)
(* the response hold in every state, and the response implements module    *)
(* StreamProtocol, for any messages, any index and any limits.             *)
(*                                                                         *)
(* The graph runs ahead of the reader, so what the response has sent says  *)
(* little about the run.  The invariant looks at what it will have sent    *)
(* when the events on their way are read: Handle is the reader as a        *)
(* function of an event and its own state, Reaches(evs, s, t) says that it *)
(* gets from s to t through evs in steps the protocol allows, and StreamInv*)
(* says that with the events on their way it gets to a state that tells    *)
(* what the run has done so far: nothing before the generate node, a text  *)
(* that ends with its draft in that node, and at the end the answer that   *)
(* is in the thread.  A step of a node appends events and moves that       *)
(* state; a step of the reader takes one event and leaves it alone.        *)
(***************************************************************************)
EXTENDS AlignStream, ComplianceGraphProofs

(* The reader as a function *)

ReaderState == [started : BOOLEAN, streamed : BOOLEAN,
                type : {"none", "chat", "report", "failure"}, text : Seq(Piece)]

Now == [started |-> emitted_start, streamed |-> streamed_tokens,
        type |-> response_type, text |-> text]

Fresh == [started |-> FALSE, streamed |-> FALSE, type |-> "none", text |-> <<>>]

\* HandleNodeStart, HandleToken, HandleNodeEnd and HandleNested in one.
Handle(e, s) ==
  LET boundary == e.name = e.node
      opens == /\ e.kind = "on_chain_start" /\ boundary
               /\ e.name \in DOMAIN NodeResponseType /\ ~ s.started
      written == /\ e.kind = "on_chat_model_stream"
                 /\ e.node \in StreamingNodes /\ e.text # <<>>
      ended == e.kind = "on_chain_end" /\ boundary
      chat == ended /\ e.name = "intent" /\ ~ s.started /\ ~ e.objective
      whole == ended /\ e.name \in FinalTokenNodes /\ ~ s.streamed
  IN  [started |-> s.started \/ opens \/ chat,
       streamed |-> ~ ended /\ (s.streamed \/ written),
       type |-> IF opens THEN NodeResponseType[e.name] ELSE IF chat THEN "chat" ELSE s.type,
       text |-> IF written \/ whole THEN s.text \o e.text ELSE s.text]

\* The steps of StreamProtocol: none, Start and Token.
Allowed(s, t) ==
  \/ t.started = s.started /\ t.type = s.type /\ t.text = s.text
  \/ ~ s.started /\ t.started /\ t.type \in {"chat", "report", "failure"} /\ IsPrefix(s.text, t.text)
  \/ s.started /\ t.started /\ t.type = s.type /\ IsStrictPrefix(s.text, t.text)

\* Reading evs, the reader gets from s to t.
Reaches(evs, s, t) ==
  \E f \in [0..Len(evs) -> ReaderState] :
    /\ f[0] = s /\ f[Len(evs)] = t
    /\ \A i \in 1..Len(evs) : f[i] = Handle(evs[i], f[i - 1]) /\ Allowed(f[i - 1], f[i])

\* What DoneMatchesThread asks of the response and its answer.
Matches(t, m) ==
  /\ t.type = TypeOfKind(m.kind)
  /\ m.kind \in {"chat", "failure", "report"} => IsSuffix(m.text, t.text)
  /\ IsInjective(t.text)

\* What the reader will have sent of a run that is not over yet.
Telling(t) ==
  IF next = "generate" /\ call > 0
  THEN /\ t.started /\ t.type = "report"
       /\ \E front \in Seq(Piece) : t.text = front \o draft
       /\ IsInjective(t.text)
       /\ \A i \in DOMAIN t.text : /\ t.text[i][1] <= call
                                   /\ t.text[i][1] = call => t.text[i][2] <= Len(draft)
  ELSE t = Fresh

\* Of the runs that wait none is listened to; at most one is.
NobodyNext == \A i \in DOMAIN pending : ~ pending[i].heard
OneHeard == \A i, j \in DOMAIN pending : pending[i].heard /\ pending[j].heard => i = j

\* Where the run of an open response is: it waits, or executes, or is over.
Stage(t) ==
  \/ /\ ~ NobodyNext /\ OneHeard /\ (heard => next = "end")
     /\ t = Fresh /\ stored = <<>>
  \/ /\ NobodyNext /\ heard /\ next # "end"
     /\ Telling(t) /\ stored = <<>>
  \/ /\ RunOver
     /\ stored # <<>> => Matches(t, stored[1])

StreamInv ==
  /\ GraphInv
  /\ StreamTypeOK
  /\ phase \in {"opening", "open"} => asked \in Query
  /\ phase # "closed" => outcome = "none"
  /\ phase # "open" => events = <<>> /\ (heard => next = "end") /\ NobodyNext
  /\ phase \in {"idle", "opening"} => Now = Fresh /\ stored = <<>>
  /\ phase = "open" => \E t \in ReaderState : Reaches(events, Now, t) /\ Stage(t)
  /\ phase = "closed" /\ outcome = "done" /\ stored # <<>> => Matches(Now, stored[1])

-----------------------------------------------------------------------------

(* Lemmas about sequences *)

\* What Reverse returns.
LEMMA Reversed ==
  ASSUME NEW S, NEW s \in Seq(S)
  PROVE  /\ Reverse(s) \in Seq(S) /\ Len(Reverse(s)) = Len(s)
         /\ \A i \in 1..Len(s) : Reverse(s)[i] = s[(Len(s) - i) + 1]
<1> DEFINE n == Len(s)
           r == [i \in 1..n |-> s[(n - i) + 1]]
<1>1. n \in Nat
  BY LenProperties
<1>2. \A i \in 1..n : s[(n - i) + 1] \in S
  <2> TAKE i \in 1..n
  <2>1. (n - i) + 1 \in 1..n
    BY <1>1
  <2> QED
    BY <2>1, ElementOfSeq
<1>3. r \in Seq(S) /\ Len(r) = n
  <2> HIDE DEF n
  <2>1. r \in [1..n -> S]
    BY <1>2
  <2> QED
    BY <1>1, <2>1
<1> QED
  BY <1>3 DEF Reverse

\* Both parts of a concatenation are where IsPrefix and IsSuffix look for them.
LEMMA Beginnings ==
  ASSUME NEW S, NEW s \in Seq(S), NEW x \in Seq(S)
  PROVE  /\ IsPrefix(s, s \o x)
         /\ x # <<>> => IsStrictPrefix(s, s \o x)
         /\ IsSuffix(x, s \o x)
<1> DEFINE n == Len(s)
           k == Len(x)
           t == s \o x
<1>1. /\ t \in Seq(S) /\ Len(t) = n + k /\ n \in Nat /\ k \in Nat
      /\ \A i \in 1..(n + k) : t[i] = IF i <= n THEN s[i] ELSE x[i - n]
  BY ConcatProperties, LenProperties
<1> HIDE DEF t, n, k
<1>2. IsPrefix(s, t)
  <2>1. \A i \in 1..n : s[i] \in S /\ t[i] \in S /\ t[i] = s[i]
    BY <1>1, ElementOfSeq DEF n
  <2>2. /\ SubSeq(s, 1, n) \in Seq(S) /\ Len(SubSeq(s, 1, n)) = IF 1 <= n THEN n - 1 + 1 ELSE 0
        /\ \A i \in 1..(n - 1 + 1) : SubSeq(s, 1, n)[i] = s[1 + i - 1]
    BY <1>1, <2>1, SubSeqProperties
  <2>3. /\ SubSeq(t, 1, n) \in Seq(S) /\ Len(SubSeq(t, 1, n)) = IF 1 <= n THEN n - 1 + 1 ELSE 0
        /\ \A i \in 1..(n - 1 + 1) : SubSeq(t, 1, n)[i] = t[1 + i - 1]
    BY <1>1, <2>1, SubSeqProperties
  <2>4. SubSeq(s, 1, n) = SubSeq(t, 1, n)
    <3>1. Len(SubSeq(s, 1, n)) = n /\ Len(SubSeq(t, 1, n)) = n
      BY <1>1, <2>2, <2>3
    <3>2. \A i \in 1..n : SubSeq(s, 1, n)[i] = SubSeq(t, 1, n)[i]
      BY <1>1, <2>1, <2>2, <2>3
    <3> QED
      BY <2>2, <2>3, <3>1, <3>2, SeqEqual
  <2> QED
    BY <1>1, <2>4 DEF IsPrefix, n
<1>3. x # <<>> => s # t
  <2>1. x # <<>> => k # 0
    BY <1>1, EmptySeq DEF k
  <2> QED
    BY <1>1, <2>1 DEF n
<1>4. IsSuffix(x, t)
  <2> DEFINE rx == Reverse(x)
             rt == Reverse(t)
  <2>1. /\ \A i \in 1..k : x[i] \in S
        /\ \A i \in 1..(n + k) : t[i] \in S
    BY <1>1, ElementOfSeq DEF k
  <2>2. /\ rx \in Seq(S) /\ Len(rx) = k
        /\ rt \in Seq(S) /\ Len(rt) = n + k
        /\ \A i \in 1..k : rx[i] = x[k - i + 1]
        /\ \A i \in 1..(n + k) : rt[i] = t[n + k - i + 1]
    <3>1. /\ rx \in Seq(S) /\ Len(rx) = Len(x)
          /\ \A i \in 1..Len(x) : rx[i] = x[(Len(x) - i) + 1]
      BY Reversed
    <3>2. /\ rt \in Seq(S) /\ Len(rt) = Len(t)
          /\ \A i \in 1..Len(t) : rt[i] = t[(Len(t) - i) + 1]
      BY <1>1, Reversed
    <3> HIDE DEF rx, rt
    <3> QED
      BY <1>1, <3>1, <3>2 DEF k
  <2>3. \A i \in 1..k : rt[i] = rx[i]
    <3> TAKE i \in 1..k
    <3>1. n + k - i + 1 \in 1..(n + k) /\ ~ n + k - i + 1 <= n /\ n + k - i + 1 - n = k - i + 1
      BY <1>1
    <3>2. t[n + k - i + 1] = x[k - i + 1]
      BY <1>1, <3>1
    <3>3. i \in 1..(n + k)
      BY <1>1
    <3> QED
      BY <2>2, <3>2, <3>3
  <2> HIDE DEF rx, rt
  <2>4. \A i \in 1..k : rx[i] \in S /\ rt[i] \in S
    BY <1>1, <2>2, <2>3, ElementOfSeq
  <2>5. /\ SubSeq(rx, 1, k) \in Seq(S) /\ Len(SubSeq(rx, 1, k)) = IF 1 <= k THEN k - 1 + 1 ELSE 0
        /\ \A i \in 1..(k - 1 + 1) : SubSeq(rx, 1, k)[i] = rx[1 + i - 1]
    BY <1>1, <2>4, SubSeqProperties
  <2>6. /\ SubSeq(rt, 1, k) \in Seq(S) /\ Len(SubSeq(rt, 1, k)) = IF 1 <= k THEN k - 1 + 1 ELSE 0
        /\ \A i \in 1..(k - 1 + 1) : SubSeq(rt, 1, k)[i] = rt[1 + i - 1]
    BY <1>1, <2>4, SubSeqProperties
  <2>7. SubSeq(rx, 1, k) = SubSeq(rt, 1, k)
    <3>1. Len(SubSeq(rx, 1, k)) = k /\ Len(SubSeq(rt, 1, k)) = k
      BY <1>1, <2>5, <2>6
    <3>2. \A i \in 1..k : SubSeq(rx, 1, k)[i] = SubSeq(rt, 1, k)[i]
      BY <1>1, <2>3, <2>5, <2>6
    <3> QED
      BY <2>5, <2>6, <3>1, <3>2, SeqEqual
  <2> QED
    BY <1>1, <2>2, <2>7 DEF IsSuffix, IsPrefix, rx, rt
<1> QED
  BY <1>2, <1>3, <1>4 DEF IsStrictPrefix, t

-----------------------------------------------------------------------------

(* Reading event after event *)

\* With no events on their way the reader stays where it is.
LEMMA ReachesNothing ==
  ASSUME NEW s \in ReaderState
  PROVE  Reaches(<<>>, s, s)
<1> DEFINE f == [i \in 0..0 |-> s]
<1>1. Len(<<>>) = 0
  OBVIOUS
<1>2. f \in [0..0 -> ReaderState] /\ f[0] = s
  OBVIOUS
<1>3. 1..0 = {}
  OBVIOUS
<1> HIDE DEF f
<1> QED
  BY <1>1, <1>2, <1>3 DEF Reaches

LEMMA ReachesNothingElse ==
  ASSUME NEW s, NEW t, Reaches(<<>>, s, t)
  PROVE  s = t
<1>1. Len(<<>>) = 0
  OBVIOUS
<1> QED
  BY <1>1 DEF Reaches

\* One more event on its way.
LEMMA ReachesFurther ==
  ASSUME NEW evs \in Seq(Event), NEW e \in Event, NEW s, NEW t, Reaches(evs, s, t),
         Handle(e, t) \in ReaderState, Allowed(t, Handle(e, t))
  PROVE  Reaches(Append(evs, e), s, Handle(e, t))
<1> DEFINE n == Len(evs)
           new == Append(evs, e)
<1>1. PICK f \in [0..n -> ReaderState] :
        /\ f[0] = s /\ f[n] = t
        /\ \A i \in 1..n : f[i] = Handle(evs[i], f[i - 1]) /\ Allowed(f[i - 1], f[i])
  BY DEF Reaches
<1>2. /\ n \in Nat /\ Len(new) = n + 1
      /\ \A i \in 1..n : new[i] = evs[i]
      /\ new[n + 1] = e
  BY AppendProperties, LenProperties
<1> HIDE DEF n, new
<1> DEFINE u == Handle(e, t)
           g == [i \in 0..(n + 1) |-> IF i <= n THEN f[i] ELSE u]
<1>3. /\ g \in [0..(n + 1) -> ReaderState]
      /\ \A i \in 0..n : g[i] = f[i]
      /\ g[n + 1] = u
  BY <1>1, <1>2
<1> HIDE DEF g
<1>4. ASSUME NEW i \in 1..(n + 1)
      PROVE  g[i] = Handle(new[i], g[i - 1]) /\ Allowed(g[i - 1], g[i])
  <2>1. CASE i = n + 1
    <3>1. i - 1 = n /\ n \in 0..n
      BY <1>2, <2>1
    <3>2. g[i - 1] = t /\ g[i] = u /\ new[i] = e
      BY <1>1, <1>2, <1>3, <2>1, <3>1
    <3> QED
      BY <3>2
  <2>2. CASE i # n + 1
    <3>1. i \in 1..n /\ i \in 0..n /\ i - 1 \in 0..n
      BY <1>2, <2>2
    <3>2. g[i] = f[i] /\ g[i - 1] = f[i - 1] /\ new[i] = evs[i]
      BY <1>2, <1>3, <3>1
    <3> QED
      BY <1>1, <3>1, <3>2
  <2> QED
    BY <2>1, <2>2
<1>5. g[0] = s
  BY <1>1, <1>2, <1>3
<1> HIDE DEF u
<1> QED
  BY <1>2, <1>3, <1>4, <1>5 DEF Reaches, new, u

\* One event read.
LEMMA ReachesAfterHead ==
  ASSUME NEW evs \in Seq(Event), evs # <<>>, NEW s, NEW t, Reaches(evs, s, t)
  PROVE  /\ Handle(Head(evs), s) \in ReaderState
         /\ Allowed(s, Handle(Head(evs), s))
         /\ Reaches(Tail(evs), Handle(Head(evs), s), t)
<1> DEFINE n == Len(evs)
           rest == Tail(evs)
<1>1. PICK f \in [0..n -> ReaderState] :
        /\ f[0] = s /\ f[n] = t
        /\ \A i \in 1..n : f[i] = Handle(evs[i], f[i - 1]) /\ Allowed(f[i - 1], f[i])
  BY DEF Reaches
<1>2. /\ n \in Nat \ {0} /\ Len(rest) = n - 1 /\ Head(evs) = evs[1]
      /\ \A i \in 1..(n - 1) : rest[i] = evs[i + 1]
  BY HeadTailProperties, EmptySeq
<1> HIDE DEF n, rest
<1>3. /\ f[1] = Handle(Head(evs), s) /\ Allowed(s, f[1]) /\ f[1] \in ReaderState
  <2>1. 1 \in 1..n /\ 1 \in 0..n /\ 1 - 1 = 0
    BY <1>2
  <2> QED
    BY <1>1, <1>2, <2>1
<1> DEFINE g == [i \in 0..(n - 1) |-> f[i + 1]]
<1>4. g \in [0..(n - 1) -> ReaderState] /\ \A i \in 0..(n - 1) : g[i] = f[i + 1]
  BY <1>1, <1>2
<1> HIDE DEF g
<1>5. ASSUME NEW i \in 1..(n - 1)
      PROVE  g[i] = Handle(rest[i], g[i - 1]) /\ Allowed(g[i - 1], g[i])
  <2>1. i \in 0..(n - 1) /\ i - 1 \in 0..(n - 1) /\ i + 1 \in 1..n
        /\ (i - 1) + 1 = i /\ (i + 1) - 1 = i
    BY <1>2
  <2>2. g[i] = f[i + 1] /\ g[i - 1] = f[i] /\ rest[i] = evs[i + 1]
    BY <1>2, <1>4, <2>1
  <2> QED
    BY <1>1, <2>1, <2>2
<1>6. g[0] = f[1] /\ g[n - 1] = t
  <2>1. 0 \in 0..(n - 1) /\ n - 1 \in 0..(n - 1) /\ (n - 1) + 1 = n /\ 0 + 1 = 1
    BY <1>2
  <2> QED
    BY <1>1, <1>4, <2>1
<1>7. Reaches(rest, f[1], t)
  BY <1>2, <1>4, <1>5, <1>6 DEF Reaches
<1> QED
  BY <1>3, <1>7 DEF rest

\* The events of the nodes, and how they are appended.
LEMMA EventIn ==
  ASSUME NEW kind \in {"on_chain_start", "on_chat_model_stream", "on_chain_end"},
         NEW n \in Node, NEW words \in Seq(Piece), NEW o \in BOOLEAN
  PROVE  /\ Boundary(kind, n, words, o) \in Event
         /\ Nested(kind, n, words) \in Event
  BY DEF Boundary, Nested, Event

LEMMA TwoEvents ==
  ASSUME NEW evs \in Seq(Event), NEW e \in Event, NEW f \in Event
  PROVE  /\ evs \o <<e, f>> = Append(Append(evs, e), f)
         /\ evs \o <<e>> = Append(evs, e)
         /\ Append(evs, e) \in Seq(Event)
<1>1. Append(evs, e) \in Seq(Event) /\ <<e>> \in Seq(Event) /\ <<f>> \in Seq(Event)
  BY AppendProperties
<1>2. evs \o <<e>> = Append(evs, e) /\ Append(evs, e) \o <<f>> = Append(Append(evs, e), f)
  BY <1>1, AppendIsConcat
<1>3. <<e>> \o <<f>> = <<e, f>>
  <2>1. /\ <<e, f>> \in Seq(Event) /\ Len(<<e, f>>) = 2
        /\ <<e, f>>[1] = e /\ <<e, f>>[2] = f
    OBVIOUS
  <2>2. /\ Len(<<e>>) = 1 /\ <<e>>[1] = e
        /\ Len(<<f>>) = 1 /\ <<f>>[1] = f
    OBVIOUS
  <2>3. /\ <<e>> \o <<f>> \in Seq(Event) /\ Len(<<e>> \o <<f>>) = 2
        /\ (<<e>> \o <<f>>)[1] = e /\ (<<e>> \o <<f>>)[2] = f
    BY <1>1, <2>2, ConcatProperties
  <2>4. \A i \in 1..2 : (<<e>> \o <<f>>)[i] = <<e, f>>[i]
    BY <2>1, <2>3
  <2> QED
    BY <2>1, <2>3, <2>4, SeqEqual
<1>4. (evs \o <<e>>) \o <<f>> = evs \o (<<e>> \o <<f>>)
  BY <1>1, ConcatAssociative
<1> QED
  BY <1>1, <1>2, <1>3, <1>4

\* The boundaries of nested chains do not move the reader.
LEMMA NestedIsDropped ==
  ASSUME NEW kind \in {"on_chain_start", "on_chain_end"}, NEW n \in Node,
         NEW words \in Seq(Piece), NEW s \in ReaderState
  PROVE  Handle(Nested(kind, n, words), s) = s
<1> DEFINE e == Nested(kind, n, words)
<1>1. e.kind = kind /\ e.name # e.node
  BY DEF Nested, Node
<1> HIDE DEF e
<1>2. Handle(e, s) = [started |-> s.started, streamed |-> s.streamed, type |-> s.type, text |-> s.text]
  <2>1. s.started \in BOOLEAN /\ s.streamed \in BOOLEAN
    BY DEF ReaderState
  <2> QED
    BY <1>1, <2>1 DEF Handle
<1> QED
  BY <1>2 DEF ReaderState, e

\* The events that a node leaves when it starts, when it ends, for a token.
LEMMA ReachesStarted ==
  ASSUME NEW evs \in Seq(Event), NEW s, NEW t \in ReaderState, Reaches(evs, s, t), NEW n \in Node,
         NEW u \in ReaderState, u = Handle(Boundary("on_chain_start", n, <<>>, FALSE), t), Allowed(t, u)
  PROVE  Reaches(evs \o Started(n), s, u)
<1> DEFINE e == Boundary("on_chain_start", n, <<>>, FALSE)
           f == Nested("on_chain_start", n, <<>>)
<1>1. e \in Event /\ f \in Event /\ <<>> \in Seq(Piece)
  <2>1. <<>> \in Seq(Piece)
    OBVIOUS
  <2> QED
    BY <2>1, EventIn
<1>2. evs \o Started(n) = Append(Append(evs, e), f)
  BY <1>1, TwoEvents DEF Started
<1>3. Handle(f, u) = u /\ Allowed(u, u)
  BY <1>1, NestedIsDropped DEF Allowed
<1> HIDE DEF e, f
<1>4. Reaches(Append(evs, e), s, u) /\ Append(evs, e) \in Seq(Event)
  BY <1>1, TwoEvents, ReachesFurther DEF e
<1>5. Reaches(Append(Append(evs, e), f), s, u)
  BY <1>1, <1>3, <1>4, ReachesFurther
<1> QED
  BY <1>2, <1>5

LEMMA ReachesEnded ==
  ASSUME NEW evs \in Seq(Event), NEW s, NEW t \in ReaderState, Reaches(evs, s, t), NEW n \in Node,
         NEW words \in Seq(Piece), NEW o \in BOOLEAN,
         NEW u \in ReaderState, u = Handle(Boundary("on_chain_end", n, words, o), t), Allowed(t, u)
  PROVE  Reaches(evs \o Ended(n, words, o), s, u)
<1> DEFINE e == Nested("on_chain_end", n, <<>>)
           f == Boundary("on_chain_end", n, words, o)
<1>1. e \in Event /\ f \in Event /\ <<>> \in Seq(Piece)
  <2>1. <<>> \in Seq(Piece)
    OBVIOUS
  <2> QED
    BY <2>1, EventIn
<1>2. evs \o Ended(n, words, o) = Append(Append(evs, e), f)
  BY <1>1, TwoEvents DEF Ended
<1>3. Handle(e, t) = t /\ Allowed(t, t)
  BY <1>1, NestedIsDropped DEF Allowed
<1> HIDE DEF e, f
<1>4. Reaches(Append(evs, e), s, t) /\ Append(evs, e) \in Seq(Event)
  BY <1>1, <1>3, TwoEvents, ReachesFurther
<1>5. Reaches(Append(Append(evs, e), f), s, u)
  BY <1>1, <1>4, ReachesFurther DEF f
<1> QED
  BY <1>2, <1>5

LEMMA ReachesToken ==
  ASSUME NEW evs \in Seq(Event), NEW s, NEW t \in ReaderState, Reaches(evs, s, t), NEW n \in Node,
         NEW p \in Piece,
         NEW u \in ReaderState, u = Handle(Nested("on_chat_model_stream", n, <<p>>), t), Allowed(t, u)
  PROVE  Reaches(evs \o Token(n, p), s, u)
<1> DEFINE e == Nested("on_chat_model_stream", n, <<p>>)
<1>1. e \in Event
  <2>1. <<p>> \in Seq(Piece)
    OBVIOUS
  <2> QED
    BY <2>1, EventIn
<1>2. evs \o Token(n, p) = Append(evs, e)
  BY <1>1, TwoEvents DEF Token
<1> HIDE DEF e
<1> QED
  BY <1>1, <1>2, ReachesFurther DEF e

\* How the events of the nodes change the state of the reader.
LEMMA FreshReader ==
  /\ Fresh \in ReaderState /\ Allowed(Fresh, Fresh)
  /\ \A n \in Node \ {"generate", "fallback"} :
       Handle(Boundary("on_chain_start", n, <<>>, FALSE), Fresh) = Fresh
  /\ \A n \in Node \ {"generate"}, p \in Piece :
       Handle(Nested("on_chat_model_stream", n, <<p>>), Fresh) = Fresh
  /\ Handle(Boundary("on_chain_end", "retrieve", <<>>, FALSE), Fresh) = Fresh
  /\ \A n \in {"intent", "rewrite_objective"} :
       Handle(Boundary("on_chain_end", n, <<>>, TRUE), Fresh) = Fresh
<1>1. Fresh \in ReaderState /\ Allowed(Fresh, Fresh)
  <2>1. <<>> \in Seq(Piece)
    OBVIOUS
  <2> QED
    BY <2>1 DEF Fresh, ReaderState, Allowed
<1>2. ASSUME NEW n \in Node \ {"generate", "fallback"}
      PROVE  Handle(Boundary("on_chain_start", n, <<>>, FALSE), Fresh) = Fresh
  BY DEF Handle, Boundary, Fresh, NodeResponseType
<1>3. ASSUME NEW n \in Node \ {"generate"}, NEW p \in Piece
      PROVE  Handle(Nested("on_chat_model_stream", n, <<p>>), Fresh) = Fresh
  BY DEF Handle, Nested, Fresh, StreamingNodes
<1>4. Handle(Boundary("on_chain_end", "retrieve", <<>>, FALSE), Fresh) = Fresh
  BY DEF Handle, Boundary, Fresh, FinalTokenNodes
<1>5. ASSUME NEW n \in {"intent", "rewrite_objective"}
      PROVE  Handle(Boundary("on_chain_end", n, <<>>, TRUE), Fresh) = Fresh
  <2>1. <<>> \o <<>> = <<>>
    OBVIOUS
  <2> QED
    BY <2>1 DEF Handle, Boundary, Fresh, FinalTokenNodes
<1> QED
  BY <1>1, <1>2, <1>3, <1>4, <1>5

\* The reader once the generate node is at work, and how it goes on.
LEMMA ReaderOfReport ==
  /\ LET u == [started |-> TRUE, streamed |-> FALSE, type |-> "report", text |-> <<>>]
     IN  /\ u \in ReaderState /\ Allowed(Fresh, u)
         /\ Handle(Boundary("on_chain_start", "generate", <<>>, FALSE), Fresh) = u
  /\ \A t \in ReaderState, p \in Piece :
       t.started =>
         LET u == [started |-> TRUE, streamed |-> TRUE, type |-> t.type, text |-> Append(t.text, p)]
         IN  /\ u \in ReaderState /\ Allowed(t, u)
             /\ Handle(Nested("on_chat_model_stream", "generate", <<p>>), t) = u
  /\ \A t \in ReaderState, words \in Seq(Piece) :
       t.started =>
         LET u == [started |-> TRUE, streamed |-> FALSE, type |-> t.type, text |-> t.text]
         IN  /\ u \in ReaderState /\ Allowed(t, u)
             /\ Handle(Boundary("on_chain_end", "generate", words, FALSE), t) = u
<1>1. LET u == [started |-> TRUE, streamed |-> FALSE, type |-> "report", text |-> <<>>]
      IN  /\ u \in ReaderState /\ Allowed(Fresh, u)
          /\ Handle(Boundary("on_chain_start", "generate", <<>>, FALSE), Fresh) = u
  <2>1. <<>> \in Seq(Piece) /\ <<>> \o <<>> = <<>>
    OBVIOUS
  <2>2. IsPrefix(<<>>, <<>>)
    BY <2>1, Beginnings
  <2>3. Handle(Boundary("on_chain_start", "generate", <<>>, FALSE), Fresh)
          = [started |-> TRUE, streamed |-> FALSE, type |-> "report", text |-> <<>>]
    BY DEF Handle, Boundary, Fresh, NodeResponseType
  <2> QED
    BY <2>1, <2>2, <2>3 DEF ReaderState, Allowed, Fresh
<1>2. ASSUME NEW t \in ReaderState, NEW p \in Piece, t.started
      PROVE  LET u == [started |-> TRUE, streamed |-> TRUE, type |-> t.type, text |-> Append(t.text, p)]
             IN  /\ u \in ReaderState /\ Allowed(t, u)
                 /\ Handle(Nested("on_chat_model_stream", "generate", <<p>>), t) = u
  <2> DEFINE u == [started |-> TRUE, streamed |-> TRUE, type |-> t.type, text |-> Append(t.text, p)]
             v == [started |-> TRUE, streamed |-> TRUE, type |-> t.type, text |-> t.text \o <<p>>]
  <2>1. t.text \in Seq(Piece) /\ <<p>> \in Seq(Piece) /\ <<p>> # <<>> /\ t.started \in BOOLEAN
    BY DEF ReaderState
  <2>2. t.text \o <<p>> = Append(t.text, p) /\ t.text \o <<p>> \in Seq(Piece)
    BY <2>1, AppendIsConcat, ConcatProperties
  <2>3. u = v
    BY <2>2
  <2>4. IsStrictPrefix(t.text, t.text \o <<p>>)
    BY <2>1, Beginnings
  <2>5. v \in ReaderState /\ Allowed(t, v)
    BY <1>2, <2>1, <2>2, <2>4 DEF ReaderState, Allowed
  <2>6. Handle(Nested("on_chat_model_stream", "generate", <<p>>), t) = v
    BY <1>2, <2>1 DEF Handle, Nested, StreamingNodes
  <2> QED
    BY <2>3, <2>5, <2>6
<1>3. ASSUME NEW t \in ReaderState, NEW words \in Seq(Piece), t.started
      PROVE  LET u == [started |-> TRUE, streamed |-> FALSE, type |-> t.type, text |-> t.text]
             IN  /\ u \in ReaderState /\ Allowed(t, u)
                 /\ Handle(Boundary("on_chain_end", "generate", words, FALSE), t) = u
  <2> DEFINE u == [started |-> TRUE, streamed |-> FALSE, type |-> t.type, text |-> t.text]
  <2>1. u \in ReaderState /\ Allowed(t, u) /\ t.started \in BOOLEAN
    BY <1>3 DEF ReaderState, Allowed
  <2>2. Handle(Boundary("on_chain_end", "generate", words, FALSE), t) = u
    BY <1>3, <2>1 DEF Handle, Boundary, FinalTokenNodes
  <2> QED
    BY <2>1, <2>2
<1> QED
  BY <1>1, <1>2, <1>3

\* The reader of a chat answer and of the fallback.
LEMMA ReaderOfWhole ==
  /\ LET u == [started |-> TRUE, streamed |-> FALSE, type |-> "chat", text |-> Canned]
     IN  /\ u \in ReaderState /\ Allowed(Fresh, u)
         /\ Handle(Boundary("on_chain_end", "intent", Canned, FALSE), Fresh) = u
  /\ LET t == [started |-> TRUE, streamed |-> FALSE, type |-> "failure", text |-> <<>>]
         u == [started |-> TRUE, streamed |-> FALSE, type |-> "failure", text |-> Canned]
     IN  /\ t \in ReaderState /\ Allowed(Fresh, t)
         /\ Handle(Boundary("on_chain_start", "fallback", <<>>, FALSE), Fresh) = t
         /\ u \in ReaderState /\ Allowed(t, u)
         /\ Handle(Boundary("on_chain_end", "fallback", Canned, FALSE), t) = u
<1>1. /\ <<>> \in Seq(Piece) /\ Canned \in Seq(Piece) /\ Canned # <<>>
      /\ <<>> \o <<>> = <<>> /\ <<>> \o Canned = Canned
  <2>1. Canned \in Seq(Piece) /\ <<>> \in Seq(Piece)
    BY Values
  <2>2. Canned # <<>>
    BY DEF Canned
  <2> QED
    BY <2>1, <2>2, ConcatEmptySeq
<1>2. IsPrefix(<<>>, <<>>) /\ IsPrefix(<<>>, Canned) /\ IsStrictPrefix(<<>>, Canned)
  <2>1. IsPrefix(<<>>, <<>> \o <<>>) /\ IsPrefix(<<>>, <<>> \o Canned)
        /\ IsStrictPrefix(<<>>, <<>> \o Canned)
    BY <1>1, Beginnings
  <2> QED
    BY <1>1, <2>1
<1>3. Handle(Boundary("on_chain_end", "intent", Canned, FALSE), Fresh)
        = [started |-> TRUE, streamed |-> FALSE, type |-> "chat", text |-> Canned]
  <2>1. Handle(Boundary("on_chain_end", "intent", Canned, FALSE), Fresh)
          = [started |-> TRUE, streamed |-> FALSE, type |-> "chat", text |-> <<>> \o Canned]
    BY DEF Handle, Boundary, Fresh, FinalTokenNodes
  <2> QED
    BY <1>1, <2>1
<1>4. Handle(Boundary("on_chain_start", "fallback", <<>>, FALSE), Fresh)
        = [started |-> TRUE, streamed |-> FALSE, type |-> "failure", text |-> <<>>]
  BY DEF Handle, Boundary, Fresh, NodeResponseType
<1>5. Handle(Boundary("on_chain_end", "fallback", Canned, FALSE),
             [started |-> TRUE, streamed |-> FALSE, type |-> "failure", text |-> <<>>])
        = [started |-> TRUE, streamed |-> FALSE, type |-> "failure", text |-> Canned]
  <2>1. Handle(Boundary("on_chain_end", "fallback", Canned, FALSE),
               [started |-> TRUE, streamed |-> FALSE, type |-> "failure", text |-> <<>>])
          = [started |-> TRUE, streamed |-> FALSE, type |-> "failure", text |-> <<>> \o Canned]
    BY DEF Handle, Boundary, FinalTokenNodes
  <2> QED
    BY <1>1, <2>1
<1> QED
  BY <1>1, <1>2, <1>3, <1>4, <1>5 DEF ReaderState, Allowed, Fresh

-----------------------------------------------------------------------------
(* The actions of the reader *)

\* The actions are the function Handle.
LEMMA ReadingHandles ==
  ASSUME StreamTypeOK, HandleNodeStart \/ HandleToken \/ HandleNodeEnd \/ HandleNested
  PROVE  /\ phase = "open" /\ events # <<>> /\ events' = Tail(events)
         /\ Now' = Handle(Head(events), Now)
         /\ UNCHANGED <<agentState, next, writing, queue, searched,
                        phase, asked, tries, outcome, stored>>
<1> DEFINE e == Head(events)
<1>1. /\ phase = "open" /\ events # <<>> /\ events' = Tail(events)
      /\ UNCHANGED <<agentState, next, writing, queue, searched,
                     phase, asked, tries, outcome, stored>>
  BY DEF HandleNodeStart, HandleToken, HandleNodeEnd, HandleNested, AtBoundary, Take, stream
<1>2. e \in Event /\ emitted_start \in BOOLEAN /\ streamed_tokens \in BOOLEAN
  BY <1>1, HeadTailProperties DEF StreamTypeOK, TypeOK
<1>3. /\ e.kind \in {"on_chain_start", "on_chat_model_stream", "on_chain_end"}
      /\ e.objective \in BOOLEAN
  BY <1>2 DEF Event
<1> DEFINE boundary == e.name = e.node
           opens == /\ e.kind = "on_chain_start" /\ boundary
                    /\ e.name \in DOMAIN NodeResponseType /\ ~ emitted_start
           written == /\ e.kind = "on_chat_model_stream"
                      /\ e.node \in StreamingNodes /\ e.text # <<>>
           ended == e.kind = "on_chain_end" /\ boundary
           chat == ended /\ e.name = "intent" /\ ~ emitted_start /\ ~ e.objective
           whole == ended /\ e.name \in FinalTokenNodes /\ ~ streamed_tokens
<1>4. /\ emitted_start' = (emitted_start \/ opens \/ chat)
      /\ streamed_tokens' = (~ ended /\ (streamed_tokens \/ written))
      /\ response_type' = IF opens THEN NodeResponseType[e.name]
                          ELSE IF chat THEN "chat" ELSE response_type
      /\ text' = IF written \/ whole THEN text \o e.text ELSE text
  <2> HIDE DEF e
  <2>1. CASE HandleNodeStart
    <3>1. /\ e.kind = "on_chain_start" /\ boundary
          /\ UNCHANGED <<streamed_tokens, text>>
          /\ \/ /\ e.name \in DOMAIN NodeResponseType /\ ~ emitted_start
                /\ response_type' = NodeResponseType[e.name] /\ emitted_start' = TRUE
             \/ /\ e.name \notin DOMAIN NodeResponseType \/ emitted_start
                /\ UNCHANGED <<response_type, emitted_start>>
      BY <2>1 DEF HandleNodeStart, AtBoundary, e
    <3> QED
      BY <3>1, <1>2, <1>3
  <2>2. CASE HandleToken
    <3>1. /\ e.kind = "on_chat_model_stream"
          /\ UNCHANGED <<emitted_start, response_type>>
          /\ \/ /\ e.node \in StreamingNodes /\ e.text # <<>>
                /\ text' = text \o e.text /\ streamed_tokens' = TRUE
             \/ /\ e.node \notin StreamingNodes \/ e.text = <<>>
                /\ UNCHANGED <<text, streamed_tokens>>
      BY <2>2 DEF HandleToken, e
    <3> QED
      BY <3>1, <1>2, <1>3
  <2>3. CASE HandleNodeEnd
    <3>1. /\ e.kind = "on_chain_end" /\ boundary
          /\ emitted_start' = (emitted_start \/ chat)
          /\ response_type' = (IF chat THEN "chat" ELSE response_type)
          /\ text' = (IF whole THEN text \o e.text ELSE text)
          /\ streamed_tokens' = FALSE
      BY <2>3 DEF HandleNodeEnd, AtBoundary, e
    <3> QED
      BY <3>1, <1>2, <1>3
  <2>4. CASE HandleNested
    <3>1. /\ e.kind # "on_chat_model_stream" /\ ~ boundary
          /\ UNCHANGED <<emitted_start, streamed_tokens, response_type, text>>
      BY <2>4 DEF HandleNested, stream, reader, e
    <3> QED
      BY <3>1, <1>2, <1>3
  <2> QED
    BY <2>1, <2>2, <2>3, <2>4
<1>5. Handle(e, Now) = [started |-> emitted_start \/ opens \/ chat,
                        streamed |-> ~ ended /\ (streamed_tokens \/ written),
                        type |-> IF opens THEN NodeResponseType[e.name]
                                 ELSE IF chat THEN "chat" ELSE response_type,
                        text |-> IF written \/ whole THEN text \o e.text ELSE text]
  BY DEF Handle, Now
<1>6. Now' = [started |-> emitted_start', streamed |-> streamed_tokens',
              type |-> response_type', text |-> text']
  BY DEF Now
<1> HIDE DEF opens, written, ended, chat, whole
<1>7. Now' = Handle(e, Now)
  BY <1>4, <1>5, <1>6
<1> QED
  BY <1>1, <1>7

-----------------------------------------------------------------------------
(* The nodes, read by the response *)

\* The events of a node are read in turn.
LEMMA InTurn ==
  \A evs, a, b \in Seq(Event) : evs \o a \in Seq(Event) /\ evs \o (a \o b) = (evs \o a) \o b
BY ConcatProperties, ConcatAssociative

LEMMA EventsInTurn ==
  ASSUME NEW evs \in Seq(Event), NEW n \in Node, NEW words \in Seq(Piece), NEW o \in BOOLEAN
  PROVE  /\ evs \o (Started(n) \o Ended(n, words, o)) = (evs \o Started(n)) \o Ended(n, words, o)
         /\ \A p \in Piece :
              /\ Token(n, p) \in Seq(Event) /\ (evs \o Started(n)) \o Token(n, p) \in Seq(Event)
              /\ evs \o (Started(n) \o Token(n, p) \o Ended(n, words, o))
                   = ((evs \o Started(n)) \o Token(n, p)) \o Ended(n, words, o)
<1>1. Started(n) \in Seq(Event) /\ Ended(n, words, o) \in Seq(Event)
  BY EventsOfNode
<1>2. evs \o (Started(n) \o Ended(n, words, o)) = (evs \o Started(n)) \o Ended(n, words, o)
  BY <1>1, InTurn
<1>3. ASSUME NEW p \in Piece
      PROVE  /\ Token(n, p) \in Seq(Event) /\ (evs \o Started(n)) \o Token(n, p) \in Seq(Event)
             /\ evs \o (Started(n) \o Token(n, p) \o Ended(n, words, o))
                  = ((evs \o Started(n)) \o Token(n, p)) \o Ended(n, words, o)
  <2>1. Token(n, p) \in Seq(Event)
    BY EventsOfNode DEF Piece
  <2>2. PICK a, b, c \in Seq(Event) : a = Started(n) /\ b = Token(n, p) /\ c = Ended(n, words, o)
    BY <1>1, <2>1
  <2>3. evs \o a \in Seq(Event) /\ a \o b \in Seq(Event)
    BY InTurn
  <2>4. (evs \o a) \o b \in Seq(Event) /\ evs \o (a \o b) = (evs \o a) \o b
    BY <2>3, InTurn
  <2>5. evs \o ((a \o b) \o c) = (evs \o (a \o b)) \o c
    BY <2>3, InTurn
  <2> QED
    BY <2>1, <2>2, <2>4, <2>5
<1> QED
  BY <1>2, <1>3

\* All the events of a node that is done in one step.
LEMMA ReachesNode ==
  ASSUME NEW evs \in Seq(Event), NEW n \in Node, NEW words \in Seq(Piece), NEW o \in BOOLEAN,
         NEW s, NEW t \in ReaderState, Reaches(evs, s, t),
         NEW t1 \in ReaderState, Allowed(t, t1),
         Handle(Boundary("on_chain_start", n, <<>>, FALSE), t) = t1,
         NEW u \in ReaderState, Allowed(t1, u),
         Handle(Boundary("on_chain_end", n, words, o), t1) = u
  PROVE  /\ Reaches(evs \o (Started(n) \o Ended(n, words, o)), s, u)
         /\ \A p \in Piece :
              Handle(Nested("on_chat_model_stream", n, <<p>>), t1) = t1 =>
                Reaches(evs \o (Started(n) \o Token(n, p) \o Ended(n, words, o)), s, u)
<1> DEFINE a == Started(n)
           c == Ended(n, words, o)
<1>1. a \in Seq(Event) /\ c \in Seq(Event)
  BY EventsOfNode
<1>2. Reaches(evs \o a, s, t1) /\ evs \o a \in Seq(Event)
  BY <1>1, ReachesStarted, ConcatProperties
<1> HIDE DEF a
<1>3. /\ evs \o (a \o c) = (evs \o a) \o c
      /\ \A p \in Piece : /\ (evs \o a) \o Token(n, p) \in Seq(Event)
                          /\ evs \o (a \o Token(n, p) \o c) = ((evs \o a) \o Token(n, p)) \o c
  BY EventsInTurn DEF a
<1>4. ASSUME NEW p \in Piece, Handle(Nested("on_chat_model_stream", n, <<p>>), t1) = t1
      PROVE  Reaches(evs \o (a \o Token(n, p) \o c), s, u)
  <2> DEFINE b == Token(n, p)
  <2>2. Allowed(t1, t1)
    BY DEF Allowed
  <2>3. Reaches((evs \o a) \o b, s, t1)
    BY <1>2, <1>4, <2>2, ReachesToken
  <2> HIDE DEF b, c
  <2>4. (evs \o a) \o b \in Seq(Event) /\ evs \o (a \o b \o c) = ((evs \o a) \o b) \o c
    BY <1>3 DEF b
  <2>5. Reaches(((evs \o a) \o b) \o c, s, u)
    BY <2>3, <2>4, ReachesEnded DEF c
  <2> QED
    BY <2>4, <2>5 DEF b, c
<1>5. Reaches((evs \o a) \o c, s, u)
  BY <1>2, ReachesEnded
<1> QED
  BY <1>3, <1>4, <1>5 DEF a

\* The answer of a node is the history of the response that listens.
LEMMA StoredByNode ==
  ASSUME TypeOK, heard, next # "end", stored = <<>>,
         stored' = IF heard /\ Len(messages') > Len(messages) /\ next # "end"
                   THEN <<Last(messages')>> ELSE stored
  PROVE  /\ messages' = messages => stored' = <<>>
         /\ \A m \in Message : messages' = Append(messages, m) => stored' = <<m>>
<1>1. Len(messages) \in Nat
  BY LenProperties DEF TypeOK
<1>2. messages' = messages => stored' = <<>>
  BY <1>1
<1>3. ASSUME NEW m \in Message, messages' = Append(messages, m) PROVE stored' = <<m>>
  <2>1. Last(messages') = m
    BY <1>3, Appended DEF TypeOK
  <2>2. Len(messages') = Len(messages) + 1
    BY <1>3, AppendProperties DEF TypeOK
  <2>3. Len(messages') > Len(messages)
    BY <1>1, <2>2
  <2> QED
    BY <2>1, <2>3
<1> QED
  BY <1>2, <1>3

\* A run has a listener, who stands at s and will be at t when all events of
\* the run so far are read.
Listening(s, t) ==
  /\ GraphInv /\ heard /\ NobodyNext /\ stored = <<>>
  /\ s \in ReaderState /\ t \in ReaderState
  /\ Reaches(events, s, t) /\ Telling(t)

HistoryKept ==
  stored' = IF heard /\ Len(messages') > Len(messages) /\ next # "end"
            THEN <<Last(messages')>> ELSE stored

Told(s) == \E u \in ReaderState : Reaches(events', s, u) /\ Stage(u)'

\* Before the generate node, nothing will have been sent.
LEMMA Silence ==
  ASSUME NEW s, NEW t, Listening(s, t), ~ (next = "generate" /\ call > 0)
  PROVE  t = Fresh /\ call = 0 /\ draft = <<>> /\ events \in Seq(Event)
<1>1. t = Fresh
  BY Zenon DEF Listening, Telling
<1>2. call = 0
  BY GraphAssumption DEF Listening, GraphInv, CallsCounted, TypeOK
<1> QED
  BY <1>1, <1>2 DEF Listening, GraphInv, CallsCounted, TypeOK

\* A node that says nothing to the user.
LEMMA SilentNode ==
  ASSUME NEW s, NEW t, Listening(s, t), t = Fresh, HistoryKept,
         Reaches(events', s, Fresh), next # "end", next' # "end", call' = 0,
         UNCHANGED <<messages, pending, heard>>
  PROVE  Told(s)
<1>1. stored' = <<>>
  BY StoredByNode DEF Listening, HistoryKept, GraphInv
<1>2. NobodyNext' /\ heard'
  BY DEF Listening, NobodyNext
<1>3. Telling(Fresh)'
  BY DEF Telling
<1>4. Stage(Fresh)'
  BY <1>1, <1>2, <1>3 DEF Stage
<1> QED
  BY <1>4, FreshReader DEF Told

\* A node that answers and ends the run.
LEMMA AnsweringNode ==
  ASSUME NEW s, NEW t, Listening(s, t), HistoryKept, NEW u \in ReaderState,
         Reaches(events', s, u), next # "end", next' = "end",
         NEW m \in Message, messages' = Append(messages, m), Matches(u, m),
         UNCHANGED <<pending, heard>>
  PROVE  Told(s)
<1>1. stored' = <<m>>
  BY StoredByNode DEF Listening, HistoryKept, GraphInv
<1>2. <<m>>[1] = m
  OBVIOUS
<1>3. RunOver'
  BY DEF Listening, NobodyNext, RunOver
<1>4. Stage(u)'
  BY <1>1, <1>2, <1>3 DEF Stage
<1> QED
  BY <1>4 DEF Told

LEMMA CannedMatches ==
  ASSUME NEW kind \in {"chat", "failure"}, NEW q
  PROVE  Matches([started |-> TRUE, streamed |-> FALSE, type |-> kind, text |-> Canned],
                 [kind |-> kind, query |-> q, text |-> Canned, cites |-> {}])
<1>1. Canned \in Seq(Piece) /\ <<>> \in Seq(Piece) /\ <<>> \o Canned = Canned
  BY Values, ConcatEmptySeq
<1>2. IsSuffix(Canned, Canned)
  BY <1>1, Beginnings
<1>3. DOMAIN Canned = {1}
  BY DEF Canned
<1>4. IsInjective(Canned)
  BY <1>3 DEF IsInjective
<1>5. TypeOfKind(kind) = kind
  BY DEF TypeOfKind
<1> QED
  BY <1>2, <1>4, <1>5 DEF Matches

LEMMA IntentNodeTold ==
  ASSUME NEW s, NEW t, Listening(s, t), HistoryKept, IntentNode
  PROVE  Told(s)
<1>1. /\ next = "intent" /\ next' = ShouldRetrieve(objective')
      /\ UNCHANGED <<call, draft, pending, heard, runs, searched>>
  BY DEF IntentNode, writing, queue
<1>2. t = Fresh /\ call = 0 /\ Fresh \in ReaderState /\ events \in Seq(Event) /\ Reaches(events, s, Fresh)
  BY <1>1, Silence DEF Listening
<1>3. LastUserMessage \in Query
  BY <1>1, QuestionOfRun DEF Listening
<1>4. <<1, 1>> \in Piece /\ "intent" \in Node /\ <<>> \in Seq(Piece) /\ Canned \in Seq(Piece)
  BY Values DEF Piece, Node
<1>5. /\ Allowed(Fresh, Fresh)
      /\ Handle(Boundary("on_chain_start", "intent", <<>>, FALSE), Fresh) = Fresh
      /\ Handle(Nested("on_chat_model_stream", "intent", << <<1, 1>> >>), Fresh) = Fresh
      /\ Handle(Boundary("on_chain_end", "intent", <<>>, TRUE), Fresh) = Fresh
  BY <1>4, FreshReader
<1>6. CASE /\ objective' = [query |-> LastUserMessage, round |-> 0]
           /\ UNCHANGED messages
           /\ Emit(Started("intent") \o Token("intent", <<1, 1>>) \o Ended("intent", <<>>, TRUE))
  <2>1. next' = "retrieve"
    <3>1. objective' # NoObjective
      BY <1>3, <1>6, Values
    <3> QED
      BY <1>1, <3>1 DEF ShouldRetrieve
  <2>2. events' = events \o (Started("intent") \o Token("intent", <<1, 1>>) \o Ended("intent", <<>>, TRUE))
    BY <1>6 DEF Emit, Listening
  <2>3. Reaches(events', s, Fresh)
    BY <1>2, <1>4, <1>5, <2>2, ReachesNode
  <2> QED
    BY <1>1, <1>2, <1>6, <2>1, <2>3, SilentNode
<1>7. CASE /\ objective' = NoObjective
           /\ Say("chat", LastUserMessage, Canned, {})
           /\ Emit(Started("intent") \o Token("intent", <<1, 1>>) \o Ended("intent", Canned, FALSE))
  <2> DEFINE u == [started |-> TRUE, streamed |-> FALSE, type |-> "chat", text |-> Canned]
             m == [kind |-> "chat", query |-> LastUserMessage, text |-> Canned, cites |-> {}]
  <2>1. next' = "end" /\ messages' = Append(messages, m)
    BY <1>1, <1>7 DEF ShouldRetrieve, Say
  <2>2. events' = events \o (Started("intent") \o Token("intent", <<1, 1>>) \o Ended("intent", Canned, FALSE))
    BY <1>7 DEF Emit, Listening
  <2>3. /\ u \in ReaderState /\ Allowed(Fresh, u)
        /\ Handle(Boundary("on_chain_end", "intent", Canned, FALSE), Fresh) = u
    BY ReaderOfWhole
  <2>4. Matches(u, m)
    BY CannedMatches
  <2>5. m \in Message
    BY <1>3, Values DEF Message, Kind
  <2> HIDE DEF u, m
  <2>6. Reaches(events', s, u)
    BY <1>2, <1>4, <1>5, <2>2, <2>3, ReachesNode
  <2> QED
    BY <1>1, <2>1, <2>3, <2>4, <2>5, <2>6, AnsweringNode
<1> QED
  BY <1>6, <1>7 DEF IntentNode

LEMMA SearchingNodesTold ==
  ASSUME NEW s, NEW t, Listening(s, t), HistoryKept, RetrieverNode \/ RewriteObjectiveNode
  PROVE  Told(s)
<1>1. <<1, 1>> \in Piece /\ <<>> \in Seq(Piece)
  BY DEF Piece
<1>2. CASE RetrieverNode
  <2>1. /\ next = "retrieve" /\ next' = CheckRelevance(is_relevant', retrieval_attempts')
        /\ events' = events \o (Started("retrieve") \o Ended("retrieve", <<>>, FALSE))
        /\ UNCHANGED <<messages, call, pending, heard>>
    BY <1>2 DEF RetrieverNode, writing, queue, Emit, Listening
  <2>2. next' # "end"
    BY <2>1 DEF CheckRelevance
  <2>3. t = Fresh /\ call' = 0 /\ events \in Seq(Event) /\ Fresh \in ReaderState /\ Reaches(events, s, Fresh)
    BY <2>1, Silence DEF Listening
  <2>4. /\ "retrieve" \in Node /\ Allowed(Fresh, Fresh)
        /\ Handle(Boundary("on_chain_start", "retrieve", <<>>, FALSE), Fresh) = Fresh
        /\ Handle(Boundary("on_chain_end", "retrieve", <<>>, FALSE), Fresh) = Fresh
    BY FreshReader DEF Node
  <2>5. Reaches(events', s, Fresh)
    BY <1>1, <2>1, <2>3, <2>4, ReachesNode
  <2> QED
    BY <2>1, <2>2, <2>3, <2>5, SilentNode
<1>3. CASE RewriteObjectiveNode
  <2>1. /\ next = "rewrite_objective" /\ next' = "retrieve"
        /\ events' = events \o (Started("rewrite_objective") \o Token("rewrite_objective", <<1, 1>>)
                                  \o Ended("rewrite_objective", <<>>, TRUE))
        /\ UNCHANGED <<messages, call, pending, heard>>
    BY <1>3 DEF RewriteObjectiveNode, writing, queue, Emit, Listening
  <2>2. t = Fresh /\ call' = 0 /\ events \in Seq(Event) /\ Fresh \in ReaderState /\ Reaches(events, s, Fresh)
    BY <2>1, Silence DEF Listening
  <2>3. /\ "rewrite_objective" \in Node /\ Allowed(Fresh, Fresh)
        /\ Handle(Boundary("on_chain_start", "rewrite_objective", <<>>, FALSE), Fresh) = Fresh
        /\ Handle(Nested("on_chat_model_stream", "rewrite_objective", << <<1, 1>> >>), Fresh) = Fresh
        /\ Handle(Boundary("on_chain_end", "rewrite_objective", <<>>, TRUE), Fresh) = Fresh
    BY <1>1, FreshReader DEF Node
  <2>4. Reaches(events', s, Fresh)
    BY <1>1, <2>1, <2>2, <2>3, ReachesNode
  <2> QED
    BY <2>1, <2>2, <2>4, SilentNode
<1> QED
  BY <1>2, <1>3

\* The generate node at work: the reader has heard of it, and what it will have
\* passed on ends with the draft.
LEMMA WritingNode ==
  ASSUME NEW s, NEW t, Listening(s, t), HistoryKept, NEW u \in ReaderState,
         Reaches(events', s, u), next = "generate", next' = "generate", call' > 0,
         UNCHANGED <<messages, pending, heard>>, Telling(u)'
  PROVE  Told(s)
<1>1. stored' = <<>>
  BY StoredByNode DEF Listening, HistoryKept, GraphInv
<1>2. NobodyNext' /\ heard'
  BY DEF Listening, NobodyNext
<1>3. Stage(u)'
  BY <1>1, <1>2 DEF Stage
<1> QED
  BY <1>3 DEF Told

LEMMA GeneratorBeginsTold ==
  ASSUME NEW s, NEW t, Listening(s, t), HistoryKept, GeneratorBegins
  PROVE  Told(s)
<1> DEFINE u == [started |-> TRUE, streamed |-> FALSE, type |-> "report", text |-> <<>>]
<1>1. /\ next = "generate" /\ next' = "generate" /\ call = 0 /\ call' = 1 /\ draft' = draft
      /\ events' = events \o Started("generate")
      /\ UNCHANGED <<messages, pending, heard>>
  BY DEF GeneratorBegins, agentState, queue, Emit, Listening
<1>2. /\ t = Fresh /\ draft = <<>> /\ events \in Seq(Event) /\ Fresh \in ReaderState
      /\ Reaches(events, s, Fresh)
  BY <1>1, Silence DEF Listening
<1>3. /\ u \in ReaderState /\ Allowed(Fresh, u)
      /\ Handle(Boundary("on_chain_start", "generate", <<>>, FALSE), Fresh) = u
  BY ReaderOfReport
<1>4. Telling(u)'
  <2>1. <<>> \in Seq(Piece) /\ <<>> \o <<>> = <<>> /\ DOMAIN <<>> = {}
    OBVIOUS
  <2>2. \E front \in Seq(Piece) : u.text = front \o draft'
    BY <1>1, <1>2, <2>1
  <2>3. IsInjective(u.text)
    BY <2>1 DEF IsInjective
  <2> QED
    BY <1>1, <2>1, <2>2, <2>3 DEF Telling
<1> HIDE DEF u
<1>5. Reaches(events', s, u)
  <2>1. "generate" \in Node
    BY DEF Node
  <2> QED
    BY <1>1, <1>2, <1>3, <2>1, ReachesStarted
<1> QED
  BY <1>1, <1>3, <1>4, <1>5, WritingNode

LEMMA GeneratorRetriesTold ==
  ASSUME NEW s, NEW t, Listening(s, t), HistoryKept, GeneratorRetries
  PROVE  Told(s)
<1>1. /\ next = "generate" /\ next' = "generate" /\ call > 0 /\ call' = call + 1 /\ draft' = <<>>
      /\ call \in Nat
      /\ UNCHANGED <<messages, pending, heard, events>>
  BY GraphAssumption DEF GeneratorRetries, agentState, queue
<1>2. t \in ReaderState /\ Reaches(events', s, t)
  BY <1>1 DEF Listening
<1>3. /\ t.started /\ t.type = "report" /\ IsInjective(t.text)
      /\ \A i \in DOMAIN t.text : t.text[i][1] <= call
  BY <1>1 DEF Listening, Telling
<1>4. t.text \in Seq(Piece) /\ t.text = t.text \o <<>>
  <2>1. t.text \in Seq(Piece)
    BY <1>2 DEF ReaderState
  <2> QED
    BY <2>1, ConcatEmptySeq
<1>5. \A i \in DOMAIN t.text : /\ t.text[i][1] <= call + 1
                               /\ t.text[i][1] # call + 1
  <2> TAKE i \in DOMAIN t.text
  <2>1. t.text[i] \in Piece
    BY <1>4, LenProperties, ElementOfSeq
  <2>2. t.text[i][1] \in Nat
    BY <2>1 DEF Piece
  <2> QED
    BY <1>1, <1>3, <2>2
<1>6. Telling(t)'
  BY <1>1, <1>3, <1>4, <1>5 DEF Telling
<1> QED
  BY <1>1, <1>2, <1>6, WritingNode

\* A piece the LLM has not written before is appended.
LEMMA AppendedPiece ==
  ASSUME NEW words \in Seq(Piece), NEW c \in Nat, NEW k \in Nat, IsInjective(words),
         \A i \in DOMAIN words : words[i][1] <= c /\ (words[i][1] = c => words[i][2] <= k)
  PROVE  LET more == Append(words, <<c, k + 1>>)
         IN  /\ IsInjective(more)
             /\ \A i \in DOMAIN more : more[i][1] <= c /\ (more[i][1] = c => more[i][2] <= k + 1)
<1> DEFINE n == Len(words)
           p == <<c, k + 1>>
           more == Append(words, p)
<1>1. p \in Piece /\ p[1] = c /\ p[2] = k + 1
  BY DEF Piece
<1>2. /\ n \in Nat /\ DOMAIN words = 1..n /\ DOMAIN more = 1..(n + 1)
      /\ \A i \in 1..n : more[i] = words[i]
      /\ more[n + 1] = p
  <2> HIDE DEF p
  <2>1. /\ more \in Seq(Piece) /\ Len(more) = n + 1
        /\ \A i \in 1..n : more[i] = words[i]
        /\ more[n + 1] = p
    BY <1>1, AppendProperties
  <2> QED
    BY <2>1, LenProperties
<1>3. \A i \in 1..n : words[i] # p /\ words[i][1] \in Nat /\ words[i][2] \in Nat
  <2> TAKE i \in 1..n
  <2>1. words[i] \in Piece
    BY ElementOfSeq
  <2>2. words[i][1] \in Nat /\ words[i][2] \in Nat
    BY <2>1 DEF Piece
  <2>3. words[i] # p
    BY <1>1, <1>2, <2>2
  <2> QED
    BY <2>2, <2>3
<1> HIDE DEF n, p, more
<1>4. ASSUME NEW i \in 1..(n + 1), NEW j \in 1..(n + 1), more[i] = more[j]
      PROVE  i = j
  <2>1. CASE i \in 1..n /\ j \in 1..n
    BY <1>2, <1>4, <2>1 DEF IsInjective
  <2>2. CASE i = n + 1 \/ j = n + 1
    BY <1>2, <1>3, <1>4, <2>2
  <2> QED
    BY <1>2, <2>1, <2>2
<1>5. ASSUME NEW i \in 1..(n + 1)
      PROVE  more[i][1] <= c /\ (more[i][1] = c => more[i][2] <= k + 1)
  <2>1. CASE i \in 1..n
    BY <1>2, <1>3, <2>1
  <2>2. CASE i = n + 1
    BY <1>1, <1>2, <2>2
  <2> QED
    BY <1>2, <2>1, <2>2
<1> QED
  BY <1>2, <1>4, <1>5 DEF IsInjective, more, p

LEMMA GeneratorStreamsTold ==
  ASSUME NEW s, NEW t, Listening(s, t), HistoryKept, GeneratorStreams
  PROVE  Told(s)
<1>0. PICK p : p = <<call, Len(draft) + 1>>
  OBVIOUS
<1> DEFINE u == [started |-> TRUE, streamed |-> TRUE, type |-> t.type, text |-> Append(t.text, p)]
<1>1. /\ next = "generate" /\ next' = "generate" /\ call > 0 /\ call' = call
      /\ draft' = Append(draft, p) /\ events' = events \o Token("generate", p)
      /\ UNCHANGED <<messages, pending, heard>>
  BY <1>0 DEF GeneratorStreams, agentState, queue, Emit, Listening
<1>2. /\ call \in Nat /\ draft \in Seq(Piece) /\ Len(draft) \in Nat /\ events \in Seq(Event)
      /\ t \in ReaderState /\ Reaches(events, s, t)
  BY GraphAssumption, LenProperties DEF Listening, GraphInv, TypeOK
<1>3. p \in Piece
  BY <1>0, <1>2 DEF Piece
<1>4. /\ t.started /\ t.type = "report" /\ IsInjective(t.text)
      /\ \E front \in Seq(Piece) : t.text = front \o draft
      /\ \A i \in DOMAIN t.text : /\ t.text[i][1] <= call
                                  /\ t.text[i][1] = call => t.text[i][2] <= Len(draft)
  BY <1>1 DEF Listening, Telling
<1>5. PICK front \in Seq(Piece) : t.text = front \o draft
  BY <1>4
<1>6. t.text \in Seq(Piece)
  BY <1>2 DEF ReaderState
<1>7. Append(t.text, p) = front \o Append(draft, p) /\ Append(draft, p) \in Seq(Piece)
      /\ Len(Append(draft, p)) = Len(draft) + 1
  <2>1. /\ <<p>> \in Seq(Piece) /\ Append(draft, p) = draft \o <<p>>
        /\ Append(t.text, p) = t.text \o <<p>>
        /\ Append(draft, p) \in Seq(Piece) /\ Len(Append(draft, p)) = Len(draft) + 1
    BY <1>2, <1>3, <1>6, AppendIsConcat, AppendProperties
  <2>2. (front \o draft) \o <<p>> = front \o (draft \o <<p>>)
    BY <1>2, <2>1, ConcatAssociative
  <2> QED
    BY <1>5, <2>1, <2>2
<1>8. /\ IsInjective(Append(t.text, p))
      /\ \A i \in DOMAIN Append(t.text, p) :
           /\ Append(t.text, p)[i][1] <= call
           /\ Append(t.text, p)[i][1] = call => Append(t.text, p)[i][2] <= Len(draft) + 1
  BY <1>0, <1>2, <1>4, <1>6, AppendedPiece
<1>9. /\ u \in ReaderState /\ Allowed(t, u)
      /\ Handle(Nested("on_chat_model_stream", "generate", <<p>>), t) = u
  BY <1>2, <1>3, <1>4, ReaderOfReport
<1>10. Telling(u)'
  <2>1. u.started /\ u.type = "report" /\ u.text = Append(t.text, p)
    BY <1>4
  <2> HIDE DEF u
  <2>2. \E f \in Seq(Piece) : u.text = f \o draft'
    BY <1>1, <1>7, <2>1
  <2> QED
    BY <1>1, <1>7, <1>8, <2>1, <2>2 DEF Telling
<1> HIDE DEF u
<1>11. Reaches(events', s, u)
  <2>1. "generate" \in Node
    BY DEF Node
  <2> QED
    BY <1>1, <1>2, <1>3, <1>9, <2>1, ReachesToken
<1> QED
  BY <1>1, <1>9, <1>10, <1>11, WritingNode

LEMMA GeneratorNodeTold ==
  ASSUME NEW s, NEW t, Listening(s, t), HistoryKept, GeneratorNode
  PROVE  Told(s)
<1> DEFINE u == [started |-> TRUE, streamed |-> FALSE, type |-> t.type, text |-> t.text]
<1>1. /\ next = "generate" /\ next' = "end" /\ call > 0
      /\ UNCHANGED <<pending, heard>>
  BY DEF GeneratorNode, queue
<1>2. /\ draft \in Seq(Piece) /\ Canned \in Seq(Piece) /\ events \in Seq(Event)
      /\ t \in ReaderState /\ Reaches(events, s, t) /\ "generate" \in Node
  BY Values DEF Listening, GraphInv, TypeOK, Node
<1>3. /\ t.started /\ t.type = "report" /\ IsInjective(t.text)
      /\ \E front \in Seq(Piece) : t.text = front \o draft
  BY <1>1 DEF Listening, Telling
<1>4. objective.query \in Query /\ retrieved_docs \in SUBSET Doc
  BY <1>1, Values DEF Listening, GraphInv, TypeOK, ObjectiveOfQuestion
<1>5. \A words \in Seq(Piece) :
        /\ u \in ReaderState /\ Allowed(t, u)
        /\ Handle(Boundary("on_chain_end", "generate", words, FALSE), t) = u
  BY <1>2, <1>3, ReaderOfReport
<1>6. u.type = "report" /\ u.text = t.text
  BY <1>3
<1> HIDE DEF u
<1>7. \A words \in Seq(Piece) :
        events' = events \o Ended("generate", words, FALSE) => Reaches(events', s, u)
  BY <1>2, <1>5, ReachesEnded
<1>8. CASE /\ Say("report", objective.query, draft, retrieved_docs)
           /\ Emit(Ended("generate", draft, FALSE))
  <2> DEFINE m == [kind |-> "report", query |-> objective.query, text |-> draft, cites |-> retrieved_docs]
  <2>1. /\ messages' = Append(messages, m)
        /\ events' = events \o Ended("generate", draft, FALSE)
    BY <1>8 DEF Say, Emit, Listening
  <2>2. m \in Message
    BY <1>2, <1>4 DEF Message, Kind
  <2>3. IsSuffix(draft, t.text)
    BY <1>2, <1>3, Beginnings
  <2>4. Matches(u, m)
    BY <1>3, <1>6, <2>3 DEF Matches, TypeOfKind
  <2> HIDE DEF m
  <2> QED
    BY <1>1, <1>2, <1>5, <1>7, <2>1, <2>2, <2>4, AnsweringNode
<1>9. CASE /\ Say(IF retrieved_docs # {} THEN "write-up failed" ELSE "insufficient",
                  objective.query, Canned, retrieved_docs)
           /\ Emit(Ended("generate", Canned, FALSE))
  <2> DEFINE m == [kind |-> "write-up failed", query |-> objective.query, text |-> Canned,
                   cites |-> retrieved_docs]
  <2>1. retrieved_docs # {}
    BY <1>1 DEF Listening, GraphInv, DocsOfObjective
  <2>2. /\ messages' = Append(messages, m)
        /\ events' = events \o Ended("generate", Canned, FALSE)
    BY <1>9, <2>1 DEF Say, Emit, Listening
  <2>3. m \in Message
    BY <1>2, <1>4 DEF Message, Kind
  <2>4. Matches(u, m)
    BY <1>3, <1>6 DEF Matches, TypeOfKind
  <2> HIDE DEF m
  <2> QED
    BY <1>1, <1>2, <1>5, <1>7, <2>2, <2>3, <2>4, AnsweringNode
<1> QED
  BY <1>8, <1>9 DEF GeneratorNode

LEMMA FallbackNodeTold ==
  ASSUME NEW s, NEW t, Listening(s, t), HistoryKept, FallbackNode
  PROVE  Told(s)
<1> DEFINE t1 == [started |-> TRUE, streamed |-> FALSE, type |-> "failure", text |-> <<>>]
           u == [started |-> TRUE, streamed |-> FALSE, type |-> "failure", text |-> Canned]
           m == [kind |-> "failure", query |-> objective.query, text |-> Canned, cites |-> {}]
<1>1. /\ next = "fallback" /\ next' = "end" /\ messages' = Append(messages, m)
      /\ events' = events \o (Started("fallback") \o Ended("fallback", Canned, FALSE))
      /\ UNCHANGED <<pending, heard>>
  BY DEF FallbackNode, queue, Say, Emit, Listening
<1>2. /\ t = Fresh /\ events \in Seq(Event) /\ Fresh \in ReaderState
      /\ Reaches(events, s, Fresh)
  BY <1>1, Silence DEF Listening
<1>3. /\ t1 \in ReaderState /\ Allowed(Fresh, t1)
      /\ Handle(Boundary("on_chain_start", "fallback", <<>>, FALSE), Fresh) = t1
      /\ u \in ReaderState /\ Allowed(t1, u)
      /\ Handle(Boundary("on_chain_end", "fallback", Canned, FALSE), t1) = u
  BY ReaderOfWhole
<1>4. Matches(u, m)
  BY CannedMatches
<1>5. m \in Message /\ Canned \in Seq(Piece) /\ "fallback" \in Node
  <2>1. objective.query \in Query
    BY <1>1, Values DEF Listening, GraphInv, TypeOK, ObjectiveOfQuestion
  <2> QED
    BY <2>1, Values DEF Message, Kind, Node
<1> HIDE DEF t1, u, m
<1>6. Reaches(events', s, u)
  BY <1>1, <1>2, <1>3, <1>5, ReachesNode
<1> QED
  BY <1>1, <1>3, <1>4, <1>5, <1>6, AnsweringNode

LEMMA ExecutingNode ==
  ASSUME NEW s, NEW t, Listening(s, t), HistoryKept, ExecuteNode
  PROVE  Told(s)
BY IntentNodeTold, SearchingNodesTold, GeneratorBeginsTold, GeneratorStreamsTold,
   GeneratorRetriesTold, GeneratorNodeTold, FallbackNodeTold DEF ExecuteNode

-----------------------------------------------------------------------------
(* Each action keeps StreamInv *)

LEMMA AskKeepsInv ==
  ASSUME StreamInv, NEW q \in Query, Ask(q)
  PROVE  StreamInv'
<1>1. /\ phase \in {"idle", "closed"} /\ phase' = "opening" /\ asked' = q /\ tries' = 0
      /\ emitted_start' = FALSE /\ streamed_tokens' = FALSE /\ response_type' = "none"
      /\ text' = <<>> /\ outcome' = "none" /\ stored' = <<>>
      /\ UNCHANGED <<agentState, next, writing, pending, heard, runs, events, searched>>
  BY DEF Ask, graph, queue
<1>2. GraphInv'
  BY <1>1, ThreadUntouched DEF StreamInv, GraphInv, TypeOK
<1>3. StreamTypeOK'
  <2>1. <<>> \in Seq(Piece) /\ <<>> \in Seq(Message) /\ Len(<<>>) <= 1 /\ 0 \in 0..(StreamAttempts - 1)
    BY StreamAssumption
  <2>2. /\ TypeOK' /\ phase' \in {"idle", "opening", "open", "closed"}
        /\ asked' \in Query \cup {NoQuery}
        /\ response_type' \in {"none", "chat", "report", "failure"}
        /\ outcome' \in {"none", "done", "error", "gone"}
        /\ emitted_start' \in BOOLEAN /\ streamed_tokens' \in BOOLEAN
    BY <1>1, <1>2 DEF GraphInv
  <2>3. text' \in Seq(Piece) /\ tries' \in 0..(StreamAttempts - 1)
    BY <1>1, <2>1, Zenon
  <2>4. stored' \in Seq(Message) /\ Len(stored') <= 1
    BY <1>1, <2>1, Zenon
  <2> QED
    BY <2>2, <2>3, <2>4, Zenon DEF StreamTypeOK
<1>4. Now' = Fresh
  BY <1>1 DEF Now, Fresh
<1>5. events' = <<>> /\ (heard' => next' = "end") /\ NobodyNext'
  BY <1>1 DEF StreamInv, NobodyNext
<1> QED
  BY <1>1, <1>2, <1>3, <1>4, <1>5 DEF StreamInv

\* The run that is asked for is the only one listened to, or not at all.
LEMMA Queued ==
  ASSUME TypeOK, NEW q \in Query, NEW b \in BOOLEAN, Enqueue(q, b), NobodyNext
  PROVE  /\ b => ~ NobodyNext' /\ OneHeard'
         /\ ~ b => NobodyNext'
<1> DEFINE n == Len(pending)
           run == [query |-> q, heard |-> b]
<1>1. /\ n \in Nat /\ DOMAIN pending = 1..n /\ DOMAIN pending' = 1..(n + 1)
      /\ \A i \in 1..n : pending'[i] = pending[i]
      /\ pending'[n + 1] = run
  <2> HIDE DEF run
  <2>1. run \in [query : Query, heard : BOOLEAN]
    BY DEF run
  <2>2. /\ pending' \in Seq([query : Query, heard : BOOLEAN]) /\ Len(pending') = n + 1
        /\ \A i \in 1..n : pending'[i] = pending[i]
        /\ pending'[n + 1] = run
    BY <2>1, AppendProperties DEF TypeOK, Enqueue, run
  <2> QED
    BY <2>2, LenProperties DEF TypeOK
<1>2. run.heard = b
  OBVIOUS
<1> HIDE DEF n, run
<1>3. \A i \in 1..(n + 1) : i # n + 1 => ~ pending'[i].heard
  BY <1>1 DEF NobodyNext
<1>4. n + 1 \in 1..(n + 1)
  BY <1>1
<1> QED
  BY <1>1, <1>2, <1>3, <1>4 DEF NobodyNext, OneHeard

LEMMA OpenRunKeepsInv ==
  ASSUME StreamInv, OpenRun
  PROVE  StreamInv'
<1>1. /\ phase = "opening" /\ phase' = "open" /\ Enqueue(asked, TRUE)
      /\ UNCHANGED <<agentState, next, writing, heard, events, searched>>
      /\ UNCHANGED <<asked, tries, emitted_start, streamed_tokens, response_type, text,
                     outcome, stored>>
  BY DEF OpenRun, reader
<1>2. /\ asked \in Query /\ events = <<>> /\ (heard => next = "end") /\ NobodyNext
      /\ Now = Fresh /\ stored = <<>> /\ outcome = "none"
  BY <1>1 DEF StreamInv
<1>3. GraphInv'
  BY <1>1, <1>2, EnqueueKeepsInv DEF StreamInv
<1>4. StreamTypeOK'
  BY <1>1, <1>3, Zenon DEF StreamInv, StreamTypeOK, GraphInv
<1>5. ~ NobodyNext' /\ OneHeard'
  BY <1>1, <1>2, Queued DEF StreamInv, GraphInv
<1>6. Now' = Now
  BY <1>1 DEF Now
<1>7. Reaches(events', Now', Fresh)
  BY <1>1, <1>2, <1>6, FreshReader, ReachesNothing
<1>8. Stage(Fresh)'
  BY <1>1, <1>2, <1>5 DEF Stage
<1>9. Fresh \in ReaderState
  BY FreshReader
<1> QED
  BY <1>1, <1>2, <1>3, <1>4, <1>7, <1>8, <1>9 DEF StreamInv

LEMMA OpenRunFailsKeepsInv ==
  ASSUME StreamInv, OpenRunFails
  PROVE  StreamInv'
<1>1. /\ phase = "opening"
      /\ UNCHANGED <<agentState, next, writing, events, searched>>
      /\ UNCHANGED <<asked, emitted_start, streamed_tokens, response_type, text, stored>>
      /\ \/ Enqueue(asked, FALSE) /\ UNCHANGED heard
         \/ UNCHANGED <<pending, heard, runs>>
      /\ \/ /\ tries + 1 < StreamAttempts /\ tries' = tries + 1
            /\ UNCHANGED <<phase, outcome>>
         \/ phase' = "closed" /\ outcome' = "error" /\ UNCHANGED tries
  BY DEF OpenRunFails, reader, queue
<1>2. /\ asked \in Query /\ events = <<>> /\ (heard => next = "end") /\ NobodyNext
      /\ Now = Fresh /\ stored = <<>> /\ outcome = "none"
  BY <1>1 DEF StreamInv
<1>3. GraphInv' /\ heard' = heard /\ NobodyNext'
  <2>1. CASE Enqueue(asked, FALSE) /\ UNCHANGED heard
    BY <1>1, <1>2, <2>1, EnqueueKeepsInv, Queued DEF StreamInv, GraphInv
  <2>2. CASE UNCHANGED <<pending, heard, runs>>
    <3>1. GraphInv'
      BY <1>1, <2>2, ThreadUntouched DEF StreamInv, GraphInv, TypeOK
    <3> QED
      BY <1>2, <2>2, <3>1 DEF NobodyNext
  <2> QED
    BY <1>1, <2>1, <2>2
<1>4. tries' \in 0..(StreamAttempts - 1)
  BY <1>1, StreamAssumption DEF StreamInv, StreamTypeOK
<1>5. /\ phase' \in {"opening", "closed"} /\ outcome' \in {"none", "error"}
      /\ phase' # "closed" => outcome' = "none"
  BY <1>1, <1>2
<1>6. StreamTypeOK'
  BY <1>1, <1>3, <1>4, <1>5, Zenon DEF StreamInv, StreamTypeOK, GraphInv
<1>7. Now' = Fresh
  BY <1>1, <1>2 DEF Now
<1>8. next' = next
  BY <1>1
<1> QED
  BY <1>1, <1>2, <1>3, <1>5, <1>6, <1>7, <1>8 DEF StreamInv

LEMMA ReadingKeepsInv ==
  ASSUME StreamInv, HandleNodeStart \/ HandleToken \/ HandleNodeEnd \/ HandleNested
  PROVE  StreamInv'
<1>1. /\ phase = "open" /\ events # <<>> /\ events' = Tail(events)
      /\ Now' = Handle(Head(events), Now)
      /\ UNCHANGED <<agentState, next, writing, queue, searched,
                     phase, asked, tries, outcome, stored>>
  BY ReadingHandles DEF StreamInv
<1>2. PICK t \in ReaderState : Reaches(events, Now, t) /\ Stage(t)
  BY <1>1 DEF StreamInv
<1>3. events \in Seq(Event) /\ events' \in Seq(Event)
  BY <1>1, HeadTailProperties DEF StreamInv, GraphInv, TypeOK
<1>4. Now' \in ReaderState /\ Reaches(events', Now', t)
  BY <1>1, <1>2, <1>3, ReachesAfterHead
<1>5. UNCHANGED <<pending, heard, runs, call, draft>>
  BY <1>1 DEF queue, writing
<1>6. GraphInv'
  BY <1>1, <1>3, <1>5, ThreadUntouched DEF StreamInv, GraphInv, TypeOK
<1>7. StreamTypeOK'
  <2>1. /\ emitted_start' \in BOOLEAN /\ streamed_tokens' \in BOOLEAN
        /\ response_type' \in {"none", "chat", "report", "failure"} /\ text' \in Seq(Piece)
    BY <1>4 DEF Now, ReaderState
  <2> QED
    BY <1>1, <1>6, <2>1, Zenon DEF StreamInv, StreamTypeOK, GraphInv
<1>8. Stage(t)'
  BY <1>1, <1>2, <1>5 DEF Stage, Telling, NobodyNext, OneHeard, RunOver
<1>9. asked' \in Query /\ outcome' = "none"
  BY <1>1 DEF StreamInv
<1> QED
  BY <1>1, <1>2, <1>4, <1>6, <1>7, <1>8, <1>9 DEF StreamInv

LEMMA FinishStreamKeepsInv ==
  ASSUME StreamInv, FinishStream
  PROVE  StreamInv'
<1>1. /\ phase = "open" /\ RunOver /\ events = <<>> /\ phase' = "closed" /\ outcome' = "done"
      /\ UNCHANGED <<agentState, next, writing, pending, heard, runs, events, searched>>
      /\ UNCHANGED <<asked, tries, emitted_start, streamed_tokens, response_type, text, stored>>
  BY DEF FinishStream, graph, queue, reader
<1>2. PICK t \in ReaderState : Reaches(events, Now, t) /\ Stage(t)
  BY <1>1 DEF StreamInv
<1>3. t = Now
  BY <1>1, <1>2, ReachesNothingElse
<1>4. stored # <<>> => Matches(Now, stored[1])
  BY <1>1, <1>2, <1>3 DEF Stage, RunOver, NobodyNext
<1>5. Now' = Now
  BY <1>1 DEF Now
<1>6. GraphInv'
  BY <1>1, ThreadUntouched DEF StreamInv, GraphInv, TypeOK
<1>7. StreamTypeOK'
  BY <1>1, <1>6, Zenon DEF StreamInv, StreamTypeOK, GraphInv
<1>8. events' = <<>> /\ (heard' => next' = "end") /\ NobodyNext'
  BY <1>1 DEF RunOver, NobodyNext
<1> QED
  BY <1>1, <1>4, <1>5, <1>6, <1>7, <1>8 DEF StreamInv

LEMMA CutStreamKeepsInv ==
  ASSUME StreamInv, CutStream
  PROVE  StreamInv'
<1>1. /\ phase = "open" /\ phase' = "closed" /\ outcome' \in {"error", "gone"}
      /\ heard' = FALSE /\ events' = <<>>
      /\ pending' = [i \in DOMAIN pending |-> [pending[i] EXCEPT !.heard = FALSE]]
      /\ UNCHANGED <<agentState, next, writing, runs, searched>>
      /\ UNCHANGED <<asked, tries, emitted_start, streamed_tokens, response_type, text, stored>>
  BY DEF CutStream, reader
<1> DEFINE Run == [query : Query, heard : BOOLEAN]
           n == Len(pending)
<1>2. /\ n \in Nat /\ DOMAIN pending = 1..n /\ \A i \in 1..n : pending[i] \in Run
  BY LenProperties, ElementOfSeq DEF StreamInv, GraphInv, TypeOK
<1> HIDE DEF n
<1>3. \A i \in 1..n : /\ [pending[i] EXCEPT !.heard = FALSE] \in Run
                      /\ [pending[i] EXCEPT !.heard = FALSE].heard = FALSE
  BY <1>2
<1> HIDE DEF Run
<1>4. pending' \in [1..n -> Run] /\ \A i \in 1..n : pending'[i].heard = FALSE
  BY <1>1, <1>2, <1>3
<1>5. pending' \in Seq(Run) /\ NobodyNext'
  BY <1>2, <1>4 DEF NobodyNext
<1>6. GraphInv'
  <2>1. <<>> \in Seq(Event) /\ runs \in 0..MaxRuns
    BY DEF StreamInv, GraphInv, TypeOK
  <2> QED
    BY <1>1, <1>5, <2>1, ThreadUntouched DEF StreamInv, Run
<1>7. StreamTypeOK'
  BY <1>1, <1>6 DEF StreamInv, StreamTypeOK, GraphInv
<1> QED
  BY <1>1, <1>5, <1>6, <1>7 DEF StreamInv

\* With nobody listening to the run in execution, its nodes leave no event.
LEMMA UnheardStep ==
  ASSUME ~ heard \/ next = "end", ExecuteNode \/ Interrupt
  PROVE  ~ heard /\ next # "end" /\ UNCHANGED <<events, pending, heard>>
<1>1. next # "end" /\ UNCHANGED <<pending, heard>>
  BY DEF ExecuteNode, IntentNode, RetrieverNode, RewriteObjectiveNode, GeneratorBegins,
     GeneratorStreams, GeneratorRetries, GeneratorNode, FallbackNode, Interrupt, queue
<1>2. (\E evs : Emit(evs)) \/ UNCHANGED events
  <2>1. CASE ExecuteNode
    BY <2>1, Zenon DEF ExecuteNode, IntentNode, RetrieverNode, RewriteObjectiveNode,
       GeneratorBegins, GeneratorStreams, GeneratorRetries, GeneratorNode, FallbackNode
  <2>2. CASE Interrupt
    BY <2>2 DEF Interrupt
  <2> QED
    BY <2>1, <2>2
<1>3. UNCHANGED events
  BY <1>1, <1>2 DEF Emit
<1> QED
  BY <1>1, <1>3

\* The run that waited longest starts.
LEMMA Dequeued ==
  ASSUME TypeOK, BeginRun
  PROVE  /\ heard' = pending[1].heard /\ 1 \in DOMAIN pending
         /\ \A i \in DOMAIN pending' : i + 1 \in DOMAIN pending /\ i \in Nat \ {0}
                                       /\ pending'[i] = pending[i + 1]
         /\ \A i \in DOMAIN pending : i # 1 => i - 1 \in DOMAIN pending'
         /\ next = "end" /\ next' = "intent" /\ UNCHANGED events
         /\ heard' \in BOOLEAN
<1> DEFINE n == Len(pending)
<1>1. /\ pending # <<>> /\ heard' = Head(pending).heard /\ pending' = Tail(pending)
      /\ next = "end" /\ next' = "intent" /\ UNCHANGED events
  BY DEF BeginRun
<1>2. /\ n \in Nat /\ n # 0 /\ DOMAIN pending = 1..n /\ Head(pending) = pending[1]
      /\ Head(pending) \in [query : Query, heard : BOOLEAN]
      /\ Tail(pending) \in Seq([query : Query, heard : BOOLEAN])
      /\ Len(Tail(pending)) = n - 1
      /\ \A i \in 1..(n - 1) : Tail(pending)[i] = pending[i + 1]
  <2> DEFINE Run == [query : Query, heard : BOOLEAN]
  <2>1. pending \in Seq(Run)
    BY DEF TypeOK
  <2> HIDE DEF Run
  <2>2. n \in Nat /\ n # 0 /\ DOMAIN pending = 1..n
    BY <1>1, <2>1, EmptySeq, LenProperties
  <2>3. /\ Head(pending) = pending[1] /\ Head(pending) \in Run
        /\ Tail(pending) \in Seq(Run) /\ Len(Tail(pending)) = n - 1
        /\ \A i \in 1..(n - 1) : Tail(pending)[i] = pending[i + 1]
    BY <1>1, <2>1, <2>2, HeadTailProperties
  <2> QED
    BY <2>2, <2>3 DEF Run
<1>3. DOMAIN pending' = 1..(n - 1)
  BY <1>1, <1>2, LenProperties
<1> HIDE DEF n
<1> QED
  BY <1>1, <1>2, <1>3

\* A run that starts while nobody waits for one is a run that nobody hears.
LEMMA UnheardRun ==
  ASSUME TypeOK, BeginRun, NobodyNext
  PROVE  heard' = FALSE /\ NobodyNext'
<1>1. heard' = FALSE
  BY Dequeued DEF NobodyNext
<1>2. ASSUME NEW i \in DOMAIN pending' PROVE ~ pending'[i].heard
  <2>1. i + 1 \in DOMAIN pending /\ pending'[i] = pending[i + 1]
    BY Dequeued
  <2> QED
    BY <2>1 DEF NobodyNext
<1> QED
  BY <1>1, <1>2 DEF NobodyNext

\* Of the runs that wait one is heard: it starts, or goes on waiting.
LEMMA HeardRun ==
  ASSUME TypeOK, BeginRun, ~ NobodyNext, OneHeard
  PROVE  \/ heard' /\ NobodyNext'
         \/ heard' = FALSE /\ ~ NobodyNext' /\ OneHeard'
<1>1. PICK k \in DOMAIN pending : pending[k].heard
  BY DEF NobodyNext
<1>2. \A i \in DOMAIN pending : pending[i].heard => i = k
  BY <1>1 DEF OneHeard
<1>3. \A i \in DOMAIN pending' : i + 1 \in DOMAIN pending /\ i \in Nat \ {0} /\ pending'[i] = pending[i + 1]
  BY Dequeued
<1>4. \A i \in DOMAIN pending' : pending'[i].heard => i + 1 = k /\ i \in Nat \ {0}
  BY <1>2, <1>3
<1>5. OneHeard'
  <2> SUFFICES ASSUME NEW i \in DOMAIN pending', NEW j \in DOMAIN pending',
                      pending'[i].heard, pending'[j].heard
               PROVE  i = j
    BY DEF OneHeard
  <2> QED
    BY <1>4
<1>6. CASE k = 1
  <2>1. heard'
    BY <1>1, <1>6, Dequeued
  <2>2. NobodyNext'
    BY <1>4, <1>6 DEF NobodyNext
  <2> QED
    BY <2>1, <2>2
<1>7. CASE k # 1
  <2>1. heard' = FALSE
    <3>1. 1 \in DOMAIN pending /\ heard' = pending[1].heard /\ heard' \in BOOLEAN
      BY Dequeued
    <3> QED
      BY <1>2, <1>7, <3>1
  <2>2. k - 1 \in DOMAIN pending'
    BY <1>7, Dequeued
  <2>3. pending'[k - 1] = pending[k]
    <3>1. k \in Int
      BY LenProperties DEF TypeOK
    <3>2. (k - 1) + 1 = k
      BY <3>1
    <3> QED
      BY <1>3, <2>2, <3>2
  <2> QED
    BY <1>1, <1>5, <2>1, <2>2, <2>3 DEF NobodyNext
<1> QED
  BY <1>6, <1>7

LEMMA GraphStepKeepsTypes ==
  ASSUME StreamInv, GraphStep
  PROVE  /\ GraphInv' /\ StreamTypeOK'
         /\ UNCHANGED <<phase, asked, tries, outcome>> /\ Now' = Now /\ HistoryKept
<1>1. /\ UNCHANGED <<phase, asked, tries, outcome, emitted_start, streamed_tokens, response_type, text>>
      /\ HistoryKept
  BY DEF GraphStep, reader, HistoryKept
<1>2. GraphInv'
  BY GraphStepsKeepInv DEF GraphStep, StreamInv
<1>3. stored' \in Seq(Message) /\ Len(stored') <= 1
  <2>1. CASE heard /\ Len(messages') > Len(messages) /\ next # "end"
    <3>1. messages \in Seq(Message) /\ messages' \in Seq(Message)
      BY <1>2 DEF StreamInv, GraphInv, TypeOK
    <3>2. Len(messages') \in 1..Len(messages')
      BY <2>1, <3>1, LenProperties
    <3>3. Last(messages') \in Message
      BY <3>1, <3>2, ElementOfSeq DEF Last
    <3> DEFINE m == Last(messages')
    <3>4. stored' = <<m>>
      BY <1>1, <2>1 DEF HistoryKept
    <3> HIDE DEF m
    <3>5. <<m>> \in Seq(Message) /\ Len(<<m>>) <= 1
      BY <3>3 DEF m
    <3> QED
      BY <3>4, <3>5, Zenon
  <2>2. CASE ~ (heard /\ Len(messages') > Len(messages) /\ next # "end")
    BY <1>1, <2>2, Zenon DEF HistoryKept, StreamInv, StreamTypeOK
  <2> QED
    BY <2>1, <2>2
<1>4. StreamTypeOK'
  BY <1>1, <1>2, <1>3, Zenon DEF StreamInv, StreamTypeOK, GraphInv
<1> QED
  BY <1>1, <1>2, <1>4 DEF Now

\* A step of the graph that no response listens to.
LEMMA UnheardGraphStep ==
  ASSUME StreamInv, GraphStep, ~ heard \/ next = "end"
  PROVE  /\ UNCHANGED <<events, stored>>
         /\ NobodyNext => NobodyNext' /\ heard' = FALSE
         /\ ExecuteNode \/ Interrupt => UNCHANGED pending /\ heard' = FALSE
<1>1. ExecuteNode \/ Interrupt => ~ heard /\ next # "end" /\ UNCHANGED <<events, pending, heard>>
  BY UnheardStep
<1>2. BeginRun => UNCHANGED events /\ (NobodyNext => NobodyNext' /\ heard' = FALSE)
  BY Dequeued, UnheardRun DEF StreamInv, GraphInv
<1>3. UNCHANGED stored
  BY DEF GraphStep
<1>4. BeginRun \/ ExecuteNode \/ Interrupt
  BY DEF GraphStep, Execute
<1>5. heard \in BOOLEAN
  BY DEF StreamInv, GraphInv, TypeOK
<1> QED
  BY <1>1, <1>2, <1>3, <1>4, <1>5 DEF NobodyNext

LEMMA GraphStepOfOpenResponse ==
  ASSUME StreamInv, GraphStep, phase = "open"
  PROVE  \E t \in ReaderState : Reaches(events', Now, t) /\ Stage(t)'
<1>0. PICK s : s = Now
  OBVIOUS
<1>1. PICK t \in ReaderState : Reaches(events, s, t) /\ Stage(t)
  BY <1>0 DEF StreamInv
<1>2. TypeOK /\ heard \in BOOLEAN
  BY DEF StreamInv, GraphInv, TypeOK
<1>3. BeginRun \/ ExecuteNode \/ Interrupt
  BY DEF GraphStep, Execute
<1>4. \E u \in ReaderState : Reaches(events', s, u) /\ Stage(u)'
  <2>1. CASE ~ NobodyNext /\ OneHeard /\ (heard => next = "end") /\ t = Fresh /\ stored = <<>>
    <3>1. events' = events /\ stored' = <<>>
      BY <2>1, UnheardGraphStep
    <3>2. Stage(Fresh)'
      <4>1. CASE BeginRun
        <5>1. CASE heard' /\ NobodyNext'
          <6>1. next' = "intent"
            BY <1>2, <4>1, Dequeued
          <6>2. Telling(Fresh)'
            BY <6>1 DEF Telling
          <6> QED
            BY <3>1, <5>1, <6>1, <6>2 DEF Stage
        <5>2. CASE heard' = FALSE /\ ~ NobodyNext' /\ OneHeard'
          BY <3>1, <5>2 DEF Stage
        <5> QED
          BY <1>2, <2>1, <4>1, <5>1, <5>2, HeardRun
      <4>2. CASE ExecuteNode \/ Interrupt
        <5>1. UNCHANGED pending /\ heard' = FALSE
          BY <2>1, <4>2, UnheardGraphStep
        <5>2. ~ NobodyNext' /\ OneHeard'
          BY <2>1, <5>1 DEF NobodyNext, OneHeard
        <5> QED
          BY <3>1, <5>1, <5>2 DEF Stage
      <4> QED
        BY <1>3, <4>1, <4>2
    <3> QED
      BY <1>1, <2>1, <3>1, <3>2
  <2>2. CASE NobodyNext /\ heard /\ next # "end" /\ Telling(t) /\ stored = <<>>
    <3>1. CASE BeginRun
      BY <2>2, <3>1 DEF BeginRun
    <3>2. CASE Interrupt
      <4>1. /\ next' = "end" /\ UNCHANGED <<events, pending, heard, messages>>
        BY <3>2 DEF Interrupt, agentState, queue
      <4>2. stored' = <<>>
        BY <1>2, <2>2, <4>1, StoredByNode DEF GraphStep
      <4>3. RunOver'
        BY <2>2, <4>1 DEF RunOver, NobodyNext
      <4>4. Stage(t)'
        BY <4>2, <4>3 DEF Stage
      <4> QED
        BY <1>1, <4>1, <4>4
    <3>3. CASE ExecuteNode
      <4>1. HistoryKept
        BY DEF GraphStep, HistoryKept
      <4>2. s \in ReaderState
        BY <1>0 DEF StreamInv, StreamTypeOK, Now, ReaderState
      <4>3. Listening(s, t)
        BY <1>1, <2>2, <4>2 DEF Listening, StreamInv
      <4> QED
        BY <3>3, <4>1, <4>3, ExecutingNode DEF Told
    <3> QED
      BY <1>3, <3>1, <3>2, <3>3
  <2>3. CASE RunOver /\ (stored # <<>> => Matches(t, stored[1]))
    <3>1. NobodyNext /\ (~ heard \/ next = "end")
      BY <2>3 DEF RunOver, NobodyNext
    <3>2. UNCHANGED <<events, stored>> /\ NobodyNext' /\ heard' = FALSE
      BY <3>1, UnheardGraphStep
    <3>3. RunOver'
      BY <3>2 DEF RunOver, NobodyNext
    <3>4. Stage(t)'
      BY <2>3, <3>2, <3>3 DEF Stage
    <3> QED
      BY <1>1, <3>2, <3>4
  <2> QED
    BY <1>1, <2>1, <2>2, <2>3 DEF Stage
<1> QED
  BY <1>0, <1>4

LEMMA GraphStepKeepsInv ==
  ASSUME StreamInv, GraphStep
  PROVE  StreamInv'
<1>1. /\ GraphInv' /\ StreamTypeOK'
      /\ UNCHANGED <<phase, asked, tries, outcome>> /\ Now' = Now /\ HistoryKept
  BY GraphStepKeepsTypes
<1>2. CASE phase = "open"
  <2>1. \E t \in ReaderState : Reaches(events', Now', t) /\ Stage(t)'
    BY <1>1, <1>2, GraphStepOfOpenResponse
  <2>2. asked' \in Query /\ outcome' = "none" /\ phase' = "open"
    BY <1>1, <1>2 DEF StreamInv
  <2> QED
    BY <1>1, <2>1, <2>2 DEF StreamInv
<1>3. CASE phase # "open"
  <2>1. events = <<>> /\ (~ heard \/ next = "end") /\ NobodyNext
    BY <1>3 DEF StreamInv, GraphInv, TypeOK
  <2>2. UNCHANGED <<events, stored>> /\ NobodyNext' /\ heard' = FALSE
    BY <2>1, UnheardGraphStep
  <2> QED
    BY <1>1, <1>3, <2>1, <2>2 DEF StreamInv
<1> QED
  BY <1>2, <1>3

LEMMA StreamInitEstablishesInv == StreamInit => StreamInv
<1> SUFFICES ASSUME StreamInit PROVE StreamInv
  OBVIOUS
<1>1. GraphInv
  BY InitEstablishesInv DEF StreamInit
<1>2. /\ <<>> \in Seq(Piece) /\ <<>> \in Seq(Message) /\ Len(<<>>) <= 1
      /\ 0 \in 0..(StreamAttempts - 1)
  BY StreamAssumption
<1>3. StreamTypeOK
  BY <1>1, <1>2, Zenon DEF StreamInit, StreamTypeOK, GraphInv
<1>4. Now = Fresh
  BY DEF StreamInit, Now, Fresh
<1>5. NobodyNext
  <2>1. DOMAIN pending = {}
    BY DEF StreamInit, Init
  <2> QED
    BY <2>1 DEF NobodyNext
<1> QED
  BY <1>1, <1>3, <1>4, <1>5 DEF StreamInit, Init, StreamInv

LEMMA StreamNextKeepsInv == StreamInv /\ [StreamNext]_<<graph, stream>> => StreamInv'
<1> SUFFICES ASSUME StreamInv, [StreamNext]_<<graph, stream>> PROVE StreamInv'
  OBVIOUS
<1>1. CASE UNCHANGED <<graph, stream>>
  <2>1. /\ UNCHANGED <<agentState, next, writing, pending, heard, runs, events, searched>>
        /\ UNCHANGED <<phase, asked, tries, emitted_start, streamed_tokens, response_type, text,
                       outcome, stored, call, draft>>
    BY <1>1 DEF graph, stream, queue, reader, writing
  <2>2. GraphInv'
    BY <2>1, ThreadUntouched DEF StreamInv, GraphInv, TypeOK
  <2>3. StreamTypeOK'
    BY <2>1, <2>2, Zenon DEF StreamInv, StreamTypeOK, GraphInv
  <2>4. Now' = Now /\ (NobodyNext' <=> NobodyNext)
    BY <2>1 DEF Now, NobodyNext
  <2>5. ASSUME NEW t \in ReaderState, Stage(t) PROVE Stage(t)'
    BY <2>1, <2>5 DEF Stage, Telling, NobodyNext, OneHeard, RunOver
  <2>6. CASE phase = "open"
    <3>1. PICK t \in ReaderState : Reaches(events, Now, t) /\ Stage(t)
      BY <2>6 DEF StreamInv
    <3>2. Reaches(events', Now', t) /\ Stage(t)'
      BY <2>1, <2>4, <2>5, <3>1
    <3> QED
      BY <2>1, <2>2, <2>3, <2>6, <3>2 DEF StreamInv
  <2>7. CASE phase # "open"
    BY <2>1, <2>2, <2>3, <2>4, <2>7 DEF StreamInv
  <2> QED
    BY <2>6, <2>7
<1>2. CASE StreamNext
  BY <1>2, AskKeepsInv, OpenRunKeepsInv, OpenRunFailsKeepsInv, ReadingKeepsInv,
     FinishStreamKeepsInv, CutStreamKeepsInv, GraphStepKeepsInv DEF StreamNext, Opening, Reading
<1> QED
  BY <1>1, <1>2

-----------------------------------------------------------------------------
(* Theorems *)

\* While a response is open there is a state that its reader reaches with the
\* events on their way, and that is the one to be in at this point of the run.
THEOREM StreamInvariant == StreamSpec => []StreamInv
BY StreamInitEstablishesInv, StreamNextKeepsInv, PTL DEF StreamSpec

\* The thread, the events on their way and the response keep their types.
THEOREM StreamTypeCorrect == StreamSpec => []StreamTypeOK
<1>1. StreamInv => StreamTypeOK
  BY DEF StreamInv
<1> QED
  BY <1>1, StreamInvariant, PTL

\* A report is written from provisions found for the question it answers.
THEOREM ReportsAlwaysGrounded == StreamSpec => []ReportsGrounded
<1>1. StreamInv => ReportsGrounded
  BY DEF StreamInv, GraphInv
<1> QED
  BY <1>1, StreamInvariant, PTL

\* Every answer in the thread directly follows its question, whatever runs died
\* or were left behind before.
THEOREM AnswersAlwaysFollow == StreamSpec => []AnswersFollowTheirQuestion
<1>1. StreamInv => AnswersFollowTheirQuestion
  BY DEF StreamInv, GraphInv
<1> QED
  BY <1>1, StreamInvariant, PTL

\* The fallback comes after MaxAttempts searches of the run itself.
THEOREM FallbackAfterAllAttempts == StreamSpec => []GivesUpAfterAllAttempts
<1>1. StreamInv => GivesUpAfterAllAttempts
  BY DEF StreamInv, GraphInv
<1> QED
  BY <1>1, StreamInvariant, PTL

\* The type and the text of a response that is done are those of the answer kept
\* in the thread, and no piece came twice.
THEOREM DoneAlwaysMatchesThread == StreamSpec => []DoneMatchesThread
<1>1. StreamInv => DoneMatchesThread
  <2> SUFFICES ASSUME StreamInv, outcome = "done", stored # <<>>
               PROVE  /\ response_type = TypeOfKind(stored[1].kind)
                      /\ stored[1].kind \in {"chat", "failure", "report"} => IsSuffix(stored[1].text, text)
                      /\ \A i, j \in DOMAIN text : text[i] = text[j] => i = j
    BY DEF DoneMatchesThread
  <2>1. phase = "closed"
    BY DEF StreamInv
  <2>2. Matches(Now, stored[1])
    BY <2>1 DEF StreamInv
  <2>3. Now.type = response_type /\ Now.text = text
    BY DEF Now
  <2> QED
    BY <2>2, <2>3 DEF Matches, IsInjective
<1> QED
  BY <1>1, StreamInvariant, PTL

\* What reading one event does to the response is a step of the protocol.
LEMMA ReadingIsProtocol ==
  ASSUME StreamInv, HandleNodeStart \/ HandleToken \/ HandleNodeEnd \/ HandleNested
  PROVE  Protocol!Next \/ UNCHANGED Protocol!response
<1>1. /\ phase = "open" /\ events # <<>> /\ Now' = Handle(Head(events), Now)
      /\ phase' = phase /\ outcome' = outcome
  BY ReadingHandles DEF StreamInv
<1>2. PICK t \in ReaderState : Reaches(events, Now, t)
  BY <1>1 DEF StreamInv
<1>3. Allowed(Now, Now')
  BY <1>1, <1>2, ReachesAfterHead DEF StreamInv, GraphInv, TypeOK
<1>4. /\ Now.started = emitted_start /\ Now.type = response_type /\ Now.text = text
      /\ Now'.started = emitted_start' /\ Now'.type = response_type' /\ Now'.text = text'
  BY DEF Now
<1>5. \/ UNCHANGED <<emitted_start, response_type, text>>
      \/ /\ ~ emitted_start /\ emitted_start' /\ response_type' \in {"chat", "report", "failure"}
         /\ IsPrefix(text, text')
      \/ /\ emitted_start /\ emitted_start' /\ response_type' = response_type
         /\ IsStrictPrefix(text, text')
  BY <1>3, <1>4 DEF Allowed
<1>6. CASE UNCHANGED <<emitted_start, response_type, text>>
  BY <1>1, <1>6 DEF Protocol!response
<1>7. CASE /\ ~ emitted_start /\ emitted_start' /\ response_type' \in {"chat", "report", "failure"}
           /\ IsPrefix(text, text')
  <2>1. Protocol!IsPrefix(text, text')
    BY <1>7 DEF IsPrefix, Protocol!IsPrefix
  <2> QED
    BY <1>1, <1>7, <2>1 DEF Protocol!Next, Protocol!Start, Protocol!ResponseTypes
<1>8. CASE /\ emitted_start /\ emitted_start' /\ response_type' = response_type
           /\ IsStrictPrefix(text, text')
  <2>1. Protocol!IsStrictPrefix(text, text')
    BY <1>8 DEF IsPrefix, Protocol!IsPrefix, IsStrictPrefix, Protocol!IsStrictPrefix
  <2> QED
    BY <1>1, <1>8, <2>1 DEF Protocol!Next, Protocol!Token
<1> QED
  BY <1>5, <1>6, <1>7, <1>8

\* Whatever the graph does, retries and dead runs included, a response keeps
\* the protocol the page relies on.
THEOREM StreamImplementsProtocol == StreamSpec => ImplementsProtocol
<1>1. StreamInit => Protocol!Init
  BY DEF StreamInit, Protocol!Init
<1>2. StreamInv /\ [StreamNext]_<<graph, stream>> => [Protocol!Next]_(Protocol!response)
  <2> SUFFICES ASSUME StreamInv, [StreamNext]_<<graph, stream>>
               PROVE  Protocol!Next \/ UNCHANGED Protocol!response
    OBVIOUS
  <2>1. ASSUME NEW q \in Query, Ask(q) PROVE Protocol!Next
    BY <2>1 DEF Ask, Protocol!Next, Protocol!Open
  <2>2. ASSUME OpenRun PROVE UNCHANGED Protocol!response
    BY <2>2 DEF OpenRun, reader, Protocol!response
  <2>3. ASSUME OpenRunFails PROVE Protocol!Next \/ UNCHANGED Protocol!response
    <3>1. /\ phase = "opening" /\ UNCHANGED <<emitted_start, response_type, text>>
          /\ UNCHANGED <<phase, outcome>> \/ (phase' = "closed" /\ outcome' = "error")
      BY <2>3 DEF OpenRunFails, reader
    <3> QED
      BY <3>1 DEF Protocol!Next, Protocol!Close, Protocol!response
  <2>4. ASSUME HandleNodeStart \/ HandleToken \/ HandleNodeEnd \/ HandleNested
        PROVE  Protocol!Next \/ UNCHANGED Protocol!response
    BY <2>4, ReadingIsProtocol
  <2>5. ASSUME FinishStream \/ CutStream PROVE Protocol!Next
    <3>1. /\ phase = "open" /\ phase' = "closed" /\ outcome' \in {"done", "error", "gone"}
          /\ UNCHANGED <<emitted_start, response_type, text>>
      BY <2>5 DEF FinishStream, CutStream, reader
    <3> QED
      BY <3>1 DEF Protocol!Next, Protocol!Close
  <2>6. ASSUME GraphStep \/ UNCHANGED <<graph, stream>> PROVE UNCHANGED Protocol!response
    BY <2>6 DEF GraphStep, stream, reader, Protocol!response
  <2> QED
    BY <2>1, <2>2, <2>3, <2>4, <2>5, <2>6 DEF StreamNext, Opening, Reading
<1> QED
  BY <1>1, <1>2, StreamInvariant, PTL DEF StreamSpec, ImplementsProtocol, Protocol!Spec

=============================================================================
