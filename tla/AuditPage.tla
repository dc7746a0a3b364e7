----------------------------- MODULE AuditPage -----------------------------
(***************************************************************************)
(* The chat page of the browser: hooks/useStream.js and                    *)
(* pages/AlignPage.jsx, over the list of sessions of module SessionList,   *)
(* which moves the page from one session to another.                       *)
(*                                                                         *)
(* A step is one task of the event loop: an answer that arrives or an act  *)
(* of the user, with the promise continuations and then the React effects  *)
(* it leads to.  The n-th audit the user submits is audit n; its response  *)
(* keeps the protocol of module StreamProtocol.                            *)
(***************************************************************************)
EXTENDS SessionList

CONSTANTS
  MaxTokens,   \* bound of the instance: tokens shown at once
  MaxHistory,  \* bound of the instance: exchanges of a thread that is fetched
  Truncation   \* the body of a response may end before its done or error event

ASSUME PageAssumption == MaxTokens \in Nat /\ MaxHistory \in Nat /\ Truncation \in BOOLEAN

Audit == 1..MaxAudits

VARIABLES
  status, tokens, error,  \* of useStream; tokens and the error by their audit
  messages,   \* the conversation on screen
  current,    \* abortRef: the stream that was started last
  stage,      \* of each audit: how far its stream has come
  target,     \* of each audit: the session it was sent to
  aborted,    \* running audits whose controller was aborted
  loading,    \* the session whose history is being fetched
  skipNextFetch, \* skipNextFetchRef
  raced,      \* history: audits started while the history of their session was being fetched,
              \* and once it is there, those of them whose answer it holds
  audits      \* audits submitted so far

display == <<status, tokens, error, messages>>
fetch == <<loading, skipNextFetch, raced>>
page == <<display, current, stage, target, aborted, fetch, audits>>
vars == <<list, page>>

\* "closing": done came, the body has not ended; "declined": over, its refusal was shown although it was aborted;
\* "silent": over, and neither an answer nor an error was shown.  An audit whose session is being created is at "none".
Stage == {"none", "fetching", "refused", "reading", "closing", "ended", "declined", "silent"}

\* `of` is the session an answer belongs to and `audit` the audit it comes from,
\* 0 when that is none of this page's; questions are not told apart.
Message == [role : {"user", "assistant"}, of : 0..MaxIds, audit : 0..MaxAudits, fetched : BOOLEAN]

TypeOK ==
  /\ ListTypeOK
  /\ status \in {"idle", "connecting", "streaming", "complete", "error"}
  /\ tokens \in Seq(Audit)
  /\ error \in 0..audits
  /\ current \in 0..audits
  /\ stage \in [Audit -> Stage]
  /\ target \in [Audit -> 0..last]
  /\ aborted \subseteq Audit
  /\ messages \in Seq(Message)
  /\ loading \in {NoSession, session}
  /\ skipNextFetch \in BOOLEAN
  /\ raced \subseteq Audit
  /\ audits \in 0..MaxAudits

\* The provider is mounted with the page, which fetches the history of the
\* session that was stored.
Init ==
  /\ ListInit
  /\ status = "idle"
  /\ tokens = <<>>
  /\ error = 0
  /\ messages = <<>>
  /\ current = 0
  /\ stage = [n \in Audit |-> "none"]
  /\ target = [n \in Audit |-> NoSession]
  /\ aborted = {}
  /\ loading = session
  /\ skipNextFetch = FALSE
  /\ raced = {}
  /\ audits = 0

IsLoading == status \in {"connecting", "streaming"}
LimitReached == session = NoSession /\ Len(sessions) >= MaxSessions
Running(n) == stage[n] \in {"fetching", "refused", "reading", "closing"}

DropLast(s) == IF s = <<>> THEN s ELSE Front(s)
Question == [role |-> "user", of |-> NoSession, audit |-> 0, fetched |-> FALSE]
Reply(n, s) == [role |-> "assistant", of |-> s, audit |-> n, fetched |-> FALSE]

\* Audit n is started: whether the history on its way will hold it is open.
Races(n) == raced' = IF loading = NoSession THEN raced ELSE raced \cup {n}

\* abortRef.current?.abort(): nothing happens to a stream that has ended.
Abort(n) == {m \in {n} : m # 0 /\ Running(m)}

Show(newStatus, newTokens, newError) ==
  /\ status' = newStatus
  /\ tokens' = newTokens
  /\ error' = newError

\* The effect on `status`: the failed prompt leaves the conversation.
Rollback(conversation) ==
  IF conversation # <<>> /\ Last(conversation).role = "user"
  THEN Front(conversation) ELSE conversation

\* setError and setStatus("error"); the effect runs when the status changes.
ShowError(n, conversation) ==
  /\ Show("error", tokens, n)
  /\ messages' = IF status = "error" THEN conversation ELSE Rollback(conversation)

-----------------------------------------------------------------------------
(* handleAudit and createSession *)

SubmitAudit ==
  /\ ~ IsLoading /\ ~ LimitReached
  /\ audits < MaxAudits
  /\ audits' = audits + 1
  /\ messages' = Append(messages, Question)
  /\ Show("connecting", <<>>, 0)
  /\ \/ /\ session # NoSession
        /\ stage' = [stage EXCEPT ![audits'] = "fetching"]
        /\ target' = [target EXCEPT ![audits'] = session]
        /\ current' = audits'
        /\ aborted' = aborted \cup Abort(current)
        /\ Races(audits')
        /\ UNCHANGED list
     \/ /\ session = NoSession
        /\ AskForSession(audits')
        /\ UNCHANGED <<stage, target, current, aborted, raced>>
  /\ UNCHANGED <<loading, skipNextFetch>>

\* The session is there and becomes the active one, the stream is started, and
\* the session effect runs, which is to skip one fetch.  Coming from no session
\* it leaves everything as it is; coming from another session, which the user
\* went to in the meantime, it aborts the stream just started and clears the page.
\* When the new session is active already, picked from a list that had it before
\* this answer, no effect runs and the next one will skip its fetch.
SessionCreated(n) ==
  /\ CreationArrives(n)
  /\ stage' = [stage EXCEPT ![n] = "fetching"]
  /\ target' = [target EXCEPT ![n] = session']
  /\ current' = n
  /\ \/ /\ session = NoSession
        /\ Show("connecting", <<>>, 0)
        /\ aborted' = aborted \cup Abort(current)
        /\ loading' = NoSession /\ skipNextFetch' = FALSE /\ UNCHANGED <<messages, raced>>
     \/ /\ session \notin {NoSession, session'}
        /\ Show("idle", <<>>, 0)
        /\ messages' = <<>>
        /\ aborted' = aborted \cup Abort(current) \cup {n}
        /\ loading' = NoSession /\ skipNextFetch' = FALSE /\ raced' = {}
     \/ /\ session = session'
        /\ Show("connecting", <<>>, 0)
        /\ aborted' = aborted \cup Abort(current)
        /\ skipNextFetch' = TRUE /\ Races(n) /\ UNCHANGED <<messages, loading>>
  /\ UNCHANGED audits

\* LIMIT_REACHED: the optimistic message goes, the status stays as it is.
SessionLimitReached(n) ==
  /\ CreationRefused(n)
  /\ stage' = [stage EXCEPT ![n] = "silent"]
  /\ messages' = DropLast(messages)
  /\ UNCHANGED <<status, tokens, error, current, target, aborted, fetch, audits>>

\* Variant of SessionNotCreated: no error is set.
SessionNotCreatedSilently(n) ==
  /\ CreationFails(n)
  /\ stage' = [stage EXCEPT ![n] = "ended"]
  /\ messages' = DropLast(messages)
  /\ UNCHANGED <<status, tokens, error, current, target, aborted, fetch, audits>>

SessionNotCreated(n) ==
  /\ CreationFails(n)
  /\ stage' = [stage EXCEPT ![n] = "ended"]
  /\ ShowError(n, DropLast(messages))
  /\ UNCHANGED <<current, target, aborted, fetch, audits>>

-----------------------------------------------------------------------------
(* The session effect *)

\* Variant of SessionEffect: the stream goes on.
SessionEffectKeepsStream ==
  /\ Show("idle", <<>>, 0)
  /\ messages' = <<>>
  /\ loading' = IF skipNextFetch THEN NoSession ELSE session'
  /\ skipNextFetch' = (skipNextFetch /\ session' = NoSession)
  /\ raced' = {}
  /\ UNCHANGED <<current, stage, target, aborted, audits>>

\* Variant of SessionEffect: a new session does not cancel the fetch.
SessionEffectKeepsFetch ==
  /\ aborted' = aborted \cup Abort(current)
  /\ Show("idle", <<>>, 0)
  /\ messages' = <<>>
  /\ loading' = IF session' = NoSession THEN loading ELSE session'
  /\ raced' = {}
  /\ UNCHANGED <<current, stage, target, skipNextFetch, audits>>

\* Coming from no session nothing is cleared.  A fetch that is still under way is
\* cancelled, also when the new one is skipped.
SessionEffect ==
  /\ \/ /\ session # NoSession
        /\ aborted' = aborted \cup Abort(current)
        /\ Show("idle", <<>>, 0)
        /\ messages' = <<>>
     \/ /\ session = NoSession
        /\ UNCHANGED <<aborted, display>>
  /\ loading' = IF skipNextFetch THEN NoSession ELSE session'
  /\ skipNextFetch' = (skipNextFetch /\ session' = NoSession)
  /\ raced' = {}
  /\ UNCHANGED <<current, stage, target, audits>>

\* The list changes, and with it the session, or not.
ListMoves ==
  /\ ListStep
  /\ \/ session' # session /\ SessionEffect
     \/ session' = session /\ UNCHANGED page

\* A message of session s as it is fetched.
Entry(s) ==
  {Question} \cup [role : {"assistant"}, of : {s}, fetched : {TRUE},
                  audit : {0} \cup {n \in Audit : target[n] = s}]

\* The thread of session s, read at any time since the fetch began: exchanges in
\* any order, each a question and, when its run came that far, the answer
\* (AnswersFollowTheirQuestion of ComplianceGraph); of the audits sent to s any may
\* be among them, also one the page is still reading, and an exchange twice, when
\* its opening was retried.  Nothing, when it cannot be read.
History(s) ==
  {h \in BoundedSeq(Entry(s), 2 * MaxHistory) :
     /\ Cardinality({i \in DOMAIN h : h[i].role = "user"}) <= MaxHistory
     /\ \A i \in DOMAIN h : h[i].role = "assistant" => i > 1 /\ h[i - 1].role = "user"}

\* fetchMessages of the session that is still active: what was read takes the
\* place of the conversation, whatever has happened to it since.
HistoryArrives ==
  /\ loading # NoSession
  /\ messages' \in History(loading)
  /\ raced' = {n \in raced : \E i \in DOMAIN messages' : messages'[i].audit = n}
  /\ loading' = NoSession
  /\ UNCHANGED <<list, status, tokens, error, current, stage, target, aborted,
                 skipNextFetch, audits>>

-----------------------------------------------------------------------------
(* startStream and consume *)

Ends(n) == stage' = [stage EXCEPT ![n] = "ended"]
PageStays == UNCHANGED <<list, current, target, aborted, fetch, audits>>

\* Whether the session is still there when the request comes is left open.
ResponseOk(n) ==
  /\ stage[n] = "fetching" /\ n \notin aborted
  /\ stage' = [stage EXCEPT ![n] = "reading"]
  /\ Show("streaming", tokens, error)
  /\ UNCHANGED messages /\ PageStays

ResponseNotOk(n) ==
  /\ stage[n] = "fetching" /\ n \notin aborted
  /\ stage' = [stage EXCEPT ![n] = "refused"]
  /\ UNCHANGED display /\ PageStays

\* The body of a refusal, or {} when it cannot be read: also an AbortError is
\* caught there, and the error is thrown and shown all the same.
RefusalShown(n) ==
  /\ stage[n] = "refused"
  /\ stage' = [stage EXCEPT ![n] = IF n \in aborted THEN "declined" ELSE "ended"]
  /\ aborted' = aborted \ {n}
  /\ ShowError(n, messages)
  /\ UNCHANGED <<list, current, target, fetch, audits>>

\* The request or the body breaks, the latter also after done, or an error event
\* comes.
StreamError(n) ==
  /\ stage[n] \in {"fetching", "reading", "closing"} /\ n \notin aborted
  /\ Ends(n)
  /\ ShowError(n, messages)
  /\ PageStays

StreamToken(n) ==
  /\ stage[n] = "reading" /\ n \notin aborted
  /\ Len(tokens) < MaxTokens
  /\ Show(status, Append(tokens, n), error)
  /\ UNCHANGED <<stage, messages>> /\ PageStays

\* Variant of StreamDone: the effect runs twice.
StreamDoneTwice(n) ==
  /\ stage[n] = "reading" /\ n \notin aborted
  /\ stage' = [stage EXCEPT ![n] = "closing"]
  /\ Show("complete", tokens, error)
  /\ messages' = IF tokens = <<>> THEN messages
                 ELSE messages \o <<Reply(n, session), Reply(n, session)>>
  /\ PageStays

\* The effect on `status` and `tokens` makes a message of the tokens.
StreamDone(n) ==
  /\ stage[n] = "reading" /\ n \notin aborted
  /\ stage' = [stage EXCEPT ![n] = "closing"]
  /\ Show("complete", tokens, error)
  /\ messages' = IF tokens = <<>> THEN messages ELSE Append(messages, Reply(n, session))
  /\ PageStays

\* After done the body is read to its end.
BodyEnds(n) ==
  /\ stage[n] = "closing" /\ n \notin aborted
  /\ Ends(n)
  /\ UNCHANGED display /\ PageStays

StreamTruncated(n) ==
  /\ Truncation
  /\ stage[n] = "reading" /\ n \notin aborted
  /\ stage' = [stage EXCEPT ![n] = "silent"]
  /\ UNCHANGED display /\ PageStays

\* Variant of StreamAborted: an AbortError is shown like any other.
StreamAbortedShown(n) ==
  /\ stage[n] \in {"fetching", "reading", "closing"} /\ n \in aborted
  /\ Ends(n)
  /\ aborted' = aborted \ {n}
  /\ ShowError(n, messages)
  /\ UNCHANGED <<list, current, target, fetch, audits>>

\* The AbortError of an aborted fetch or read is dropped.
StreamAborted(n) ==
  /\ stage[n] \in {"fetching", "reading", "closing"} /\ n \in aborted
  /\ Ends(n)
  /\ aborted' = aborted \ {n}
  /\ UNCHANGED <<list, display, current, target, fetch, audits>>

Progress(n) ==
  \/ SessionCreated(n)
  \/ SessionLimitReached(n)
  \/ SessionNotCreated(n)
  \/ ResponseOk(n)
  \/ ResponseNotOk(n)
  \/ RefusalShown(n)
  \/ StreamError(n)
  \/ StreamDone(n)
  \/ BodyEnds(n)
  \/ StreamTruncated(n)
  \/ StreamAborted(n)

Next ==
  \/ SubmitAudit
  \/ ListMoves
  \/ HistoryArrives
  \/ \E n \in Audit : StreamToken(n)
  \/ \E n \in Audit : Progress(n)

Spec == Init /\ [][Next]_vars

\* Requests have time limits, and every response is closed (AlignStream); an
\* audit takes finitely many of these steps, each a move of its stage, so none waits
\* for another.
FairSpec == Spec /\ WF_stage(\E n \in Audit : Progress(n))

-----------------------------------------------------------------------------
(* Properties *)

\* Streams never run side by side: all but the one started last are aborted.
\* Tokens on screen are those of that stream, and it serves the session on
\* screen: no late token of an older audit, or of a session the user has left,
\* is ever shown.
TokensOfThisStream ==
  /\ \A n \in Audit : Running(n) /\ n \notin aborted => n = current
  /\ \A i \in DOMAIN tokens :
       /\ tokens[i] = current
       /\ target[current] = session
       /\ current \notin aborted

\* An answer on screen belongs to the session on screen, and the answer of an
\* audit is added to the conversation once: beside its copy in a history that was
\* fetched only when the audit was started before that history arrived.
AnswersOfThisSession ==
  /\ \A i \in DOMAIN messages :
       messages[i].role = "assistant" =>
         /\ messages[i].of = session
         /\ messages[i].audit # 0 => target[messages[i].audit] = session
  /\ \A i, j \in DOMAIN messages :
       /\ i # j /\ messages[i].audit = messages[j].audit
       /\ messages[i].role = "assistant" /\ messages[j].role = "assistant"
       /\ ~ messages[i].fetched
       => messages[j].fetched /\ messages[j].audit \in raced

\* An error on screen is about the session on screen and the stream started
\* last.  The code lets through two others, and these only: the refusal of an
\* audit aborted while the body of the refusal was read, and the failure to
\* create the session of an audit the user has since turned away from.
ErrorOfThisStream ==
  error # 0 =>
    \/ error = current /\ target[error] = session /\ stage[error] = "ended"
    \/ stage[error] = "declined"
    \/ target[error] = NoSession

\* The page leaves its loading state, in which nothing can be sent, unless the
\* audit it waits for ended without a word: refused by the session limit or cut
\* off before its last event.
LoadingEnds ==
  IsLoading ~> ~ IsLoading \/ \E n \in {current, audits} \cap Audit : stage[n] = "silent"

\* "Mark as loading immediately so a fast double-submit can't fire a second
\* createSession() call while this one is still awaiting the network": the page
\* is loading only while an audit awaits the network.
LoadingMeansAwaiting ==
  IsLoading => \E n \in Audit : Creating(n) \/ (Running(n) /\ n \notin aborted)

=============================================================================
