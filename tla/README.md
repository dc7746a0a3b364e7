# AlignAI in TLA+

AlignAI answers questions about the EU AI Act. A browser application (`src/frontend`) talks to a FastAPI backend
(`src/backend`), which keeps accounts and chat sessions in Postgres and runs a LangGraph agent (`src/agent`) per session;
the agent searches a Qdrant index of the regulation, which a command-line pipeline fills, and writes a report with an LLM.
This directory models the parts in which several actors, failures or long sequences of events meet, checks them
with TLC on small instances, and proves with TLAPS, for all instances, what can be proved of them: every safety property and
every refinement, of the session service, the accounts, the token client, the agent graph with its response stream, the chat
page with its list of sessions, the parser and the index.

## Inventory

| component | state | operations | what is hard about it | what makes it correct |
|---|---|---|---|---|
| Session service (`backend/app/infrastructure/database.py`, `services/session_service.py`, `api/routes/sessions.py`, `align.py`, `users.py`) | rows of users and sessions, threads of the LangGraph server, advisory locks, the connection pool | create, align, read messages, retitle, delete, delete the account | every `await` lets another request in; a row and its thread live in two stores without a common transaction; requests die half way | session limit, message threshold, nobody reads another's thread, no lost or orphaned thread without a reason, every request answered |
| Agent graph (`agent/app/graph`, `agent/app/nodes`) | messages, objective, retrieved documents, relevance and attempts, kept in the thread between runs | intent, retrieve, rewrite, generate, fallback | a run may die at any node and leaves its state to the next run; a loop; LLM retries after partial output | reports rest on documents of their own question, one answer per run, all attempts are used, every run ends |
| Response stream (`backend/app/services/align_service.py`) | start flag, type, text sent so far | open a run with retries, translate events, fail, be cancelled | a retry queues the message twice; nested events carry a node's name; the run may fail after the stream was opened | the protocol start, tokens, done or error; what is done agrees with the thread |
| Token client (`frontend/src/services/authApi.js`, `context/AuthContext.jsx`) | stored tokens, `refreshPromise`, requests in flight | request, refresh, sign in and out, reload, delete account | answers in any order; a refresh overtaken by a sign-in or sign-out | one refresh at a time, all waiters released, stored tokens are the right user's |
| Chat page (`hooks/useStream.js`, `pages/AlignPage.jsx`) | session on screen, stream state, conversation, the stream in flight | submit an audit, switch session, receive events and histories | effects and awaited calls interleave with what the user does | tokens and answers on screen are the session's, each added once; loading ends |
| Session list (`context/SessionContext.jsx`, `components/Layout/Sidebar.jsx`) | list of sessions, active session, both also in refs and `localStorage` | one fetch, create, pick, delete, rename | calls answered in any order, callbacks that remember the session of the click, a late list that overwrites a newer one, a stored session that is gone | the list is the backend's, each session once; the active session is in it |
| Accounts (`backend/app/api/routes/auth.py`, `services/auth_service.py`, `infrastructure/auth.py`) | rows of users; signed tokens, which are stored nowhere | signup, login, refresh, me, delete | a look-up, a password hash off the event loop and a transaction are three steps; an account may go and its address come back between them; a signup fails after its commit | one account per address, ids never come back, tokens only for who knows the credentials |
| Free trial (`backend/app/api/routes/trial.py`) | a signed cookie | one audit before signing in | the cookie comes with the response, so a second request may be sent before it | one trial per visitor |
| Regulation parser (`agent/app/infrastructure/ingest.py`) | current chapter, section, article, title, recital and their text | read a line, flush | five variables that each heading resets in part; two units of length | every word filed where it stands, none lost |
| Vector index (`agent/ingest.py`, `embeddings.py`, `qdrant_client.py`, `retriever_node.py`) | collection, payload indexes, points | create, embed, upsert, search | a run dies between two calls, runs overlap, results are zipped by place | vectors belong to their texts, a finished run is stored whole, best chunk of each article |

Interactions: the browser calls the backend over HTTP (a 401 makes the token client refresh), the backend calls Postgres
and the LangGraph server, the server executes the graph and streams its events back through the response stream to the
page; the pipeline and the retriever share the Qdrant collection.

## Modules

| module | models | composes |
|---|---|---|
| `Sessions` | the session service, transaction by transaction | |
| `SessionLedger` | what the session API promises, one step per operation | implemented by `Sessions` |
| `SessionsProofs` | theorems about `Sessions`, and that it implements `SessionLedger` | extends `Sessions` |
| `ComplianceGraph` | the agent graph on one thread | |
| `ComplianceGraphProofs` | what each step of the graph keeps | extends `ComplianceGraph` |
| `StreamProtocol` | the protocol of a response | implemented by `AlignStream` |
| `AlignStream` | the response stream reading the graph; its specification is that of both | extends `ComplianceGraph` |
| `AlignStreamProofs` | theorems about `AlignStream`, and that it implements `StreamProtocol` | extends `AlignStream`, `ComplianceGraphProofs` |
| `AuthClient` | the token client of a browser tab, with the backend's token checks | |
| `AuthClientProofs` | theorems about `AuthClient` | extends `AuthClient` |
| `Accounts` | signup, login, refresh, me and account deletion, step by step | |
| `AccountRegister` | what signing up and closing an account promise | implemented by `Accounts` |
| `AccountsProofs` | theorems about `Accounts`, and that it implements `AccountRegister` | extends `Accounts` |
| `SessionList` | the sidebar's list and the active session, over the rows of the backend | |
| `AuditPage` | the chat page; its specification is that of both | extends `SessionList`, uses what `StreamProtocol` promises |
| `AuditPageProofs` | theorems about `AuditPage` and `SessionList` | extends `AuditPage` |
| `RegulationParser` | the parser and the chunk windows | |
| `RegulationParserProofs` | theorems about `RegulationParser` | extends `RegulationParser` |
| `VectorIndex` | the pipeline, the collection and the search | |
| `VectorIndexProofs` | theorems about `VectorIndex` | extends `VectorIndex` |
| `MC...` | instances for TLC: definitions that a `.cfg` cannot write | |

Variables are named after the code's. Operators named "Variant of ..." are faults one could have made in the code; no
specification uses them, they serve to see that each property can fail.

### Sessions

A request is a process with a program counter; one action is one transaction or one call to the LangGraph server, since
the handlers are coroutines and give way at each of them. `Arrive` and `GetCurrentUser` are the head of every request
(`dependencies.py:22-63`); `BeginCreate`, `AdvisoryLock`, `CountSessions`, `InsertSession` and `RefreshRow` are
`create_session_if_under_limit` (`database.py:148-168`), statement by statement inside its transaction, for the lock is held
over them; `ValidateOwnership`, `IncrementMessages`, `CheckThreshold`, `StartRun`, `StartRunFails` and `EndStream` are
`POST /align`; `FindForTitle`, `CommitTitle` the title update; `DropSession`, `DeleteThread` the deletion of a session;
`ListForDeletion`, `DeleteThread`, `DropUser` that of an account. `DatabaseFails` and `Crash` are the failures; `StartRunFails`
is retried or, for what is neither a connection error nor a timeout, ends the stream at once. Creations
that wait for the lock hold a connection of the pool (`Connections`), and the transactions that do not wait anywhere need
one to be free.

A thread's contents are abstracted to the set of users whose messages it holds. `late` and `swallowed` are history
variables: sessions on which a run started during or after their deletion, and sessions whose thread deletion failed.

### ComplianceGraph, AlignStream

One action is one node, except `generate`, which is split where its LLM call streams and may be retried. The state of the
graph keeps its reducers: messages and documents are appended, documents are emptied by the reset marker. What the LLM
answers and what a search finds is chosen freely. `BeginRun` takes the next run of the thread, `Interrupt` kills the
current one. The graph has no specification of its own: runs come from `AlignStream`, which adds the backend and in whose
steps the graph's properties are checked: `OpenRun` and `OpenRunFails` are `_stream_from_langgraph` (a failed
attempt may have queued its run), `HandleNodeStart`, `HandleToken`, `HandleNodeEnd`, `HandleNested` are the branches of
the event loop, `FinishStream` and `CutStream` its ends.

### AuthClient

A pair of tokens is named by its number of issue. `Send` to `RefusedAgain` are the paths of `request`; `Refused` joins or
starts the refresh that `refreshPromise` stands for; `RefreshSucceeds` and `RefreshFails` settle it for every waiter. The
backend is three predicates: it accepts an access token, renews a refresh token, or refuses both once expired or once the
account is gone. `overtaken` is a history variable. The page sends nothing while `checkAuth` runs (`App.jsx:40-69`).

### Accounts

A request is a route, the credentials of whoever makes it and the account it has found; one action is what it does between
two points where it gives way: a transaction, or a password hash, which `asyncio.to_thread` takes off the event loop.
`LookUpForSignup`, `CreateUser` and `RefreshUserRow` are `signup`: the look-up and the hash, the insert with the unique
constraint, the read of the row after its commit. `LookUpForLogin` and `VerifyPassword` are `login`; `Refresh` is the
route that renews tokens, `GetCurrentUser` the head of the two that take an access token (`dependencies.py:22-63`), of which
`DeleteUser` is the rest of one. `Fail` answers 500 at any step and keeps what was committed. An account is
named by its id; `made` keeps the credentials of ids that are gone, since tokens for them may still come. `users.is_active` is
set when the row is made and by no code cleared, so the branches for an inactive account cannot be reached and are left out.
Expiry is a token that is refused, chosen freely (`AuthClient` has its consequences). `AccountRegister` sees an address
with one id or none, and two atomic steps.

### SessionList, AuditPage

One action is one task of the browser's event loop with the React effects it leads to. A call to the backend is a step there
(`ReadList`, `InsertRow`, `DeleteRow`) and another here when its answer arrives (`ListArrives`, `CreationArrives`,
`DeletionArrives`), or it fails (`...Fails`, whether or not the backend did it). `session` is the active session and what
`localStorage` holds; `wasActive` is the `sessionId` in the closure of `deleteSession` at the click, while the list it filters
is the one of the answer (`sessionsRef`). Two history variables name the ways in which the list may be wrong: `untold` (the
list missed a change: the fetch failed, the list was overtaken by a creation, or the answer to a change was lost) and
`stranded` (the active session was picked while it was being deleted). The refs, which the code sets when it renders
(`SessionContext.jsx`), are taken to change in the same step as the state they mirror.

In `AuditPage` the n-th audit is audit n; its promise chain stands at `stage[n]`. The creation an audit needs is the list's
creation n. A stage "silent" marks an audit that ended with neither an answer nor an error, "declined" one whose refusal was
shown although it was aborted, "closing" one whose done event has come while `consume` reads on to the end of the body
(`StreamDone`, `BodyEnds`). `ListMoves` is any step of the list, with `SessionEffect` when it moves the page. A
message knows the session and the audit it comes from and whether it was fetched. What a fetch brings (`History`) is the thread
of the session as it was at some time since the request: any of the audits sent to the session may have its answer in it, also
one that is still running, and an exchange may be there twice, when its opening was retried. `HistoryArrives` puts it in the
place of the conversation. The history variable `raced` holds the audits started while the history of their session was being
fetched, and once it is there those whose answer it holds. `skipNextFetch` is `skipNextFetchRef`: set when a session was created for an audit, consumed by the next change to a
session. A
reload begins a new behaviour, and a sign-out unmounts the provider. The tab deletes one session at a time and the button
of an empty sidebar is pressed one at a time (bounds of the instance); whether a session is still there when a request for it
comes is left open. The titles in the list and the effect that sets them are left out.

### RegulationParser

One action is one line of the document; a line is its place in the document, so that headings and words tell where they
come from. The document is read as it is invented, so every document up to the bound is checked. The reference operators
`Article` and `Recital` count prose only: a bold line after an article's title, or among the recitals, is taken for a title and
dropped (`ingest.py:198-202`), so that "every word" of `NothingLost` means every word of prose. `Windows` is the loop
of `_chunk_text` as a recursive function. Page artifacts and blank lines leave no trace and are not modelled.

### VectorIndex

Runs of the pipeline step through `ensure_collection`, the embedding batches and the upsert batches; each may die at any
step, hang in a call of the embedding API, overlap with others and be repeated. The vector of a text is named by its chunk. The relevance of the chunks to
the objective is an arbitrary function fixed at the start; `Retrieve` is the search with threshold and deduplication.

## Runs

| run | instance | shows | states |
|---|---|---|---|
| `SessionsSafety` | 3 requests of any kind, 2 users, 2 sessions, limit 1, threshold 2, all failures | `SessionQuota`, `AdmissionsBounded`, `OrphansAccountedFor`, `ReadsOwnMessages`, `HistoryOfLiveSessionsKept` | 989 000 |
| `SessionsProgress` | 3 requests, 1 user, 3 sessions, pool of 2, no failures, fair | `EveryRequestAnswered`, `ImplementsLedger` | 280 000 |
| `StreamAnswers` | 2 runs of 2 questions on a thread, 2 attempts to open, to retrieve and to call the LLM, answers of 2 pieces, fair | of the graph: `ReportsGrounded`, `AnswersFollowTheirQuestion`, `GivesUpAfterAllAttempts`, `EveryRunEnds`; of the stream: `DoneMatchesThread`, `ImplementsProtocol`, `EveryResponseCloses` | 305 000 |
| `AuthTokens` | 2 users, 2 requests and `checkAuth`, 3 pairs of tokens, fair | `OneRefreshAtATime`, `StoredTokensAccountedFor`, `WaitersReleased` | 512 000 |
| `AccountRaces` | 4 requests of any route, 2 addresses, 2 passwords | `ImplementsRegister`, `TokensNeedTheCredentials` | 47 000 |
| `PageStreams` | 2 audits, 2 session ids of which one may have been given out before, limit 2, histories of one exchange, fair | `TokensOfThisStream`, `AnswersOfThisSession`, `ErrorOfThisStream`, `LoadingEnds`; of the list: `ListAccountedFor`, `ActiveSessionListed` | 1 212 000 |
| `ParserFiles` | all documents of up to 6 lines, windows of 3 words, overlap 1 | `FiledWhereItStands`, `NothingLost`, `NeighboursOverlap` | 644 000 |
| `IndexRuns` | 2 runs, 4 chunks of 2 articles and a recital, top 3, fair | `VectorsMatchTexts`, `DoneMeansStored`, `IndexesAccountedFor`, `BestOfEachArticle`, `PipelineEnds` | 98 000 |

Every passing run also checks its module's type invariant, but for `SessionsProgress`, whose module has it in `SessionsSafety`.

Why the bounds are enough. The quota and the threshold need two racing requests and a third that deletes or fails; limit
1 and threshold 2 are reached by two of them. A thread that outlives its session needs a run, a deletion and a reader.
Progress needs more creations than the pool has connections. State that a dead run leaves behind reaches the next run, and
a third shows what both leave. Two waiting requests and `checkAuth` are refused together, three pairs give a sign-in, a
refresh and a sign-in of somebody else. Two audits are one whose stream or creation is left behind and one that must not see
it. With `Earlier = {1}` the tab begins with one session or none, stored or not, and room for one creation, which the second
meets as the limit; `PageStuck` begins with two (`Earlier = {2}`). A history of one exchange
is a question with its answer, of one of the audits or of none of this page's, or yet without one. Six
lines hold a chapter, a section, an article with title and text and the heading that ends it, or a chapter that follows a
section. Two runs are enough to race for the collection and to leave duplicates; four chunks fill two batches.
Four requests are two signups that race, a sign-in in progress, and a deletion that frees the address between its steps.
The symmetry of `AccountRaces` is over addresses, passwords and requests, which no property tells apart.

Deadlock is not checked in any run: requests, runs, audits and documents are finite in number, and the system rests when
they are through.

### Runs that find the code disagree with its documents

| run | property | what happens |
|---|---|---|
| `StreamLosesReport` | `ClientGetsTheAnswer` | The generator's LLM call fails and its canned report is stored in the thread, but `generate` is not among `_FINAL_TOKEN_NODES` (`align_service.py:29`): the client receives `done` without it. The test at `test_align_service.py:482-483` states the rule for the nodes that do not stream, "fallback/intent"; a failed generation is a third such answer. |
| `AuthStuckRefresh` | `GoodRefreshTokenIsUsed` | `return false` at `authApi.js:112` precedes the `try` whose `finally` resets `refreshPromise`; after one 401 without a stored refresh token every later 401 of the tab signs the user out, new sign-in or not. |
| `PageStuck` | `LoadingMeansAwaiting` | The branch `LIMIT_REACHED` (`AlignPage.jsx:77`) returns with the status still `connecting`: nothing can be sent until the session is changed. One tab gets there: `limitReached` counts the list, and the audit is sent before the list has arrived. The comment that is quoted (`AlignPage.jsx:58-60`) is about double submits and says what the early loading status is for: an audit that awaits the network. |
| `IndexRecitals` | `DocsHaveText` | A recital is stored with `text` and no `parent_text` (`agent/ingest.py:43-47`), `format_retrieved_docs` keeps `parent_text` only, and the prompt shows "No text available." for it. |

Smaller disagreements that the models contain, without a run of their own:

* `align.py:86` promises 50 messages per session; the counter is incremented first and compared with `>=`, so 49 are
  served. `AdmissionsBounded` states the code's number.
* `sessions.py:136` says the thread is deleted with its session and `auth_service.py:123-125` the same of an account. A run
  that was admitted before the deletion and starts after it creates the thread anew (`if_not_exists="create"`), with nobody
  left to delete it. `OrphansAccountedFor` names this as one of its reasons (`late`).
* `sessions.py:180-183` lists 401, 404 and 422 for the title update. Racing a deletion it ends in 500 (`CommitTitle`,
  `RefreshRow`).
* In `useStream.js:93` the AbortError of reading a refusal's body is caught as an unreadable body, and the error of an
  aborted stream is shown on the stream that replaced it (`RefusalShown`), against the comment at lines 80-82. `ErrorOfThisStream` says
  that this and a failed creation are the only errors that stray.
* A history that arrives while an audit runs in its session replaces the conversation (`HistoryArrives`;
  `AlignPage.jsx:88-91` prevents it for sessions the page created itself only). Read before the run began, it wipes the
  question off the screen; read after the run answered, it holds the answer that `StreamDone` then appends once more, so that
  it is on screen twice. `AnswersOfThisSession` says that this is the only way to that: one of the two copies was fetched, and
  the audit was started before the history came (`raced`).
* A session whose creation is answered late may be active already, picked from a list that has it. No effect runs then, and
  `skipNextFetchRef` stays set: the history of the session the user goes to next is not fetched (`SessionCreated`, third case).
* An audit's creation that fails after the user has gone to another session takes the last message of that session's
  conversation off the screen and shows its error there (`SessionNotCreated`).
* `deleteSession` compares with the session active at the click (`SessionContext.jsx:80`): a session the user has gone to since
  is left again, one picked while its deletion is under way stays active though it is gone (`stranded`).
* The list is fetched once. A creation answered before it drops out of the sidebar, one answered after a list that already
  holds it is in it twice (`ListArrives`, `untold`). `AlignPage.jsx:78-79` says of the limit that it "refreshes on the next
  fetch"; there is none until the page is loaded anew.
* A creation answered while the history of another session is being fetched cancels that fetch and starts none
  (`AlignPage.jsx:157-159`): `historyLoading` stays set, and the new session shows the skeleton. `loading` of the model is the
  fetch and not the flag, which only the drawing reads.

And one the parser's model contains: only a chapter or an annex ends the recitals, so in an excerpt made with `--pages` that
begins inside a chapter the text of articles is appended to the last recital or dropped (`Enacting` in the reference
definitions).

## Fairness

* `Sessions`: weak fairness of each request's own next step (`Serve`). The event loop runs every ready coroutine, Postgres
  hands on an advisory lock when its transaction ends, and the pool a returned connection. Arrivals, failures and crashes
  are not fair. `EveryRequestAnswered` is checked without failures: with them a request is answered sooner.
* `AlignStream`: the server executes the node that is due, whose calls have timeouts; an attempt to open
  has a timeout; the event loop hands on what has arrived. Submitting and dying are not fair.
* `AuthClient`: the refresh request is answered or aborted by the timer of `fetchWithTimeout`. The timer is cleared once the
  headers are there (`authApi.js:34-36`), so that a body of the refresh that never ends is not bounded by the code but assumed
  away. Nothing else is fair; the user may stop at any time.
* `AuditPage`: some audit's promise chain goes on as long as one can, its calls having timers and its response being closed
  (`EveryResponseCloses`); as each takes finitely many steps, this lets none wait for ever. Answers to the list's
  calls need not come, nor tokens, and the user need not act.
* `Accounts`: none; its properties are about safety.
* `VectorIndex`: a run takes its next step once a call has ended. Calls to Qdrant have time limits (`qdrant_client.py:20`, `115`).
  The calls of `embed_batch` have none (`embeddings.py:90-110`), and one that never returns is a step of the model,
  `EmbedHangs`, after which nothing but a kill moves the run; `PipelineEnds` names it as the exception. Starting, hanging,
  dying and searching are not fair.

## Proofs

`SessionsProofs` proves, for all finite or infinite sets of users, sessions and requests, any limits, pool size and lock
keys (colliding ones too), and any set of failures, from `SessionsAssumption` alone except where stated:

| theorem | property | argument |
|---|---|---|
| `SessionsTypeOK` | `TypeOK` | with `Underway`, which ties a request's program counter to its operation and subject; every later proof uses it |
| `SessionQuotaHolds` | `SessionQuota` | `QuotaInv`: who has counted holds the advisory lock of its user until it has inserted (`LockHeld`), so the room it saw is still there (`RoomLeft`). The quota alone is not inductive: a state with a full user and a request about to insert satisfies it |
| `AdmissionsBoundedHolds` | `AdmissionsBounded` | `TicketInv`: the counter values returned on a session are all different, so the admitted requests inject into `1..Threshold-1` |
| `ReadsOwnMessagesHolds` | `ReadsOwnMessages` | `Ownership`: a thread holds messages of its session's owner only and requests past the check are the owner's; it needs that ids never come back |
| `OrphansAccountedForHolds` | `OrphansAccountedFor` | `OrphanInv`, under the assumption `MaxSessions <= PageLimit`: the account deletion sees one page of sessions, 50 in the code, and would overlook the rest |
| `HistoryOfLiveSessionsKeptHolds` | `HistoryOfLiveSessionsKept` | an action property, from `ToDelete`: a deletion only has threads left to delete of its own closed session or of its own account |
| `SessionsImplementLedger` | `ImplementsLedger` | `InsertSession`, `DropSession` and `DropUser` map to the ledger's opening and closing (`InsertIsOpen`, `DropIsClose`, `DropUserIsClose`), `CheckThreshold` to a served message (`GateIsMessage`), every other transaction, failure and crash to a stutter (`StepsOfTheLedger`). It needs the invariants above, for the ledger opens a session in one step and the code in four, and `LiveOwners`: the owner of a live session has an account |

`AccountsProofs` proves, for any addresses, passwords and requests, from `AccountsAssumption`:

| theorem | property | argument |
|---|---|---|
| `AccountsTypeOK` | `TypeOK` | together with the others, by `AccountsInv` |
| `TokensNeedTheCredentialsHolds` | `TokensNeedTheCredentials` | `AccountOfCaller`: a request that has shown a token or signed up works on an account of its caller's, and one that verifies a password on an account with its address. The property alone is not inductive: it says nothing of requests that are about to be issued tokens. It is kept because `made` never changes at an id that is given out (`MadeGrows`) |
| `AccountsImplementRegister` | `ImplementsRegister` | `CreateUser` with room maps to `Register` (`CreateUserRegisters`), `DeleteUser` of a row that is there to `Close` (`DeleteUserCloses`, which needs `OneAccountEach`), every other step to a stutter |

`AuthClientProofs` proves, for any users, requests and number of pairs, from `AuthAssumption`:

| theorem | property | argument |
|---|---|---|
| `AuthTypeOK` | `TypeOK` | by `AuthInv`: a refresh is started with a stored pair only, so what is in flight was issued (`InFlight`) |
| `OneRefreshAtATimeHolds` | `OneRefreshAtATime` | `PromiseKept`: `refreshPromise` is pending exactly while a refresh is in flight, so a second one is never started |
| `StoredTokensAccountedForHolds` | `StoredTokensAccountedFor` | `RefreshOfLastUser`: the pair sent in a refresh is of the last user unless the refresh was overtaken; the property alone does not say where the pair that arrives comes from |

`ComplianceGraphProofs` and `AlignStreamProofs` prove, under the specification of both (`StreamSpec`), for any messages,
answers, pieces and any limits of attempts, retries and runs, from `GraphAssumption` and `StreamAssumption`:

| theorem | property | argument |
|---|---|---|
| `ReportsAlwaysGrounded` | `ReportsGrounded` | `GraphInv`, which every step of the graph keeps (`GraphStepsKeepInv`): the objective and the documents of an executing run are of its own question (`ObjectiveOfQuestion`, `DocsOfObjective`). The property alone is not inductive: it is about reports, and a report is written from what the state held before |
| `AnswersAlwaysFollow` | `AnswersFollowTheirQuestion` | `GraphInv`: until a run answers, the last message is its question (`QuestionLast`) |
| `FallbackAfterAllAttempts` | `GivesUpAfterAllAttempts` | `GraphInv`: `retrieval_attempts` is the number of searches since this run began (`SearchesCounted`) |
| `DoneAlwaysMatchesThread` | `DoneMatchesThread` | `StreamInv`. The graph runs ahead of its reader, so what was sent says little about the run; the invariant is about what will have been sent when the events on their way are read. `Handle` is the event loop as a function, `Reaches` its effect on a sequence of events, and `StreamInv` says that what it reaches tells what the run has done. A node appends events and moves that state (`ReachesMore`), the reader takes one event off and leaves it alone |
| `StreamImplementsProtocol` | `ImplementsProtocol` | the same: each step of `Reaches` is one the protocol allows |
| `StreamTypeCorrect` | `StreamTypeOK` | by `StreamInv` |

`AuditPageProofs` proves, for any number of audits, sessions, tokens and any limit, from `ListAssumption` and
`PageAssumption`:

| theorem | property | argument |
|---|---|---|
| `SidebarIsTrue` | `ListAccountedFor` | `ListInv`. The property is about a list at rest; the invariant says what it shows at any time: the rows of the user, without those whose creation is still to be answered and with those whose deletion is (`ListTrue`). For that no two creations may make one session (`CreationsApart`) and no session is deleted before it is listed (`UnansweredThere`) |
| `ActiveSessionIsListed` | `ActiveSessionListed` | `ListInv` |
| `TokensAreOfThisStream` | `TokensOfThisStream` | `PageInv`: with no session on screen there is no answer, no token and no stream that is not aborted (`NothingWithoutSession`). It is needed because a change from no session to one clears nothing (`AlignPage.jsx` takes it for the creation of the audit in flight), so that whatever such a page had would be shown in the new session |
| `AnswersAreOfThisSession` | `AnswersOfThisSession` | `PageInv`, with `StreamsOfSession` and `Conversation`: the streams that are not aborted are of the session on screen. For answers that are there twice it needs `FetchBesideStream`: while a history is being fetched, every stream that may still come to its done event was started after the fetch, so a fetched copy of an answer to come is of an audit in `raced` (`FetchedBesideStream`) |
| `ErrorsAreOfThisStream` | `ErrorOfThisStream` | `PageInv` |
| `TypeCorrect` | `TypeOK` | by `PageInv`, since the page fetches the active session's history only |

`RegulationParserProofs` proves, for documents of any length and windows of any size with `Overlap < Target`, from
`ParserAssumption`:

| theorem | property | argument |
|---|---|---|
| `EveryChunkFiled` | `FiledWhereItStands` | `ParserInv`. The property speaks of the document as read so far, so a line might undo what held of the chunks there are. `Walk` ties the five variables to the document: they are what it says of the next line, and the lines held are those of the open unit, for an article all of them in order. `ChunksSound` adds that articles in the chunks lie before the open one, which no line can extend any more (`ChunksLater`) |
| `NoWordLost` | `NothingLost` | `Kept`: a word of a unit is in a chunk of it or in a line that waits for its flush. It needs that no text of an article waits while the recitals last (`NoBodyInRecitals`), for `EndUnit` flushes only one of the two |
| `CutsOverlap` | `NeighboursOverlap` | `WindowsCutWell`: two neighbours that `Windows` cuts share `Overlap` words, the last one too although it may be short, because it starts `Overlap` words before the end of a full one (`NextWindowOverlaps`). A chunk from a later flush is of another article |
| `TypeCorrect` | `TypeOK` | by `ParserInv`: a chunk of an article names a line, not 0 |

`VectorIndexProofs` proves, for any regulation, any number of overlapping runs, any sizes of batches, attempts and limits of
the search, from `IndexAssumption`:

| theorem | property | argument |
|---|---|---|
| `EveryVectorOfItsText` | `VectorsMatchTexts` | `IndexInv`: the n-th vector a run holds is that of chunk n (`VectorsInPlace`), which the property, being about stored points, does not say |
| `DoneIsStored` | `DoneMeansStored` | `IndexInv`: a run that stores has all vectors, and its first `step` chunks are in the collection (`Progress`) |
| `MissingIndexesExplained` | `IndexesAccountedFor` | inductive with `Progress`: the payload indexes a run is past are there |
| `SearchesGiveTheBest` | `BestOfEachArticle` | an action property; a finite set of points that is not empty has a best one (`GreatestOf`) |
| `TypeCorrect` | `TypeOK` | by `IndexInv` |

`GraphInv`, `StreamInv`, `ListInv`, `PageInv`, `ParserInv` and `IndexInv` were checked by TLC as invariants of the instances of the runs
before they were proved.

Where a proof needs induction over numbers (what `Without` leaves of a list, `FlattenSeq` makes of the words of lines or
`Windows` of a text, a best score), it takes a least counterexample instead: `LeastNumber` follows from the library's theorem that a well-founded order has minima. `Without` is
written as a recursive function for that reason, and `InOrder` picks the k-th line by counting instead of sorting.

Model-checked only: the liveness properties (`EveryRequestAnswered`, `EveryRunEnds`, `EveryResponseCloses`, `WaitersReleased`,
`LoadingEnds`, `PipelineEnds`), which are outside the prover's reach under fairness.

## Not modelled

The free trial (a cookie that is checked, and set with the response, in front of the stream that is modelled), rate
limiting (a library's decorators), keep-alive pings, configuration, logging, migrations, health probes, rendering, the
titles in the session list (the effect that sets them also renames an older session when an audit is sent in it before its
history has come), and the conversion of the PDF. The LLM, the similarity search, LangGraph's queue of runs,
Postgres and Qdrant are taken as the code uses them. Session ids are assumed never to repeat, and neither are account ids.
Wording is abstracted: a message is its kind and the question it is about.

## Plan

1. Done: `Sessions` with its ledger and proofs; the graph and the stream over it; the browser's token client; the parser and
   the index; `Accounts` with its register and proofs; `SessionList` composed with the page; the proofs of the graph, the
   stream, the page, the list, the parser and the index.
2. Left to model: the free trial (one admitted per cookie, and how many a visitor gets who sends several at once), the title
   effect of the page with the title update of the backend, several tabs on one `localStorage`.
3. Done: every safety property the runs check and every refinement is proved. What is modelled next is proved with it.
