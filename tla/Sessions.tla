------------------------------ MODULE Sessions ------------------------------
(***************************************************************************)
(* The session API of the backend: the requests of src/backend/app/api as  *)
(* processes that step from one database transaction, or one call to the   *)
(* LangGraph server, to the next.  Between two steps of a request any      *)
(* other request may run: the handlers are coroutines and every `await` on *)
(* Postgres or LangGraph is a scheduling point.                            *)
(*                                                                         *)
(*   create    POST   /sessions          lock, count, insert, refresh      *)
(*   align     POST   /align             ownership, increment, threshold,  *)
(*                                       then a LangGraph run              *)
(*   messages  GET    /sessions/{id}/messages                              *)
(*   title     PATCH  /sessions/{id}     select, update, refresh           *)
(*   delete    DELETE /sessions/{id}     the row, then the thread          *)
(*   account   DELETE /users/me          list, threads one by one, user    *)
(*                                                                         *)
(* Every request is one HTTP request: it arrives once and is answered at   *)
(* most once.  Session ids are uuid4 values and never come back; the id of *)
(* a session is also the id of its LangGraph thread.                       *)
(***************************************************************************)
EXTENDS Naturals, FiniteSets

CONSTANTS
  User,         \* accounts; an account id is a uuid4 and is never reused
  Session,      \* session ids
  Req,          \* HTTP requests
  LockKey,      \* values of hashtext(:key)::bigint
  HashText,     \* the lock key of each user; two users may share a key
  MaxSessions,  \* MAX_SESSIONS_PER_USER
  Threshold,    \* USER_MESSAGE_THRESHOLD
  Attempts,     \* stop_after_attempt of the call that starts a run
  PoolSize,     \* pool_size + max_overflow of the engine
  PageLimit,    \* default limit of list_user_sessions
  Mix,          \* the operations the requests of this instance ask for
  Faults,       \* the failures of this instance, a subset of Fault
  NoUser, NoSession, NoReq

Operation == {"create", "align", "messages", "title", "delete", "account"}

\* "db": a statement fails; "agent": the LangGraph server fails or is out of
\* reach; "crash": the backend process dies and is restarted.
Fault == {"db", "agent", "crash"}

ASSUME SessionsAssumption ==
  /\ HashText \in [User -> LockKey]
  /\ MaxSessions \in Nat
  /\ Threshold \in Nat
  /\ Attempts \in Nat \ {0}
  /\ PoolSize \in Nat \ {0}
  /\ PageLimit \in Nat
  /\ Mix \subseteq Operation
  /\ Faults \subseteq Fault
  /\ NoUser \notin User
  /\ NoSession \notin Session
  /\ NoReq \notin Req

VARIABLES
  users,      \* rows of the table users
  row,        \* "unborn", "live" or "gone": the life of each sessions row
  owner,      \* user_id of the row; kept when the row goes, as a history
  count,      \* message_count of the row
  talk,       \* users whose messages the thread of the session holds;
              \* {} when LangGraph has no such thread
  holder,     \* the transaction that holds each advisory lock
  pc, op, user, sess,  \* of each request: next step, operation, subject
  seen,       \* of each align request: the message_count it was returned
  todo,       \* of each deletion: the threads it has still to delete
  tries,      \* of each align request: failed attempts to start its run
  answer,     \* of each request: HTTP status, 0 while it has none
  late,       \* history: sessions on which a run was started after, or
              \* during, the deletion of the session or of its owner
  swallowed   \* history: sessions whose thread deletion failed silently

store  == <<users, row, owner, count>>
locals == <<op, user, sess>>
vars   == <<store, talk, holder, pc, locals, seen, todo, tries, answer,
            late, swallowed>>

Step == {"new", "auth", "begin", "lock", "count", "insert", "refresh",
         "own", "bump", "gate", "run", "stream", "read",
         "find", "settitle", "reread", "drop", "list", "unthread", "deluser",
         "done", "crashed"}

Status == {0, 200, 201, 204, 401, 404, 409, 429, 500}

OwnedBy(u) == {s \in Session : row[s] = "live" /\ owner[s] = u}

\* The WHERE clause id = :session_id AND user_id = :user_id.
Owns(u, s) == row[s] = "live" /\ owner[s] = u

TypeOK ==
  /\ users \subseteq User
  /\ row \in [Session -> {"unborn", "live", "gone"}]
  /\ owner \in [Session -> User \cup {NoUser}]
  /\ count \in [Session -> Nat]
  /\ talk \in [Session -> SUBSET User]
  /\ holder \in [LockKey -> Req \cup {NoReq}]
  /\ pc \in [Req -> Step]
  /\ op \in [Req -> Operation \cup {"none"}]
  /\ user \in [Req -> User \cup {NoUser}]
  /\ sess \in [Req -> Session \cup {NoSession}]
  /\ seen \in [Req -> Nat]
  /\ todo \in [Req -> SUBSET Session]
  /\ tries \in [Req -> Nat]
  /\ answer \in [Req -> Status]
  /\ late \subseteq Session
  /\ swallowed \subseteq Session

\* The accounts exist; some of them have already opened sessions, within the
\* limit, on which nothing was sent yet.
Init ==
  /\ users = User
  /\ row \in [Session -> {"unborn", "live"}]
  /\ owner \in [Session -> User \cup {NoUser}]
  /\ \A s \in Session : row[s] = "live" <=> owner[s] \in User
  /\ \A u \in User : /\ IsFiniteSet(OwnedBy(u))
                     /\ Cardinality(OwnedBy(u)) <= MaxSessions
  /\ count = [s \in Session |-> 0]
  /\ talk = [s \in Session |-> {}]
  /\ holder = [k \in LockKey |-> NoReq]
  /\ pc = [r \in Req |-> "new"]
  /\ op = [r \in Req |-> "none"]
  /\ user = [r \in Req |-> NoUser]
  /\ sess = [r \in Req |-> NoSession]
  /\ seen = [r \in Req |-> 0]
  /\ todo = [r \in Req |-> {}]
  /\ tries = [r \in Req |-> 0]
  /\ answer = [r \in Req |-> 0]
  /\ late = {}
  /\ swallowed = {}

-----------------------------------------------------------------------------
(* Steps of a request *)

Goto(r, step) == pc' = [pc EXCEPT ![r] = step]

Respond(r, status) ==
  /\ Goto(r, "done")
  /\ answer' = [answer EXCEPT ![r] = status]

\* The requests inside a transaction that spans several steps, each with a
\* pooled connection checked out.
Connections == {r \in Req : pc[r] \in {"lock", "count", "insert", "settitle"}}

\* A transaction needs a connection of the pool before its first statement.
FreeConnection == Cardinality(Connections) < PoolSize

\* COMMIT and ROLLBACK release the transaction's advisory lock.
Release(r) ==
  holder' = [k \in LockKey |-> IF holder[k] = r THEN NoReq ELSE holder[k]]

\* Requests that may still insert a row; the bound of the instance on session
\* ids keeps one fresh id for each.
Creating == {r \in Req : pc[r] \notin {"new", "refresh", "done", "crashed"} /\ op[r] = "create"}
FreshIdLeft ==
  Cardinality(Creating) < Cardinality({s \in Session : row[s] = "unborn"})

\* A request with a validly signed access token of u, and a session id that
\* was handed out to somebody.
Arrive(r) ==
  \E o \in Mix, u \in User, s \in Session \cup {NoSession} :
    /\ pc[r] = "new"
    /\ o \in {"create", "account"} <=> s = NoSession
    /\ s # NoSession => row[s] # "unborn"
    /\ o = "create" => FreshIdLeft
    /\ Goto(r, "auth")
    /\ op' = [op EXCEPT ![r] = o]
    /\ user' = [user EXCEPT ![r] = u]
    /\ sess' = [sess EXCEPT ![r] = s]
    /\ UNCHANGED <<store, talk, holder, seen, todo, tries, answer, late, swallowed>>

FirstStep ==
  [create |-> "begin", align |-> "own", messages |-> "own",
   title |-> "find", delete |-> "drop", account |-> "list"]

\* get_current_user: the token outlives the account.
GetCurrentUser(r) ==
  /\ pc[r] = "auth"
  /\ FreeConnection
  /\ \/ /\ user[r] \in users
        /\ Goto(r, FirstStep[op[r]])
        /\ UNCHANGED answer
     \/ /\ user[r] \notin users
        /\ Respond(r, 401)
  /\ UNCHANGED <<store, talk, holder, locals, seen, todo, tries, late, swallowed>>

-----------------------------------------------------------------------------
(* POST /sessions: create_session_if_under_limit *)

BeginCreate(r) ==
  /\ pc[r] = "begin"
  /\ FreeConnection
  /\ Goto(r, "lock")
  /\ UNCHANGED <<store, talk, holder, locals, seen, todo, tries, answer, late, swallowed>>

\* Variant of AdvisoryLock: the lock is not awaited.
AdvisoryLockTried(r) ==
  /\ pc[r] = "lock"
  /\ Goto(r, "count")
  /\ holder' = [holder EXCEPT ![HashText[user[r]]] = r]
  /\ UNCHANGED <<store, talk, locals, seen, todo, tries, answer, late, swallowed>>

AdvisoryLock(r) ==
  /\ pc[r] = "lock"
  /\ Goto(r, "count")
  /\ holder[HashText[user[r]]] = NoReq
  /\ holder' = [holder EXCEPT ![HashText[user[r]]] = r]
  /\ UNCHANGED <<store, talk, locals, seen, todo, tries, answer, late, swallowed>>

\* Variant of CountSessions: the refusal leaves its transaction open.
CountSessionsUnfinished(r) ==
  /\ pc[r] = "count"
  /\ \/ /\ Cardinality(OwnedBy(user[r])) >= MaxSessions
        /\ Respond(r, 409)
     \/ /\ Cardinality(OwnedBy(user[r])) < MaxSessions
        /\ Goto(r, "insert")
        /\ UNCHANGED answer
  /\ UNCHANGED <<store, talk, holder, locals, seen, todo, tries, late, swallowed>>

CountSessions(r) ==
  /\ pc[r] = "count"
  /\ \/ /\ Cardinality(OwnedBy(user[r])) >= MaxSessions
        /\ Respond(r, 409)
        /\ Release(r)
     \/ /\ Cardinality(OwnedBy(user[r])) < MaxSessions
        /\ Goto(r, "insert")
        /\ UNCHANGED <<answer, holder>>
  /\ UNCHANGED <<store, talk, locals, seen, todo, tries, late, swallowed>>

\* Variant of InsertSession: the arguments of the record are swapped.
InsertSessionSwapped(r) ==
  /\ pc[r] = "insert"
  /\ user[r] \in users
  /\ \E s \in Session :
       /\ row[s] = "unborn"
       /\ row' = [row EXCEPT ![s] = "live"]
       /\ owner' = [owner EXCEPT ![s] = s]
       /\ sess' = [sess EXCEPT ![r] = s]
  /\ Goto(r, "refresh")
  /\ Release(r)
  /\ UNCHANGED <<users, count, talk, op, user, seen, todo, tries, answer, late, swallowed>>

\* INSERT and COMMIT.  The foreign key refuses the row of a deleted user, and
\* nothing turns that IntegrityError into an answer of its own.
InsertSession(r) ==
  /\ pc[r] = "insert"
  /\ \/ /\ user[r] \in users
        /\ \E s \in Session :
             /\ row[s] = "unborn"
             /\ row' = [row EXCEPT ![s] = "live"]
             /\ owner' = [owner EXCEPT ![s] = user[r]]
             /\ count' = [count EXCEPT ![s] = 0]
             /\ sess' = [sess EXCEPT ![r] = s]
        /\ Goto(r, "refresh")
        /\ UNCHANGED answer
     \/ /\ user[r] \notin users
        /\ Respond(r, 500)
        /\ UNCHANGED <<row, owner, count, sess>>
  /\ Release(r)
  /\ UNCHANGED <<users, talk, op, user, seen, todo, tries, late, swallowed>>

\* db.refresh after COMMIT is a transaction of its own; it raises when the row
\* is gone (POST /sessions and PATCH /sessions/{id}).
RefreshRow(r, from, status) ==
  /\ pc[r] = from
  /\ FreeConnection
  /\ Respond(r, IF row[sess[r]] = "live" THEN status ELSE 500)
  /\ UNCHANGED <<store, talk, holder, locals, seen, todo, tries, late, swallowed>>

-----------------------------------------------------------------------------
(* POST /align: validate_session, then stream_align; GET messages *)

\* Variant of ValidateOwnership: the session is looked up by its id alone.
ValidateOwnershipById(r) ==
  /\ pc[r] = "own"
  /\ FreeConnection
  /\ \/ /\ row[sess[r]] = "live"
        /\ Goto(r, IF op[r] = "align" THEN "bump" ELSE "read")
        /\ UNCHANGED answer
     \/ /\ row[sess[r]] # "live"
        /\ Respond(r, 404)
  /\ UNCHANGED <<store, talk, holder, locals, seen, todo, tries, late, swallowed>>

ValidateOwnership(r) ==
  /\ pc[r] = "own"
  /\ FreeConnection
  /\ \/ /\ Owns(user[r], sess[r])
        /\ Goto(r, IF op[r] = "align" THEN "bump" ELSE "read")
        /\ UNCHANGED answer
     \/ /\ ~ Owns(user[r], sess[r])
        /\ Respond(r, 404)
  /\ UNCHANGED <<store, talk, holder, locals, seen, todo, tries, late, swallowed>>

\* Variant of IncrementMessages: the threshold is checked on the record as it
\* was read before the update.
IncrementMessagesStale(r) ==
  /\ pc[r] = "bump"
  /\ FreeConnection
  /\ \/ /\ Owns(user[r], sess[r])
        /\ count' = [count EXCEPT ![sess[r]] = @ + 1]
        /\ seen' = [seen EXCEPT ![r] = count[sess[r]]]
        /\ Goto(r, "gate")
        /\ UNCHANGED answer
     \/ /\ ~ Owns(user[r], sess[r])
        /\ Respond(r, 404)
        /\ UNCHANGED <<count, seen>>
  /\ UNCHANGED <<users, row, owner, talk, holder, locals, todo, tries, late, swallowed>>

\* UPDATE ... SET message_count = message_count + 1 ... RETURNING
IncrementMessages(r) ==
  /\ pc[r] = "bump"
  /\ FreeConnection
  /\ \/ /\ Owns(user[r], sess[r])
        /\ count' = [count EXCEPT ![sess[r]] = @ + 1]
        /\ seen' = [seen EXCEPT ![r] = count[sess[r]] + 1]
        /\ Goto(r, "gate")
        /\ UNCHANGED answer
     \/ /\ ~ Owns(user[r], sess[r])
        /\ Respond(r, 404)
        /\ UNCHANGED <<count, seen>>
  /\ UNCHANGED <<users, row, owner, talk, holder, locals, todo, tries, late, swallowed>>

\* The status line of an admitted request is 200 whatever its stream holds.
CheckThreshold(r) ==
  /\ pc[r] = "gate"
  /\ \/ /\ seen[r] >= Threshold
        /\ Respond(r, 429)
     \/ /\ seen[r] < Threshold
        /\ Goto(r, "run")
        /\ answer' = [answer EXCEPT ![r] = 200]
  /\ UNCHANGED <<store, talk, holder, locals, seen, todo, tries, late, swallowed>>

\* The account deletions that have read their list of sessions and not yet
\* deleted the user.
ClosingAccount(u) ==
  \E d \in Req : pc[d] \in {"unthread", "deluser"} /\ op[d] = "account" /\ user[d] = u

\* runs.stream(..., if_not_exists="create") reaches the server.
RunReaches(r) ==
  /\ talk' = [talk EXCEPT ![sess[r]] = @ \cup {user[r]}]
  /\ late' = IF row[sess[r]] = "live" /\ ~ ClosingAccount(owner[sess[r]])
             THEN late ELSE late \cup {sess[r]}

StartRun(r) ==
  /\ pc[r] = "run"
  /\ Goto(r, "stream")
  /\ RunReaches(r)
  /\ UNCHANGED <<store, holder, locals, seen, todo, tries, answer, swallowed>>

\* An attempt fails, before it reached the server or after.  A connection error or
\* a timeout is retried, Attempts times in all; any other failure ends the stream.
StartRunFails(r) ==
  /\ pc[r] = "run"
  /\ "agent" \in Faults
  /\ tries' = [tries EXCEPT ![r] = @ + 1]
  /\ \/ tries[r] + 1 < Attempts /\ Goto(r, "run")
     \/ Goto(r, "done")
  /\ RunReaches(r) \/ UNCHANGED <<talk, late>>
  /\ UNCHANGED <<store, holder, locals, seen, todo, answer, swallowed>>

EndStream(r) ==
  /\ pc[r] = "stream"
  /\ Goto(r, "done")
  /\ UNCHANGED <<store, talk, holder, locals, seen, todo, tries, answer, late, swallowed>>

\* threads.get_state; a failure reads as an empty conversation.
ReadMessages(r) ==
  /\ pc[r] = "read"
  /\ Respond(r, 200)
  /\ UNCHANGED <<store, talk, holder, locals, seen, todo, tries, late, swallowed>>

-----------------------------------------------------------------------------
(* PATCH /sessions/{id}: update_session_title *)

FindForTitle(r) ==
  /\ pc[r] = "find"
  /\ FreeConnection
  /\ \/ /\ Owns(user[r], sess[r])
        /\ Goto(r, "settitle")
        /\ UNCHANGED answer
     \/ /\ ~ Owns(user[r], sess[r])
        /\ Respond(r, 404)
  /\ UNCHANGED <<store, talk, holder, locals, seen, todo, tries, late, swallowed>>

\* The UPDATE is flushed at COMMIT; one that matches no row raises.
CommitTitle(r) ==
  /\ pc[r] = "settitle"
  /\ \/ /\ row[sess[r]] = "live"
        /\ Goto(r, "reread")
        /\ UNCHANGED answer
     \/ /\ row[sess[r]] # "live"
        /\ Respond(r, 500)
  /\ UNCHANGED <<store, talk, holder, locals, seen, todo, tries, late, swallowed>>

-----------------------------------------------------------------------------
(* DELETE /sessions/{id} and DELETE /users/me *)

\* Variant of DropSession: only the row is deleted.
DropSessionRowOnly(r) ==
  /\ pc[r] = "drop"
  /\ FreeConnection
  /\ row' = IF Owns(user[r], sess[r]) THEN [row EXCEPT ![sess[r]] = "gone"] ELSE row
  /\ Respond(r, IF Owns(user[r], sess[r]) THEN 204 ELSE 404)
  /\ UNCHANGED <<users, owner, count, talk, holder, locals, seen, todo, tries, late, swallowed>>

\* Variant of DropSession: the thread goes even when no row was deleted.
DropSessionAnyway(r) ==
  /\ pc[r] = "drop"
  /\ FreeConnection
  /\ row' = IF Owns(user[r], sess[r]) THEN [row EXCEPT ![sess[r]] = "gone"] ELSE row
  /\ todo' = [todo EXCEPT ![r] = {sess[r]}]
  /\ Goto(r, "unthread")
  /\ UNCHANGED <<users, owner, count, talk, holder, locals, seen, tries, answer, late, swallowed>>

DropSession(r) ==
  /\ pc[r] = "drop"
  /\ FreeConnection
  /\ \/ /\ Owns(user[r], sess[r])
        /\ row' = [row EXCEPT ![sess[r]] = "gone"]
        /\ todo' = [todo EXCEPT ![r] = {sess[r]}]
        /\ Goto(r, "unthread")
        /\ UNCHANGED answer
     \/ /\ ~ Owns(user[r], sess[r])
        /\ Respond(r, 404)
        /\ UNCHANGED <<row, todo>>
  /\ UNCHANGED <<users, owner, count, talk, holder, locals, seen, tries, late, swallowed>>

\* list_user_sessions with its default limit: one page, the most recently
\* active sessions first, is all the deletion gets to see.
ListForDeletion(r) ==
  /\ pc[r] = "list"
  /\ FreeConnection
  /\ \E page \in SUBSET OwnedBy(user[r]) :
       /\ Cardinality(page) <= PageLimit
       /\ page = OwnedBy(user[r]) \/ Cardinality(page) = PageLimit
       /\ todo' = [todo EXCEPT ![r] = page]
       /\ Goto(r, IF page = {} THEN "deluser" ELSE "unthread")
  /\ UNCHANGED <<store, talk, holder, locals, seen, tries, answer, late, swallowed>>

\* One call of delete_langgraph_thread, which logs a failure and goes on.
DeleteThread(r) ==
  /\ pc[r] = "unthread"
  /\ \E t \in todo[r] :
       /\ todo' = [todo EXCEPT ![r] = @ \ {t}]
       /\ \/ /\ talk' = [talk EXCEPT ![t] = {}]
             /\ UNCHANGED swallowed
          \/ /\ "agent" \in Faults
             /\ swallowed' = swallowed \cup {t}
             /\ UNCHANGED talk
       /\ \/ /\ todo[r] # {t}
             /\ Goto(r, "unthread")
             /\ UNCHANGED answer
          \/ /\ todo[r] = {t} /\ op[r] = "account"
             /\ Goto(r, "deluser")
             /\ UNCHANGED answer
          \/ /\ todo[r] = {t} /\ op[r] = "delete"
             /\ Respond(r, 204)
  /\ UNCHANGED <<store, holder, locals, seen, tries, late>>

\* Variant of DropUser: the sessions are not deleted with their user.
DropUserOnly(r) ==
  /\ pc[r] = "deluser"
  /\ FreeConnection
  /\ users' = users \ {user[r]}
  /\ Respond(r, 204)
  /\ UNCHANGED <<row, owner, count, talk, holder, locals, seen, todo, tries, late, swallowed>>

\* DELETE FROM users, which cascades to the sessions the user has by now.
DropUser(r) ==
  /\ pc[r] = "deluser"
  /\ FreeConnection
  /\ users' = users \ {user[r]}
  /\ row' = [s \in Session |-> IF Owns(user[r], s) THEN "gone" ELSE row[s]]
  /\ Respond(r, 204)
  /\ UNCHANGED <<owner, count, talk, holder, locals, seen, todo, tries, late, swallowed>>

-----------------------------------------------------------------------------
(* Failures *)

\* A statement fails, or no connection is had in time: the transaction is
\* rolled back and the request answered 500.
DatabaseFails(r) ==
  /\ "db" \in Faults
  /\ pc[r] \in {"auth", "begin", "lock", "count", "insert", "refresh", "own",
                "bump", "find", "settitle", "reread", "drop", "list", "deluser"}
  /\ Respond(r, 500)
  /\ Release(r)
  /\ UNCHANGED <<store, talk, locals, seen, todo, tries, late, swallowed>>

InFlight(r) == pc[r] \notin {"new", "done", "crashed"}

\* The process dies: its connections close, so Postgres rolls back.
Crash ==
  /\ "crash" \in Faults
  /\ \E r \in Req : InFlight(r)
  /\ pc' = [r \in Req |-> IF InFlight(r) THEN "crashed" ELSE pc[r]]
  /\ holder' = [k \in LockKey |-> NoReq]
  /\ UNCHANGED <<store, talk, locals, seen, todo, tries, answer, late, swallowed>>

-----------------------------------------------------------------------------

Serve(r) ==
  \/ GetCurrentUser(r)
  \/ BeginCreate(r)
  \/ AdvisoryLock(r)
  \/ CountSessions(r)
  \/ InsertSession(r)
  \/ RefreshRow(r, "refresh", 201)
  \/ ValidateOwnership(r)
  \/ IncrementMessages(r)
  \/ CheckThreshold(r)
  \/ StartRun(r)
  \/ EndStream(r)
  \/ ReadMessages(r)
  \/ FindForTitle(r)
  \/ CommitTitle(r)
  \/ RefreshRow(r, "reread", 200)
  \/ DropSession(r)
  \/ ListForDeletion(r)
  \/ DeleteThread(r)
  \/ DropUser(r)

Next ==
  \/ \E r \in Req : Arrive(r)
  \/ \E r \in Req : Serve(r)
  \/ \E r \in Req : StartRunFails(r)
  \/ \E r \in Req : DatabaseFails(r)
  \/ Crash

Spec == Init /\ [][Next]_vars

\* The event loop runs a coroutine whose await is ready; nobody has to send a
\* request, and no failure has to happen.
FairSpec == Spec /\ \A r \in Req : WF_vars(Serve(r))

-----------------------------------------------------------------------------
(* Properties *)

\* No user ever has more live sessions than MAX_SESSIONS_PER_USER, however
\* many POST /sessions run at once: the advisory lock makes the count and the
\* insert of create_session_if_under_limit one step to other creations.
SessionQuota ==
  \A u \in User : /\ IsFiniteSet(OwnedBy(u))
                  /\ Cardinality(OwnedBy(u)) <= MaxSessions

Admitted(s) == {r \in Req : op[r] = "align" /\ sess[r] = s /\ answer[r] = 200}

\* At most Threshold - 1 align requests of a session ever get past
\* check_message_threshold, however they interleave with each other, with
\* deletions and with crashes between the increment and the check.
AdmissionsBounded ==
  \A s \in Session :
    /\ IsFiniteSet(Admitted(s))
    /\ Cardinality(Admitted(s)) <= IF Threshold = 0 THEN 0 ELSE Threshold - 1

\* A request that is about to read a thread reads messages of its own user
\* only, although the ownership check is a transaction that ended before.
ReadsOwnMessages ==
  \A r \in Req : pc[r] = "read" => talk[sess[r]] \subseteq {user[r]}

\* A thread that outlives its session is accounted for: a run was started on
\* it while or after the session or its owner was being deleted, the deletion
\* of the thread failed silently, or its deletion is still to come (or died
\* with the request).  delete_user_session and delete_user_account leave no
\* other thread behind.
OrphansAccountedFor ==
  \A s \in Session :
    row[s] = "gone" /\ talk[s] # {} =>
      s \in late \/ s \in swallowed \/ \E r \in Req : s \in todo[r]

\* The thread of a live session is only ever deleted by the deletion of its
\* owner's account: DELETE /sessions/{id} removes the row first, so a session
\* the user still sees never loses its history to it.
HistoryOfLiveSessionsKept ==
  [][\A s \in Session :
       talk[s] # {} /\ talk'[s] = {} /\ row[s] = "live"
         => ClosingAccount(owner[s])]_vars

\* Every request that arrives is answered: the advisory lock is always handed
\* on, and requests that wait for it with a pooled connection checked out
\* never keep its holder from finishing.
EveryRequestAnswered ==
  \A r \in Req : pc[r] = "auth" ~> pc[r] \in {"done", "crashed"}

\* The API keeps the ledger of module SessionLedger: seen from the database and
\* the answers, every step is one atomic operation of it or none.
Ledger == INSTANCE SessionLedger WITH
  accounts <- users,
  sessions <- [u \in User |-> OwnedBy(u)],
  closed   <- {s \in Session : row[s] = "gone"},
  served   <- [s \in Session |-> Cardinality(Admitted(s))]

ImplementsLedger == Ledger!Spec

-----------------------------------------------------------------------------
(* The inductive invariant behind these properties (module SessionsProofs) *)

\* What the next step of a request says of its operation and its subject.
Underway ==
  \A r \in Req :
    /\ pc[r] # "new" => op[r] \in Operation /\ user[r] \in User
    /\ pc[r] \in {"auth", "own", "bump", "gate", "run", "stream", "read", "find",
                  "settitle", "reread", "drop", "refresh"}
         => sess[r] \in Session \/ (pc[r] = "auth" /\ op[r] \in {"create", "account"})
    /\ sess[r] \in Session => row[sess[r]] # "unborn"
    /\ pc[r] \in {"begin", "lock", "count", "insert", "refresh"} => op[r] = "create"
    /\ pc[r] = "own" => op[r] \in {"align", "messages"}
    /\ pc[r] \in {"bump", "gate", "run", "stream"} => op[r] = "align"
    /\ pc[r] = "read" => op[r] = "messages"
    /\ pc[r] \in {"find", "settitle", "reread"} => op[r] = "title"
    /\ pc[r] = "drop" => op[r] = "delete"
    /\ pc[r] \in {"list", "deluser"} => op[r] = "account"
    /\ pc[r] = "unthread" => op[r] \in {"delete", "account"}
    /\ pc[r] \in {"new", "auth", "drop", "list"} => todo[r] = {}

\* The advisory lock is held from the count to the end of the transaction,
\* and the count a creation has read stays true of its user until then.
LockHeld ==
  \A r \in Req : pc[r] \in {"count", "insert"} => holder[HashText[user[r]]] = r

RoomLeft ==
  \A r \in Req : pc[r] = "insert" => Cardinality(OwnedBy(user[r])) < MaxSessions

QuotaInv == Underway /\ LockHeld /\ RoomLeft /\ SessionQuota

\* The message_count values handed out on one session are all different: each
\* align request holds a ticket of its own, and an admitted one a low ticket.
Counted(r) == op[r] = "align" /\ seen[r] > 0

Tickets ==
  \A r \in Req :
    /\ pc[r] = "new" => seen[r] = 0
    /\ pc[r] \in {"new", "auth", "own", "bump", "gate"} => answer[r] = 0
    /\ pc[r] = "gate" => seen[r] > 0
    /\ Counted(r) => sess[r] \in Session /\ seen[r] <= count[sess[r]]
    /\ op[r] = "align" /\ answer[r] = 200 => seen[r] \in 1..(Threshold - 1)
    /\ \A q \in Req :
         Counted(r) /\ Counted(q) /\ sess[r] = sess[q] /\ seen[r] = seen[q] => r = q

TicketInv == Underway /\ Tickets

\* A thread holds messages of the owner of its session and of nobody else;
\* requests past the ownership check are the owner's.
Ownership ==
  /\ \A s \in Session : talk[s] \subseteq {owner[s]}
  /\ \A s \in Session : row[s] = "unborn" => talk[s] = {}
  /\ \A r \in Req : pc[r] \in {"bump", "gate", "run", "stream", "read"}
                    => owner[sess[r]] = user[r]

\* The threads a deletion has still to delete are of its own session, whose
\* row is gone, or of the account it deletes.
ToDelete ==
  \A r \in Req : \A t \in todo[r] :
    /\ row[t] # "unborn"
    /\ op[r] = "delete" => row[t] = "gone"
    /\ op[r] = "account" => owner[t] = user[r]

Explained(s) ==
  s \in late \/ s \in swallowed \/ \E r \in Req : s \in todo[r]

OrphanInv ==
  \A s \in Session :
    /\ talk[s] # {}
    /\ row[s] = "gone" \/ (row[s] = "live" /\ ClosingAccount(owner[s]))
    => Explained(s)

=============================================================================
