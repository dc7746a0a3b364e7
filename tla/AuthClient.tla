----------------------------- MODULE AuthClient -----------------------------
(***************************************************************************)
(* One browser tab's token handling: services/authApi.js (request,         *)
(* refreshAccessToken, login, logout, deleteAccount) and the               *)
(* AuthProvider of context/AuthContext.jsx, against the token endpoints of *)
(* the backend.                                                            *)
(*                                                                         *)
(* A step is one task of the browser's event loop with the promise         *)
(* continuations it leads to; between two tasks answers may arrive in any  *)
(* order, the user may act and tokens may expire.                          *)
(*                                                                         *)
(* _issue_tokens makes an access and a refresh token together; a pair is   *)
(* named by its number of issue, 0 stands for no pair.  Tokens are signed, *)
(* not stored: issuing a pair does not end the life of an older one.       *)
(***************************************************************************)
EXTENDS Naturals, Sequences

CONSTANTS
  User,
  Call,        \* requests of the signed-in page
  Me,          \* the request GET /auth/me of checkAuth
  MaxIssued,   \* bound of the instance: pairs issued
  NoUser

ASSUME AuthAssumption ==
  /\ Me \notin Call
  /\ NoUser \notin User
  /\ MaxIssued \in Nat

VARIABLES
  issued,          \* the user of each pair that was issued
  accessDead, refreshDead,   \* pairs whose token the backend refuses
  stored,          \* the pair in localStorage
  refreshPromise,  \* "null", "pending", or "false": resolved and kept
  refreshing,      \* pairs sent in refresh requests that are in flight
  step,            \* of each request: "idle", "sent", "waiting" or "resent"
  carried,         \* of each request: the pair of its Authorization header
  deleting,        \* requests that are DELETE /users/me
  form,            \* the user whose sign-in request is in flight
  isAuthenticated,
  lastUser,        \* history: who signed in last, NoUser after a sign-out
  overtaken        \* history: the last sign-in or sign-out overtook a refresh

server  == <<issued, accessDead, refreshDead>>
tokens  == <<stored, refreshPromise, refreshing>>
request == <<step, carried, deleting>>
page    == <<form, isAuthenticated>>
history == <<lastUser, overtaken>>
vars    == <<server, tokens, request, page, history>>

Request == Call \cup {Me}
Issued == DOMAIN issued

\* While checkAuth is under way the pages behind the sign-in are not shown.
IsLoading == step[Me] # "idle"

TypeOK ==
  /\ issued \in Seq(User)
  /\ accessDead \subseteq Issued /\ refreshDead \subseteq Issued
  /\ stored \in Issued \cup {0}
  /\ refreshPromise \in {"null", "pending", "false"}
  /\ refreshing \in Seq(Issued)
  /\ step \in [Request -> {"idle", "sent", "waiting", "resent"}]
  /\ carried \in [Request -> Issued \cup {0}]
  /\ deleting \subseteq Call
  /\ form \in User \cup {NoUser}
  /\ isAuthenticated \in BOOLEAN
  /\ lastUser \in User \cup {NoUser}
  /\ overtaken \in BOOLEAN

\* A first visit: nothing is stored, so checkAuth makes no request.
Init ==
  /\ issued = <<>>
  /\ accessDead = {} /\ refreshDead = {}
  /\ stored = 0
  /\ refreshPromise = "null"
  /\ refreshing = <<>>
  /\ step = [c \in Request |-> "idle"]
  /\ carried = [c \in Request |-> 0]
  /\ deleting = {}
  /\ form = NoUser
  /\ isAuthenticated = FALSE
  /\ lastUser = NoUser
  /\ overtaken = FALSE

-----------------------------------------------------------------------------
(* The backend *)

Issue(u) == Len(issued) < MaxIssued /\ issued' = Append(issued, u)
NewPair == Len(issued) + 1

\* get_current_user and refresh look at the token, and at the user.
Accepts(p) == p # 0 /\ p \notin accessDead
Renews(p) == p # 0 /\ p \notin refreshDead

\* A token passes its `exp`.
Expire ==
  /\ \E p \in Issued :
       \/ accessDead' = accessDead \cup {p} /\ UNCHANGED refreshDead
       \/ /\ accessDead' = accessDead \cup {p}
          /\ refreshDead' = refreshDead \cup {p}
  /\ UNCHANGED <<issued, tokens, request, page, history>>

-----------------------------------------------------------------------------
(* Signing in and out *)

SubmitForm(u) ==
  /\ form = NoUser
  /\ form' = u
  /\ UNCHANGED <<server, tokens, request, isAuthenticated, history>>

SignedIn ==
  /\ form # NoUser
  /\ Issue(form)
  /\ stored' = NewPair
  /\ isAuthenticated' = TRUE
  /\ form' = NoUser
  /\ lastUser' = form
  /\ overtaken' = (refreshing # <<>>)
  /\ UNCHANGED <<accessDead, refreshDead, refreshPromise, refreshing, request>>

\* The backend refuses, or the request times out.
SignInFails ==
  /\ form # NoUser
  /\ form' = NoUser
  /\ UNCHANGED <<server, tokens, request, isAuthenticated, history>>

\* Variant of Logout: only the page forgets the user.
LogoutOfPage ==
  /\ isAuthenticated /\ ~ IsLoading
  /\ isAuthenticated' = FALSE
  /\ lastUser' = NoUser
  /\ overtaken' = (refreshing # <<>>)
  /\ UNCHANGED <<server, tokens, request, form>>

Logout ==
  /\ isAuthenticated /\ ~ IsLoading
  /\ stored' = 0
  /\ isAuthenticated' = FALSE
  /\ lastUser' = NoUser
  /\ overtaken' = (refreshing # <<>>)
  /\ UNCHANGED <<server, refreshPromise, refreshing, request, form>>

\* The page is loaded anew: what was in flight is lost, and checkAuth asks who
\* the stored tokens belong to.
Reload ==
  /\ refreshPromise' = "null"
  /\ refreshing' = <<>>
  /\ form' = NoUser
  /\ isAuthenticated' = FALSE
  /\ step' = [c \in Request |-> IF c = Me /\ stored # 0 THEN "sent" ELSE "idle"]
  /\ carried' = [c \in Request |-> IF c = Me THEN stored ELSE 0]
  /\ deleting' = {}
  /\ UNCHANGED <<server, stored, history>>

-----------------------------------------------------------------------------
(* request and refreshAccessToken *)

Send(c) ==
  /\ isAuthenticated /\ ~ IsLoading
  /\ step[c] = "idle"
  /\ step' = [step EXCEPT ![c] = "sent"]
  /\ carried' = [carried EXCEPT ![c] = stored]
  /\ deleting' \in {deleting, deleting \cup {c}}
  /\ UNCHANGED <<server, tokens, page, history>>

Idle(c) ==
  /\ step' = [step EXCEPT ![c] = "idle"]
  /\ carried' = [carried EXCEPT ![c] = 0]
  /\ deleting' = deleting \ {c}

\* clearTokens, and the event auth:unauthorized that AuthProvider listens to.
SignOut ==
  /\ stored' = 0
  /\ isAuthenticated' = FALSE
  /\ lastUser' = NoUser
  /\ overtaken' = (refreshing # <<>>)

PairsOf(u) == {p \in Issued : issued[p] = u}

\* The request is served; deleteAccount ends the account and signs out.
Succeeds(c) ==
  /\ step[c] \in {"sent", "resent"}
  /\ Accepts(carried[c])
  /\ Idle(c)
  /\ \/ /\ c \in deleting
        /\ accessDead' = accessDead \cup PairsOf(issued[carried[c]])
        /\ refreshDead' = refreshDead \cup PairsOf(issued[carried[c]])
        /\ SignOut
     \/ /\ c \notin deleting
        /\ isAuthenticated' = (isAuthenticated \/ c = Me)
        /\ UNCHANGED <<accessDead, refreshDead, stored, history>>
  /\ UNCHANGED <<issued, refreshPromise, refreshing, form>>

\* A timeout, an abort or a network error is thrown to the caller, and
\* checkAuth takes it for nobody signed in.
Throws(c) ==
  /\ step[c] \in {"sent", "resent"}
  /\ Idle(c)
  /\ isAuthenticated' = (isAuthenticated /\ c # Me)
  /\ UNCHANGED <<server, tokens, form, history>>

\* Variant of Refused: every 401 starts a refresh of its own.
RefusedRefreshesItself(c) ==
  /\ step[c] = "sent"
  /\ ~ Accepts(carried[c])
  /\ stored # 0
  /\ refreshPromise' = "pending"
  /\ refreshing' = Append(refreshing, stored)
  /\ step' = [step EXCEPT ![c] = "waiting"]
  /\ UNCHANGED <<server, stored, carried, deleting, page, history>>

\* Variant of Refused: it does not look whether there is a refresh token.
RefusedRefreshesBlindly(c) ==
  /\ step[c] = "sent"
  /\ ~ Accepts(carried[c])
  /\ refreshPromise \in {"pending", "null"}
  /\ refreshPromise' = "pending"
  /\ refreshing' = IF refreshPromise = "null" THEN Append(refreshing, stored)
                                              ELSE refreshing
  /\ step' = [step EXCEPT ![c] = "waiting"]
  /\ UNCHANGED <<server, stored, carried, deleting, page, history>>

\* A 401: join the refresh that is pending, or start one.
Refused(c) ==
  /\ step[c] = "sent"
  /\ ~ Accepts(carried[c])
  /\ refreshPromise = "pending" \/ (refreshPromise = "null" /\ stored # 0)
  /\ refreshPromise' = "pending"
  /\ refreshing' = IF refreshPromise = "null" THEN Append(refreshing, stored)
                                              ELSE refreshing
  /\ step' = [step EXCEPT ![c] = "waiting"]
  /\ UNCHANGED <<server, stored, carried, deleting, page, history>>

\* A 401 with no refresh token, or with a refreshPromise that was resolved to
\* false by such a one: `return false` comes before the try whose finally
\* clause sets refreshPromise to null.
RefusedForGood(c) ==
  /\ step[c] = "sent"
  /\ ~ Accepts(carried[c])
  /\ refreshPromise = "false" \/ (refreshPromise = "null" /\ stored = 0)
  /\ refreshPromise' = "false"
  /\ Idle(c)
  /\ SignOut
  /\ UNCHANGED <<server, refreshing, form>>

\* The retried request is refused: retry is false.
RefusedAgain(c) ==
  /\ step[c] = "resent"
  /\ ~ Accepts(carried[c])
  /\ Idle(c)
  /\ isAuthenticated' = (isAuthenticated /\ c # Me)
  /\ UNCHANGED <<server, tokens, form, history>>

Waiting == {c \in Request : step[c] = "waiting"}

\* The new pair is stored, and every request that waited is sent again with it.
RefreshSucceeds ==
  /\ refreshing # <<>>
  /\ Renews(Head(refreshing))
  /\ Issue(issued[Head(refreshing)])
  /\ stored' = NewPair
  /\ refreshing' = Tail(refreshing)
  /\ refreshPromise' = "null"
  /\ step' = [c \in Request |-> IF c \in Waiting THEN "resent" ELSE step[c]]
  /\ carried' = [c \in Request |-> IF c \in Waiting THEN NewPair ELSE carried[c]]
  /\ UNCHANGED <<accessDead, refreshDead, deleting, page, history>>

\* Variant of RefreshFails: the promise is left pending.
RefreshFailsUnresolved ==
  /\ refreshing # <<>>
  /\ refreshing' = Tail(refreshing)
  /\ UNCHANGED <<server, stored, refreshPromise, request, page, history>>

\* Refused, timed out or broken: everybody who waited signs out.
RefreshFails ==
  /\ refreshing # <<>>
  /\ refreshing' = Tail(refreshing)
  /\ refreshPromise' = "null"
  /\ step' = [c \in Request |-> IF c \in Waiting THEN "idle" ELSE step[c]]
  /\ carried' = [c \in Request |-> IF c \in Waiting THEN 0 ELSE carried[c]]
  /\ deleting' = deleting \ Waiting
  /\ stored' = 0
  /\ isAuthenticated' = FALSE
  /\ lastUser' = NoUser
  /\ UNCHANGED <<server, form, overtaken>>

Answer(c) == Succeeds(c) \/ Throws(c) \/ Refused(c) \/ RefusedForGood(c) \/ RefusedAgain(c)
RefreshAnswer == RefreshSucceeds \/ RefreshFails

Next ==
  \/ Expire
  \/ \E u \in User : SubmitForm(u)
  \/ SignedIn
  \/ SignInFails
  \/ Logout
  \/ Reload
  \/ \E c \in Call : Send(c)
  \/ \E c \in Request : Answer(c)
  \/ RefreshAnswer

Spec == Init /\ [][Next]_vars

\* fetchWithTimeout: the refresh request is answered, or aborted by its timer, which
\* bounds the wait for the headers; a body that never ends is assumed away.
FairSpec == Spec /\ WF_vars(RefreshAnswer)

-----------------------------------------------------------------------------
(* Properties *)

\* However many requests are refused at once, one refresh request is in
\* flight, and a request waits only while it is.
OneRefreshAtATime ==
  /\ Len(refreshing) <= 1
  /\ Waiting # {} => refreshPromise = "pending"
  /\ refreshPromise = "pending" <=> refreshing # <<>>

\* The tokens in localStorage are those of the user who signed in last, and
\* none after a sign-out, unless the answer to a refresh that was in flight at
\* the time arrived later.
StoredTokensAccountedFor ==
  stored # 0 => overtaken \/ issued[stored] = lastUser

\* Requests that wait for a refresh are released, all of them, whether it
\* succeeds or not and whatever the user does in the meantime.
WaitersReleased == Waiting # {} ~> Waiting = {}

\* "refreshes once and retries with the new token on a 401": a request that is
\* refused for its expired access token does not sign the user out while the
\* refresh token in localStorage is good.
GoodRefreshTokenIsUsed ==
  [][\A c \in Request :
       RefusedForGood(c) => ~ Renews(stored)]_vars

=============================================================================
