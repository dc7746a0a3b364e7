------------------------------ MODULE Accounts ------------------------------
(***************************************************************************)
(* The accounts of the backend: the routes of api/routes/auth.py and       *)
(* DELETE /users/me, with services/auth_service.py, the tokens of          *)
(* infrastructure/auth.py and the statements on table users.               *)
(*                                                                         *)
(* A request gives way at each transaction and at each password hash, for  *)
(* which it leaves the event loop; one action is what it does in between.  *)
(* No code writes email, hashed_password or is_active of a row that is     *)
(* there, so a row is what it was created with, and it is active.          *)
(***************************************************************************)
EXTENDS Naturals, Sequences

CONSTANTS Email, Password, Request, Nobody

Credentials == [email : Email, password : Password]

ASSUME AccountsAssumption == Nobody \notin Credentials

VARIABLES
  made,    \* the credentials of every account ever made; its place is its id
  users,   \* ids of the rows of table users
  tokens,  \* pairs issued: for which id, and to whom
  step,    \* of each request: what it does next, or its status code; it begins
           \* with the name of its route
  who,     \* of each request: the credentials of whoever makes it
  id       \* of each request: the account it has found, 0 for none

requests == <<step, who, id>>
vars == <<made, users, tokens, requests>>

Open == {"signup", "login"}
Guarded == {"refresh", "me", "delete"}
Step == Open \cup Guarded \cup {"insert", "reread", "verify", "close"}
Status == {"served", "401", "409", "500"}

TypeOK ==
  /\ made \in Seq(Credentials)
  /\ users \subseteq DOMAIN made
  /\ tokens \subseteq [id : DOMAIN made, who : Credentials]
  /\ step \in [Request -> {"idle"} \cup Step \cup Status]
  /\ who \in [Request -> Credentials \cup {Nobody}]
  /\ id \in [Request -> {0} \cup DOMAIN made]

Init ==
  /\ made = <<>>
  /\ users = {}
  /\ tokens = {}
  /\ step = [r \in Request |-> "idle"]
  /\ who = [r \in Request |-> Nobody]
  /\ id = [r \in Request |-> 0]

Goto(r, s) == step' = [step EXCEPT ![r] = s]
With(e) == {u \in users : made[u].email = e}

\* _issue_tokens, the last thing before the answer.
IssueTokens(r, u) ==
  /\ tokens' = tokens \cup {[id |-> u, who |-> who[r]]}
  /\ Goto(r, "served")

-----------------------------------------------------------------------------
(* Arrival *)

\* POST /auth/signup and /auth/login carry an address and a password.
ArriveWithCredentials(r) ==
  /\ step[r] = "idle"
  /\ \E route \in Open, c \in Credentials :
       /\ Goto(r, route)
       /\ who' = [who EXCEPT ![r] = c]
  /\ UNCHANGED <<made, users, tokens, id>>

TypeOfToken == {"access", "refresh"}
TypeFor(route) == IF route = "refresh" THEN "refresh" ELSE "access"

\* The others carry a token of the caller's.  It is refused unless its
\* signature holds, it has not expired and it is of the type the route wants.
ArriveWithToken(r) ==
  /\ step[r] = "idle"
  /\ \E route \in Guarded, t \in tokens, type \in TypeOfToken :
       /\ who' = [who EXCEPT ![r] = t.who]
       /\ id' = [id EXCEPT ![r] = t.id]
       /\ \/ type = TypeFor(route) /\ Goto(r, route)
          \/ Goto(r, "401")
  /\ UNCHANGED <<made, users, tokens>>

-----------------------------------------------------------------------------
(* signup *)

LookUpForSignup(r) ==
  /\ step[r] = "signup"
  /\ \/ With(who[r].email) # {} /\ Goto(r, "409")
     \/ With(who[r].email) = {} /\ Goto(r, "insert")
  /\ UNCHANGED <<made, users, tokens, who, id>>

\* Variant of CreateUser: the address is not unique in the table.
CreateUserUnchecked(r) ==
  /\ step[r] = "insert"
  /\ made' = Append(made, who[r])
  /\ users' = users \cup {Len(made) + 1}
  /\ id' = [id EXCEPT ![r] = Len(made) + 1]
  /\ Goto(r, "reread")
  /\ UNCHANGED <<tokens, who>>

\* Variant of CreateUser: the id asked for is not that of the new row.
CreateUserBefore(r) ==
  /\ step[r] = "insert"
  /\ made' = Append(made, who[r])
  /\ users' = users \cup {Len(made) + 1}
  /\ id' = [id EXCEPT ![r] = Len(made) + 2]
  /\ Goto(r, "reread")
  /\ UNCHANGED <<tokens, who>>

\* The unique constraint decides between signups that looked up together.
CreateUser(r) ==
  /\ step[r] = "insert"
  /\ \/ /\ With(who[r].email) # {}
        /\ Goto(r, "409")
        /\ UNCHANGED <<made, users, id>>
     \/ /\ With(who[r].email) = {}
        /\ made' = Append(made, who[r])
        /\ users' = users \cup {Len(made) + 1}
        /\ id' = [id EXCEPT ![r] = Len(made) + 1]
        /\ Goto(r, "reread")
  /\ UNCHANGED <<tokens, who>>

\* The row is read again after its commit; somebody who signed in meanwhile may
\* have deleted it.
RefreshUserRow(r) ==
  /\ step[r] = "reread"
  /\ \/ id[r] \in users /\ IssueTokens(r, id[r])
     \/ id[r] \notin users /\ Goto(r, "500") /\ UNCHANGED tokens
  /\ UNCHANGED <<made, users, who, id>>

-----------------------------------------------------------------------------
(* login *)

LookUpForLogin(r) ==
  /\ step[r] = "login"
  /\ \E u \in With(who[r].email) \cup {0} :
       /\ u = 0 => With(who[r].email) = {}
       /\ id' = [id EXCEPT ![r] = u]
  /\ Goto(r, "verify")
  /\ UNCHANGED <<made, users, tokens, who>>

Verified(r) == id[r] # 0 /\ made[id[r]].password = who[r].password

\* Variant of VerifyPassword: the tokens are for whoever has the address now.
VerifyPasswordAndLookUp(r) ==
  /\ step[r] = "verify"
  /\ Verified(r)
  /\ \E u \in With(who[r].email) : IssueTokens(r, u)
  /\ UNCHANGED <<made, users, who, id>>

\* The password is compared with the hash that was read, or with a dummy.
VerifyPassword(r) ==
  /\ step[r] = "verify"
  /\ \/ Verified(r) /\ IssueTokens(r, id[r])
     \/ ~ Verified(r) /\ Goto(r, "401") /\ UNCHANGED tokens
  /\ UNCHANGED <<made, users, who, id>>

-----------------------------------------------------------------------------
(* refresh, /auth/me and DELETE /users/me *)

Refresh(r) ==
  /\ step[r] = "refresh"
  /\ \/ id[r] \in users /\ IssueTokens(r, id[r])
     \/ id[r] \notin users /\ Goto(r, "401") /\ UNCHANGED tokens
  /\ UNCHANGED <<made, users, who, id>>

GetCurrentUser(r) ==
  /\ \/ step[r] = "me" /\ id[r] \in users /\ Goto(r, "served")
     \/ step[r] = "delete" /\ id[r] \in users /\ Goto(r, "close")
     \/ step[r] \in {"me", "delete"} /\ id[r] \notin users /\ Goto(r, "401")
  /\ UNCHANGED <<made, users, tokens, who, id>>

\* The answer is 204 also when another request was faster; the sessions and
\* their threads are in module Sessions.
DeleteUser(r) ==
  /\ step[r] = "close"
  /\ users' = users \ {id[r]}
  /\ Goto(r, "served")
  /\ UNCHANGED <<made, tokens, who, id>>

\* The database refuses, or the process dies: what was committed stays.
Fail(r) ==
  /\ step[r] \in Step
  /\ Goto(r, "500")
  /\ UNCHANGED <<made, users, tokens, who, id>>

Serve(r) ==
  \/ ArriveWithCredentials(r)
  \/ ArriveWithToken(r)
  \/ LookUpForSignup(r)
  \/ CreateUser(r)
  \/ RefreshUserRow(r)
  \/ LookUpForLogin(r)
  \/ VerifyPassword(r)
  \/ Refresh(r)
  \/ GetCurrentUser(r)
  \/ DeleteUser(r)
  \/ Fail(r)

Next == \E r \in Request : Serve(r)

Spec == Init /\ [][Next]_vars

-----------------------------------------------------------------------------
(* Properties *)

\* Signing up and closing an account are atomic, an address never has two
\* accounts and an id never comes back, although signup looks the address up,
\* hashes the password and inserts the row in three steps, of which any may fail.
Register == INSTANCE AccountRegister WITH
  account <- [e \in Email |-> With(e)],
  last    <- Len(made)

ImplementsRegister == Register!Spec

\* Tokens for an account are only ever issued to somebody with the address and
\* the password it was registered with: also when the account is deleted, and
\* its address registered by somebody else, between the steps of a sign-in.
TokensNeedTheCredentials ==
  \A t \in tokens : t.id \in DOMAIN made /\ made[t.id] = t.who

=============================================================================
