--------------------------- MODULE AuthClientProofs ---------------------------
(***************************************************************************)
(* Proofs about module AuthClient, for any users, requests and number of   *)
(* pairs of tokens.                                                        *)
(*                                                                         *)
(* AuthInv says what refreshPromise stands for: while it is pending one    *)
(* refresh request is in flight, and only then do requests wait.  The pair *)
(* that was sent with it is of the user who signed in last, unless a       *)
(* sign-in or sign-out has overtaken the refresh: that is what makes the   *)
(* pair it brings the right one to store.                                  *)
(***************************************************************************)
EXTENDS AuthClient, SequenceTheorems, TLAPS

InFlight == refreshing = <<>> \/ \E p \in Issued : refreshing = <<p>>

PromiseKept ==
  /\ refreshPromise = "pending" <=> refreshing # <<>>
  /\ \A c \in Request : step[c] = "waiting" => refreshPromise = "pending"

RefreshOfLastUser ==
  refreshing # <<>> => overtaken \/ issued[Head(refreshing)] = lastUser

AuthInv ==
  /\ TypeOK
  /\ InFlight
  /\ PromiseKept
  /\ StoredTokensAccountedFor
  /\ RefreshOfLastUser

-----------------------------------------------------------------------------
(* Lemmas *)

\* A pair that was issued keeps its name and its user when another is issued.
LEMMA IssuedGrows ==
  ASSUME issued \in Seq(User), NEW u \in User, Issue(u)
  PROVE  /\ issued' \in Seq(User)
         /\ Issued' = Issued \cup {NewPair}
         /\ NewPair \notin Issued \cup {0}
         /\ \A p \in Issued : issued'[p] = issued[p] /\ issued[p] \in User
         /\ issued'[NewPair] = u
<1>1. issued' = Append(issued, u)
  BY DEF Issue
<1>2. /\ issued' \in Seq(User)
      /\ Len(issued') = Len(issued) + 1
      /\ Len(issued) \in Nat
      /\ DOMAIN issued = 1..Len(issued)
      /\ DOMAIN issued' = 1..(Len(issued) + 1)
  BY <1>1
<1>3. \A p \in 1..Len(issued) : issued'[p] = issued[p] /\ issued[p] \in User
  BY <1>1
<1>4. issued'[Len(issued) + 1] = u
  BY <1>1
<1> QED
  BY <1>2, <1>3, <1>4 DEF Issued, NewPair

\* Sequences of at most one element.
LEMMA AtMostOne ==
  ASSUME NEW S
  PROVE  /\ <<>> \in Seq(S) /\ Len(<<>>) = 0
         /\ \A p \in S : /\ <<p>> \in Seq(S) /\ Len(<<p>>) = 1 /\ <<p>> # <<>>
                         /\ Head(<<p>>) = p
<1>1. <<>> \in Seq(S) /\ Len(<<>>) = 0
  OBVIOUS
<1>2. ASSUME NEW p \in S
      PROVE  <<p>> \in Seq(S) /\ Len(<<p>>) = 1 /\ <<p>> # <<>> /\ Head(<<p>>) = p
  OBVIOUS
<1> QED
  BY <1>1, <1>2

LEMMA InitEstablishesInv == Init => AuthInv
<1> SUFFICES ASSUME Init PROVE AuthInv
  OBVIOUS
<1>1. TypeOK
  BY AtMostOne DEF Init, TypeOK
<1>2. InFlight /\ PromiseKept
  BY DEF Init, InFlight, PromiseKept
<1>3. StoredTokensAccountedFor /\ RefreshOfLastUser
  BY DEF Init, StoredTokensAccountedFor, RefreshOfLastUser
<1> QED
  BY <1>1, <1>2, <1>3 DEF AuthInv

-----------------------------------------------------------------------------
(* Signing in and out, and expiring *)

LEMMA SessionStepsKeepInv ==
  ASSUME AuthInv,
         \/ Expire
         \/ \E u \in User : SubmitForm(u)
         \/ SignInFails
         \/ Logout
         \/ Reload
         \/ \E c \in Call : Send(c)
         \/ UNCHANGED vars
  PROVE  AuthInv'
<1> USE DEF AuthInv, server, tokens, request, page, history
<1>1. CASE Expire
  <2>1. /\ accessDead' \subseteq Issued /\ refreshDead' \subseteq Issued
        /\ UNCHANGED <<issued, tokens, request, page, history>>
    BY <1>1 DEF Expire, TypeOK
  <2> QED
    BY <2>1 DEF TypeOK, Issued, InFlight, PromiseKept, StoredTokensAccountedFor, RefreshOfLastUser
<1>2. ASSUME NEW u \in User, SubmitForm(u) PROVE AuthInv'
  BY <1>2 DEF SubmitForm, TypeOK, Issued, InFlight, PromiseKept, StoredTokensAccountedFor,
              RefreshOfLastUser
<1>3. CASE SignInFails
  BY <1>3 DEF SignInFails, TypeOK, Issued, InFlight, PromiseKept, StoredTokensAccountedFor,
              RefreshOfLastUser
<1>4. CASE Logout
  BY <1>4 DEF Logout, TypeOK, Issued, InFlight, PromiseKept, StoredTokensAccountedFor,
              RefreshOfLastUser
<1>5. CASE Reload
  <2>1. /\ refreshing' = <<>> /\ refreshPromise' = "null" /\ form' = NoUser
        /\ isAuthenticated' = FALSE /\ deleting' = {}
        /\ UNCHANGED <<server, stored, history>>
    BY <1>5 DEF Reload
  <2>2. /\ step' \in [Request -> {"idle", "sent"}]
        /\ carried' \in [Request -> Issued \cup {0}]
    BY <1>5 DEF Reload, TypeOK
  <2>3. TypeOK'
    BY <2>1, <2>2, AtMostOne DEF TypeOK, Issued
  <2>4. InFlight' /\ PromiseKept' /\ RefreshOfLastUser'
    BY <2>1, <2>2 DEF InFlight, PromiseKept, RefreshOfLastUser
  <2>5. StoredTokensAccountedFor'
    BY <2>1 DEF StoredTokensAccountedFor
  <2> QED
    BY <2>3, <2>4, <2>5
<1>6. ASSUME NEW c \in Call, Send(c) PROVE AuthInv'
  <2>1. /\ step' = [step EXCEPT ![c] = "sent"]
        /\ carried' = [carried EXCEPT ![c] = stored]
        /\ deleting' \subseteq Call
        /\ UNCHANGED <<server, tokens, page, history>>
    BY <1>6 DEF Send, TypeOK
  <2>2. TypeOK'
    BY <2>1 DEF TypeOK, Issued, Request
  <2>3. PromiseKept'
    BY <2>1 DEF PromiseKept, TypeOK
  <2>4. InFlight' /\ StoredTokensAccountedFor' /\ RefreshOfLastUser'
    BY <2>1 DEF InFlight, Issued, StoredTokensAccountedFor, RefreshOfLastUser
  <2> QED
    BY <2>2, <2>3, <2>4
<1>7. CASE UNCHANGED vars
  BY <1>7 DEF vars, TypeOK, Issued, InFlight, PromiseKept, StoredTokensAccountedFor,
              RefreshOfLastUser
<1> QED
  BY <1>1, <1>2, <1>3, <1>4, <1>5, <1>6, <1>7

\* A sign-in notes whether it overtakes a refresh.
LEMMA SignedInKeepsInv ==
  ASSUME AuthInv, SignedIn PROVE AuthInv'
<1> USE DEF AuthInv
<1>1. form \in User /\ Issue(form)
  BY AuthAssumption DEF SignedIn, TypeOK
<1>2. /\ issued' \in Seq(User)
      /\ Issued' = Issued \cup {NewPair}
      /\ NewPair \notin Issued \cup {0}
      /\ \A p \in Issued : issued'[p] = issued[p]
      /\ issued'[NewPair] = form
  BY <1>1, IssuedGrows DEF TypeOK
<1>3. /\ stored' = NewPair /\ isAuthenticated' = TRUE /\ form' = NoUser
      /\ lastUser' = form /\ overtaken' = (refreshing # <<>>)
      /\ UNCHANGED <<accessDead, refreshDead, refreshPromise, refreshing, step, carried, deleting>>
  BY DEF SignedIn, request
<1>4. InFlight'
  BY <1>2, <1>3 DEF InFlight
<1>5. TypeOK'
  <2>1. refreshing' \in Seq(Issued)'
    BY <1>4, AtMostOne DEF InFlight
  <2> QED
    BY <1>1, <1>2, <1>3, <2>1 DEF TypeOK
<1>6. PromiseKept'
  BY <1>3 DEF PromiseKept
<1>7. StoredTokensAccountedFor' /\ RefreshOfLastUser'
  BY <1>2, <1>3 DEF StoredTokensAccountedFor, RefreshOfLastUser
<1> QED
  BY <1>4, <1>5, <1>6, <1>7

-----------------------------------------------------------------------------
(* Requests and refreshes *)

\* The paths of request: a first refusal joins the refresh or starts the only one;
\* a request that ends leaves the tokens, or signs the user out and notes
\* whether that overtakes a refresh.
LEMMA AnswerKeepsInv ==
  ASSUME AuthInv, NEW c \in Request, Answer(c)
  PROVE  AuthInv'
<1> USE DEF AuthInv, server, tokens, page, history
<1>1. ASSUME Idle(c), accessDead' \subseteq Issued, refreshDead' \subseteq Issued,
             isAuthenticated' \in BOOLEAN,
             UNCHANGED <<issued, refreshPromise, refreshing, form>>,
             SignOut \/ UNCHANGED <<stored, history>>
      PROVE  AuthInv'
  <2>1. /\ step' = [step EXCEPT ![c] = "idle"]
        /\ carried' = [carried EXCEPT ![c] = 0]
        /\ deleting' = deleting \ {c}
    BY <1>1 DEF Idle
  <2>2. \/ stored' = 0 /\ lastUser' = NoUser /\ overtaken' = (refreshing # <<>>)
        \/ UNCHANGED <<stored, lastUser, overtaken>>
    BY <1>1 DEF SignOut
  <2>3. TypeOK'
    BY <1>1, <2>1, <2>2 DEF TypeOK, Issued
  <2>4. InFlight' /\ PromiseKept'
    BY <1>1, <2>1 DEF InFlight, PromiseKept, TypeOK, Issued
  <2>5. StoredTokensAccountedFor' /\ RefreshOfLastUser'
    <3>1. CASE stored' = 0 /\ lastUser' = NoUser /\ overtaken' = (refreshing # <<>>)
      BY <1>1, <3>1 DEF StoredTokensAccountedFor, RefreshOfLastUser
    <3>2. CASE UNCHANGED <<stored, lastUser, overtaken>>
      BY <1>1, <3>2 DEF StoredTokensAccountedFor, RefreshOfLastUser
    <3> QED
      BY <2>2, <3>1, <3>2
  <2> QED
    BY <2>3, <2>4, <2>5
<1>2. CASE Succeeds(c)
  <2>1. \A u : PairsOf(u) \subseteq Issued
    BY DEF PairsOf
  <2>2. /\ Idle(c)
        /\ UNCHANGED <<issued, refreshPromise, refreshing, form>>
        /\ accessDead' \subseteq Issued /\ refreshDead' \subseteq Issued
        /\ isAuthenticated' \in BOOLEAN
        /\ SignOut \/ UNCHANGED <<stored, history>>
    BY <1>2, <2>1 DEF Succeeds, SignOut, TypeOK
  <2> QED
    BY <1>1, <2>2
<1>3. CASE Throws(c) \/ RefusedAgain(c)
  <2>1. /\ Idle(c)
        /\ isAuthenticated' \in BOOLEAN
        /\ UNCHANGED <<issued, refreshPromise, refreshing, form, accessDead, refreshDead, stored, history>>
    BY <1>3 DEF Throws, RefusedAgain, TypeOK
  <2> QED
    BY <1>1, <2>1 DEF TypeOK
<1>4. CASE Refused(c)
  <2>1. /\ step' = [step EXCEPT ![c] = "waiting"]
        /\ refreshPromise' = "pending"
        /\ refreshPromise = "pending" \/ (refreshPromise = "null" /\ stored # 0)
        /\ UNCHANGED <<server, stored, carried, deleting, page, history>>
    BY <1>4 DEF Refused
  <2>2. CASE refreshPromise = "pending"
    <3>1. refreshing' = refreshing /\ refreshing # <<>>
      BY <1>4, <2>2 DEF Refused, PromiseKept
    <3>2. TypeOK'
      BY <2>1, <3>1 DEF TypeOK, Issued
    <3>3. InFlight' /\ PromiseKept'
      BY <2>1, <3>1 DEF InFlight, PromiseKept, Issued
    <3>4. StoredTokensAccountedFor' /\ RefreshOfLastUser'
      BY <2>1, <3>1 DEF StoredTokensAccountedFor, RefreshOfLastUser
    <3> QED
      BY <3>2, <3>3, <3>4
  <2>3. CASE refreshPromise = "null" /\ stored # 0
    <3>1. refreshing = <<>> /\ stored \in Issued
      BY <2>3 DEF PromiseKept, TypeOK
    <3>2. refreshing' = <<stored>>
      BY <1>4, <2>3, <3>1 DEF Refused
    <3>3. InFlight' /\ PromiseKept'
      BY <2>1, <3>1, <3>2 DEF InFlight, PromiseKept, Issued
    <3>4. refreshing' \in Seq(Issued)
      BY <3>1, <3>2
    <3>5. TypeOK'
      BY <2>1, <3>4 DEF TypeOK, Issued
    <3>6. StoredTokensAccountedFor' /\ RefreshOfLastUser'
      BY <2>1, <2>3, <3>2 DEF StoredTokensAccountedFor, RefreshOfLastUser
    <3> QED
      BY <3>3, <3>5, <3>6
  <2> QED
    BY <2>1, <2>2, <2>3
<1>5. CASE RefusedForGood(c)
  <2>1. /\ Idle(c) /\ SignOut
        /\ refreshPromise' = "false" /\ refreshPromise # "pending"
        /\ UNCHANGED <<server, refreshing, form>>
    BY <1>5 DEF RefusedForGood
  <2>2. refreshing = <<>> /\ \A d \in Request : step[d] # "waiting"
    BY <2>1 DEF PromiseKept
  <2>3. /\ step' = [step EXCEPT ![c] = "idle"]
        /\ carried' = [carried EXCEPT ![c] = 0]
        /\ deleting' = deleting \ {c}
        /\ stored' = 0 /\ isAuthenticated' = FALSE /\ lastUser' = NoUser
        /\ overtaken' = (refreshing # <<>>)
    BY <2>1 DEF Idle, SignOut
  <2>4. TypeOK'
    BY <2>1, <2>3 DEF TypeOK, Issued
  <2>5. InFlight' /\ PromiseKept'
    BY <2>1, <2>2, <2>3 DEF InFlight, PromiseKept, TypeOK
  <2>6. StoredTokensAccountedFor' /\ RefreshOfLastUser'
    BY <2>1, <2>2, <2>3 DEF StoredTokensAccountedFor, RefreshOfLastUser
  <2> QED
    BY <2>4, <2>5, <2>6
<1> QED
  BY <1>2, <1>3, <1>4, <1>5 DEF Answer

\* The answer to the one refresh in flight empties refreshing and releases all
\* who wait.
LEMMA RefreshAnswerKeepsInv ==
  ASSUME AuthInv, RefreshAnswer
  PROVE  AuthInv'
<1> USE DEF AuthInv
<1>1. PICK p \in Issued : refreshing = <<p>>
  BY DEF RefreshAnswer, RefreshSucceeds, RefreshFails, InFlight
<1>2. Head(refreshing) = p /\ Tail(refreshing) = <<>>
  BY <1>1
<1>3. CASE RefreshSucceeds
  <2>1. issued[p] \in User /\ Issue(issued[p])
    BY <1>2, <1>3 DEF RefreshSucceeds, TypeOK, Issued
  <2>2. /\ issued' \in Seq(User)
        /\ Issued' = Issued \cup {NewPair}
        /\ NewPair \notin Issued \cup {0}
        /\ issued'[NewPair] = issued[p]
    BY <2>1, IssuedGrows DEF TypeOK
  <2>3. /\ stored' = NewPair /\ refreshing' = <<>> /\ refreshPromise' = "null"
        /\ UNCHANGED <<accessDead, refreshDead, deleting, form, isAuthenticated, lastUser, overtaken>>
    BY <1>2, <1>3 DEF RefreshSucceeds, page, history
  <2>4. /\ step' \in [Request -> {"idle", "sent", "resent"}]
        /\ carried' \in [Request -> Issued \cup {NewPair, 0}]
    <3>1. \A c \in Request : /\ step[c] # "waiting" => step[c] \in {"idle", "sent", "resent"}
                             /\ carried[c] \in Issued \cup {0}
      BY DEF TypeOK
    <3> QED
      BY <1>3, <3>1 DEF RefreshSucceeds, Waiting
  <2>5. TypeOK'
    BY <2>2, <2>3, <2>4 DEF TypeOK
  <2>6. InFlight' /\ PromiseKept' /\ RefreshOfLastUser'
    BY <2>3, <2>4 DEF InFlight, PromiseKept, RefreshOfLastUser
  <2>7. StoredTokensAccountedFor'
    BY <1>1, <1>2, <2>2, <2>3 DEF StoredTokensAccountedFor, RefreshOfLastUser
  <2> QED
    BY <2>5, <2>6, <2>7
<1>4. CASE RefreshFails
  <2>1. /\ stored' = 0 /\ refreshing' = <<>> /\ refreshPromise' = "null"
        /\ isAuthenticated' = FALSE /\ lastUser' = NoUser
        /\ deleting' = deleting \ Waiting
        /\ UNCHANGED <<issued, accessDead, refreshDead, form, overtaken>>
    BY <1>2, <1>4 DEF RefreshFails, server
  <2>2. /\ step' \in [Request -> {"idle", "sent", "resent"}]
        /\ carried' \in [Request -> Issued \cup {0}]
    <3>1. \A c \in Request : /\ step[c] # "waiting" => step[c] \in {"idle", "sent", "resent"}
                             /\ carried[c] \in Issued \cup {0}
      BY DEF TypeOK
    <3> QED
      BY <1>4, <3>1 DEF RefreshFails, Waiting
  <2>3. TypeOK'
    BY <2>1, <2>2, AtMostOne DEF TypeOK, Issued
  <2>4. InFlight' /\ PromiseKept' /\ RefreshOfLastUser' /\ StoredTokensAccountedFor'
    BY <2>1, <2>2 DEF InFlight, PromiseKept, RefreshOfLastUser, StoredTokensAccountedFor
  <2> QED
    BY <2>3, <2>4
<1> QED
  BY <1>3, <1>4 DEF RefreshAnswer

LEMMA NextKeepsInv == AuthInv /\ [Next]_vars => AuthInv'
<1> SUFFICES ASSUME AuthInv, [Next]_vars PROVE AuthInv'
  OBVIOUS
<1> QED
  BY SessionStepsKeepInv, SignedInKeepsInv, AnswerKeepsInv, RefreshAnswerKeepsInv DEF Next

LEMMA AuthInvHolds == Spec => []AuthInv
<1>1. Init => AuthInv
  BY InitEstablishesInv
<1>2. AuthInv /\ [Next]_vars => AuthInv'
  BY NextKeepsInv
<1> QED
  BY <1>1, <1>2, PTL DEF Spec

-----------------------------------------------------------------------------
(* Theorems *)

\* The state of the token client keeps its types: in particular a refresh is only
\* ever asked for with a refresh token in hand.
THEOREM AuthTypeOK == Spec => []TypeOK
<1>1. AuthInv => TypeOK
  BY DEF AuthInv
<1> QED
  BY <1>1, AuthInvHolds, PTL

\* However many requests are refused at once and in whatever order answers
\* come, one refresh request is in flight, and requests wait only while it is.
THEOREM OneRefreshAtATimeHolds == Spec => []OneRefreshAtATime
<1>1. AuthInv => OneRefreshAtATime
  <2> SUFFICES ASSUME AuthInv PROVE OneRefreshAtATime
    OBVIOUS
  <2>1. Len(refreshing) <= 1
    <3>1. PICK n \in {0, 1} : Len(refreshing) = n
      BY AtMostOne DEF AuthInv, InFlight
    <3>2. n <= 1
      OBVIOUS
    <3> QED
      BY <3>1, <3>2, Zenon
  <2>2. Waiting # {} => refreshPromise = "pending"
    BY DEF AuthInv, PromiseKept, Waiting
  <2>3. refreshPromise = "pending" <=> refreshing # <<>>
    BY DEF AuthInv, PromiseKept
  <2> QED
    BY <2>1, <2>2, <2>3 DEF OneRefreshAtATime
<1> QED
  BY <1>1, AuthInvHolds, PTL

\* The stored tokens are those of the user who signed in last, and none after a
\* sign-out, unless the answer to a refresh that was overtaken came later.
THEOREM StoredTokensAccountedForHolds == Spec => []StoredTokensAccountedFor
<1>1. AuthInv => StoredTokensAccountedFor
  BY DEF AuthInv
<1> QED
  BY <1>1, AuthInvHolds, PTL

===============================================================================
