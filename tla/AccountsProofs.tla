---------------------------- MODULE AccountsProofs ----------------------------
(***************************************************************************)
(* Proofs about module Accounts, for any addresses, passwords and requests. *)
(*                                                                         *)
(* AccountsInv ties the place of a request in its route to the account it  *)
(* works on: once its caller has shown a token, or has signed up, the      *)
(* account is the caller's, and while a password is verified the account   *)
(* that was looked up has the address of the request.  It holds because    *)
(* nothing changes the credentials of an id once it is given out.          *)
(***************************************************************************)
EXTENDS Accounts, SequenceTheorems, TLAPS

Identified == Guarded \cup {"reread", "close"}

AccountOfCaller ==
  \A r \in Request :
    /\ step[r] \in Step => who[r] \in Credentials
    /\ step[r] \in Identified => id[r] \in DOMAIN made /\ made[id[r]] = who[r]
    /\ step[r] = "verify" /\ id[r] # 0 => made[id[r]].email = who[r].email

OneAccountEach ==
  \A u, v \in users : made[u].email = made[v].email => u = v

AccountsInv ==
  /\ TypeOK
  /\ AccountOfCaller
  /\ TokensNeedTheCredentials
  /\ OneAccountEach

-----------------------------------------------------------------------------
(* Lemmas *)

\* An account that was made keeps its id and its credentials when another is
\* made.
LEMMA MadeGrows ==
  ASSUME TypeOK, NEW c \in Credentials, made' = Append(made, c)
  PROVE  /\ made' \in Seq(Credentials)
         /\ DOMAIN made = 1..Len(made)
         /\ Len(made) \in Nat
         /\ Len(made') = Len(made) + 1
         /\ DOMAIN made' = DOMAIN made \cup {Len(made) + 1}
         /\ Len(made) + 1 \notin DOMAIN made
         /\ \A u \in DOMAIN made : made'[u] = made[u] /\ made[u] \in Credentials
         /\ made'[Len(made) + 1] = c
<1>1. made \in Seq(Credentials)
  BY DEF TypeOK
<1>2. /\ made' \in Seq(Credentials)
      /\ Len(made') = Len(made) + 1
      /\ Len(made) \in Nat
      /\ DOMAIN made = 1..Len(made)
      /\ DOMAIN made' = 1..(Len(made) + 1)
  BY <1>1
<1>3. \A u \in 1..Len(made) : made'[u] = made[u] /\ made[u] \in Credentials
  BY <1>1
<1>4. made'[Len(made) + 1] = c
  BY <1>1
<1> QED
  BY <1>2, <1>3, <1>4

\* A request that has found its account can be issued tokens for it, and only
\* it.
LEMMA IssueKeepsInv ==
  ASSUME AccountsInv, NEW r \in Request, NEW u \in DOMAIN made,
         made[u] = who[r], who[r] \in Credentials,
         IssueTokens(r, u), UNCHANGED <<made, users, who, id>>
  PROVE  AccountsInv'
<1>1. tokens' \subseteq [id : DOMAIN made, who : Credentials]
  BY DEF AccountsInv, TypeOK, IssueTokens
<1>2. step' = [step EXCEPT ![r] = "served"]
  BY DEF IssueTokens, Goto
<1>3. TypeOK'
  BY <1>1, <1>2 DEF AccountsInv, TypeOK, Status
<1>4. AccountOfCaller'
  BY <1>2 DEF AccountsInv, TypeOK, AccountOfCaller, Step, Open, Guarded, Identified
<1>5. TokensNeedTheCredentials'
  BY DEF AccountsInv, TokensNeedTheCredentials, IssueTokens
<1>6. OneAccountEach'
  BY DEF AccountsInv, OneAccountEach
<1> QED
  BY <1>3, <1>4, <1>5, <1>6 DEF AccountsInv

\* A request that goes on without touching the accounts or the tokens keeps the
\* invariant, provided it goes to a place its account entitles it to.
LEMMA GotoKeepsInv ==
  ASSUME AccountsInv, NEW r \in Request, NEW s, Goto(r, s),
         UNCHANGED <<made, users, tokens>>,
         s \in {"idle"} \cup Step \cup Status,
         who' \in [Request -> Credentials \cup {Nobody}],
         id' \in [Request -> {0} \cup DOMAIN made],
         \A q \in Request \ {r} : who'[q] = who[q] /\ id'[q] = id[q],
         s \in Step => who'[r] \in Credentials,
         s \in Identified => id'[r] \in DOMAIN made /\ made[id'[r]] = who'[r],
         s = "verify" /\ id'[r] # 0 => made[id'[r]].email = who'[r].email
  PROVE  AccountsInv'
<1>1. step' = [step EXCEPT ![r] = s]
  BY DEF Goto
<1>2. TypeOK'
  BY <1>1 DEF AccountsInv, TypeOK
<1>3. AccountOfCaller'
  BY <1>1 DEF AccountsInv, TypeOK, AccountOfCaller
<1>4. TokensNeedTheCredentials' /\ OneAccountEach'
  BY DEF AccountsInv, TokensNeedTheCredentials, OneAccountEach
<1> QED
  BY <1>2, <1>3, <1>4 DEF AccountsInv

-----------------------------------------------------------------------------
(* The invariant is inductive *)

LEMMA InitEstablishesInv == Init => AccountsInv
<1> SUFFICES ASSUME Init PROVE AccountsInv
  OBVIOUS
<1>1. TypeOK
  BY DEF Init, TypeOK
<1>2. AccountOfCaller
  BY DEF Init, AccountOfCaller, Step, Open, Guarded, Identified
<1>3. TokensNeedTheCredentials /\ OneAccountEach
  BY DEF Init, TokensNeedTheCredentials, OneAccountEach
<1> QED
  BY <1>1, <1>2, <1>3 DEF AccountsInv

\* The one step that makes an account.
LEMMA CreateUserKeepsInv ==
  ASSUME AccountsInv, NEW r \in Request, CreateUser(r)
  PROVE  AccountsInv'
<1> USE DEF AccountsInv
<1>1. who[r] \in Credentials /\ who' = who /\ tokens' = tokens
  BY DEF CreateUser, AccountOfCaller, Step
<1>2. CASE With(who[r].email) # {}
  <2>1. Goto(r, "409") /\ UNCHANGED <<made, users, tokens, who, id>>
    BY <1>2 DEF CreateUser
  <2> QED
    BY <2>1, GotoKeepsInv DEF TypeOK, Status, Step, Open, Guarded, Identified
<1>3. CASE With(who[r].email) = {}
  <2> DEFINE new == Len(made) + 1
  <2>1. /\ made' = Append(made, who[r])
        /\ users' = users \cup {new}
        /\ id' = [id EXCEPT ![r] = new]
        /\ step' = [step EXCEPT ![r] = "reread"]
    BY <1>3 DEF CreateUser, Goto
  <2>2. /\ made' \in Seq(Credentials)
        /\ DOMAIN made' = DOMAIN made \cup {new}
        /\ new \notin DOMAIN made
        /\ \A u \in DOMAIN made : made'[u] = made[u]
        /\ made'[new] = who[r]
    BY <1>1, <2>1, MadeGrows
  <2> HIDE DEF new
  <2>3. TypeOK'
    BY <1>1, <2>1, <2>2 DEF TypeOK, Step
  <2>4. AccountOfCaller'
    <3> SUFFICES ASSUME NEW q \in Request
                 PROVE  /\ step'[q] \in Step => who'[q] \in Credentials
                        /\ step'[q] \in Identified => id'[q] \in DOMAIN made' /\ made'[id'[q]] = who'[q]
                        /\ step'[q] = "verify" /\ id'[q] # 0 => made'[id'[q]].email = who'[q].email
      BY DEF AccountOfCaller
    <3>1. CASE q = r
      BY <1>1, <2>1, <2>2, <3>1 DEF TypeOK, Identified
    <3>2. CASE q # r
      <4>1. step'[q] = step[q] /\ id'[q] = id[q] /\ who'[q] = who[q]
        BY <1>1, <2>1, <3>2 DEF TypeOK
      <4>2. id[q] \in {0} \cup DOMAIN made
        BY DEF TypeOK
      <4> QED
        BY <2>2, <4>1, <4>2 DEF AccountOfCaller
    <3> QED
      BY <3>1, <3>2
  <2>5. TokensNeedTheCredentials'
    BY <1>1, <2>2 DEF TokensNeedTheCredentials
  <2>6. OneAccountEach'
    <3>1. \A u \in users : u \in DOMAIN made /\ made[u].email # who[r].email
      BY <1>3 DEF With, TypeOK
    <3>2. \A u \in users' : u \in users \/ u = new
      BY <2>1
    <3>3. \A u \in users : made'[u].email = made[u].email /\ made'[u].email # made'[new].email
      BY <2>2, <3>1
    <3> QED
      BY <3>2, <3>3 DEF OneAccountEach
  <2> QED
    BY <2>3, <2>4, <2>5, <2>6
<1> QED
  BY <1>2, <1>3

\* Every other step leaves the accounts as they are.
LEMMA ServeKeepsInv ==
  ASSUME AccountsInv, NEW r \in Request, Serve(r)
  PROVE  AccountsInv'
<1> USE DEF AccountsInv
<1>1. CASE ArriveWithCredentials(r)
  <2>1. PICK route \in Open, c \in Credentials :
          Goto(r, route) /\ who' = [who EXCEPT ![r] = c]
    BY <1>1 DEF ArriveWithCredentials
  <2>2. UNCHANGED <<made, users, tokens, id>>
    BY <1>1 DEF ArriveWithCredentials
  <2> QED
    BY <2>1, <2>2, GotoKeepsInv DEF TypeOK, Open, Step, Guarded, Identified
<1>2. CASE ArriveWithToken(r)
  <2>1. PICK route \in Guarded, t \in tokens :
          /\ who' = [who EXCEPT ![r] = t.who]
          /\ id' = [id EXCEPT ![r] = t.id]
          /\ Goto(r, route) \/ Goto(r, "401")
    BY <1>2 DEF ArriveWithToken
  <2>2. UNCHANGED <<made, users, tokens>>
    BY <1>2 DEF ArriveWithToken
  <2>3. t.id \in DOMAIN made /\ t.who \in Credentials /\ made[t.id] = t.who
    BY DEF TypeOK, TokensNeedTheCredentials
  <2>4. /\ who' \in [Request -> Credentials \cup {Nobody}]
        /\ id' \in [Request -> {0} \cup DOMAIN made]
        /\ who'[r] = t.who /\ id'[r] = t.id
        /\ \A q \in Request \ {r} : who'[q] = who[q] /\ id'[q] = id[q]
    BY <2>1, <2>3 DEF TypeOK
  <2>5. CASE Goto(r, route)
    BY <2>2, <2>3, <2>4, <2>5, GotoKeepsInv DEF Step, Guarded, Identified
  <2>6. CASE Goto(r, "401")
    BY <2>2, <2>3, <2>4, <2>6, GotoKeepsInv DEF Step, Open, Status, Guarded, Identified
  <2> QED
    BY <2>1, <2>5, <2>6
<1>3. CASE LookUpForSignup(r)
  <2>1. /\ Goto(r, "409") \/ Goto(r, "insert")
        /\ UNCHANGED <<made, users, tokens, who, id>>
        /\ who[r] \in Credentials
    BY <1>3 DEF LookUpForSignup, AccountOfCaller, Step, Open
  <2>2. CASE Goto(r, "409")
    BY <2>1, <2>2, GotoKeepsInv DEF TypeOK, Step, Open, Status, Guarded, Identified
  <2>3. CASE Goto(r, "insert")
    BY <2>1, <2>3, GotoKeepsInv DEF TypeOK, Step, Open, Status, Guarded, Identified
  <2> QED
    BY <2>1, <2>2, <2>3
<1>4. CASE CreateUser(r)
  BY <1>4, CreateUserKeepsInv
<1>5. CASE RefreshUserRow(r)
  <2>1. /\ id[r] \in DOMAIN made /\ made[id[r]] = who[r] /\ who[r] \in Credentials
        /\ UNCHANGED <<made, users, who, id>>
    BY <1>5 DEF RefreshUserRow, AccountOfCaller, Step, Identified
  <2>2. CASE IssueTokens(r, id[r])
    BY <2>1, <2>2, IssueKeepsInv
  <2>3. CASE Goto(r, "500") /\ UNCHANGED tokens
    BY <2>1, <2>3, GotoKeepsInv DEF TypeOK, Step, Open, Status, Guarded, Identified
  <2> QED
    BY <1>5, <2>2, <2>3 DEF RefreshUserRow
<1>6. CASE LookUpForLogin(r)
  <2>1. PICK u \in With(who[r].email) \cup {0} : id' = [id EXCEPT ![r] = u]
    BY <1>6 DEF LookUpForLogin
  <2>2. Goto(r, "verify") /\ UNCHANGED <<made, users, tokens, who>> /\ who[r] \in Credentials
    BY <1>6 DEF LookUpForLogin, AccountOfCaller, Step, Open
  <2>3. u # 0 => u \in DOMAIN made /\ made[u].email = who[r].email
    BY <2>1 DEF With, TypeOK
  <2>4. /\ id' \in [Request -> {0} \cup DOMAIN made]
        /\ id'[r] = u
        /\ \A q \in Request \ {r} : id'[q] = id[q]
    BY <2>1, <2>3 DEF TypeOK
  <2> QED
    BY <2>2, <2>3, <2>4, GotoKeepsInv DEF TypeOK, Step, Open, Status, Guarded, Identified
<1>7. CASE VerifyPassword(r)
  <2>1. /\ UNCHANGED <<made, users, who, id>>
        /\ who[r] \in Credentials
        /\ id[r] # 0 => id[r] \in DOMAIN made /\ made[id[r]].email = who[r].email
    BY <1>7 DEF VerifyPassword, AccountOfCaller, TypeOK, Step
  <2>2. CASE Verified(r) /\ IssueTokens(r, id[r])
    <3>1. made[id[r]] \in Credentials
      BY <2>1, <2>2 DEF Verified, TypeOK
    <3>2. made[id[r]] = who[r]
      BY <2>1, <2>2, <3>1 DEF Verified, Credentials
    <3> QED
      BY <2>1, <2>2, <3>2, IssueKeepsInv DEF Verified
  <2>3. CASE Goto(r, "401") /\ UNCHANGED tokens
    BY <2>1, <2>3, GotoKeepsInv DEF TypeOK, Step, Open, Status, Guarded, Identified
  <2> QED
    BY <1>7, <2>2, <2>3 DEF VerifyPassword
<1>8. CASE Refresh(r) \/ GetCurrentUser(r)
  <2>1. /\ id[r] \in DOMAIN made /\ made[id[r]] = who[r] /\ who[r] \in Credentials
        /\ UNCHANGED <<made, users, who, id>>
    <3>1. step[r] \in Guarded /\ UNCHANGED <<made, users, who, id>>
      BY <1>8 DEF Refresh, GetCurrentUser, Guarded
    <3> QED
      BY <3>1 DEF AccountOfCaller, Guarded, Step, Identified
  <2>2. CASE IssueTokens(r, id[r])
    BY <2>1, <2>2, IssueKeepsInv
  <2>3. ASSUME NEW s \in {"401", "served", "close"}, Goto(r, s), UNCHANGED tokens
        PROVE  AccountsInv'
    BY <2>1, <2>3, GotoKeepsInv DEF TypeOK, Step, Open, Status, Guarded, Identified
  <2> QED
    BY <1>8, <2>2, <2>3 DEF Refresh, GetCurrentUser
<1>9. CASE DeleteUser(r)
  <2>1. /\ users' \subseteq users
        /\ step' = [step EXCEPT ![r] = "served"]
        /\ UNCHANGED <<made, tokens, who, id>>
    BY <1>9 DEF DeleteUser, Goto
  <2>2. TypeOK'
    BY <2>1 DEF TypeOK, Status
  <2>3. AccountOfCaller'
    BY <2>1 DEF AccountOfCaller, TypeOK, Step, Open, Guarded, Identified
  <2>4. TokensNeedTheCredentials' /\ OneAccountEach'
    BY <2>1 DEF TokensNeedTheCredentials, OneAccountEach
  <2> QED
    BY <2>2, <2>3, <2>4
<1>10. CASE Fail(r)
  <2>1. Goto(r, "500") /\ UNCHANGED <<made, users, tokens, who, id>>
    BY <1>10 DEF Fail
  <2> QED
    BY <2>1, GotoKeepsInv DEF TypeOK, Step, Open, Status, Guarded, Identified
<1> QED
  BY <1>1, <1>2, <1>3, <1>4, <1>5, <1>6, <1>7, <1>8, <1>9, <1>10 DEF Serve

LEMMA NextKeepsInv == AccountsInv /\ [Next]_vars => AccountsInv'
<1> SUFFICES ASSUME AccountsInv, [Next]_vars PROVE AccountsInv'
  OBVIOUS
<1>1. CASE Next
  BY <1>1, ServeKeepsInv DEF Next
<1>2. CASE UNCHANGED vars
  BY <1>2 DEF vars, requests, AccountsInv, TypeOK, AccountOfCaller, TokensNeedTheCredentials,
              OneAccountEach
<1> QED
  BY <1>1, <1>2

LEMMA AccountsInvHolds == Spec => []AccountsInv
<1>1. Init => AccountsInv
  BY InitEstablishesInv
<1>2. AccountsInv /\ [Next]_vars => AccountsInv'
  BY NextKeepsInv
<1> QED
  BY <1>1, <1>2, PTL DEF Spec

-----------------------------------------------------------------------------
(* Theorems *)

\* Requests, rows and tokens keep their types: in particular a request for an
\* account always has one in its hands that was made.
THEOREM AccountsTypeOK == Spec => []TypeOK
<1>1. AccountsInv => TypeOK
  BY DEF AccountsInv
<1> QED
  BY <1>1, AccountsInvHolds, PTL

\* Tokens for an account are issued to holders of its credentials only, whatever
\* is deleted and registered anew between the steps of a sign-in.
THEOREM TokensNeedTheCredentialsHolds == Spec => []TokensNeedTheCredentials
<1>1. AccountsInv => TokensNeedTheCredentials
  BY DEF AccountsInv
<1> QED
  BY <1>1, AccountsInvHolds, PTL

-----------------------------------------------------------------------------
(* Accounts implements AccountRegister *)

Account == [e \in Email |-> With(e)]

\* The row that CreateUser inserts is the one account of its address.
LEMMA CreateUserRegisters ==
  ASSUME AccountsInv, NEW r \in Request, CreateUser(r), With(who[r].email) = {}
  PROVE  \E e \in Email : Register!Register(e)
<1>1. PICK c \in Credentials : c = who[r]
  BY DEF CreateUser, AccountsInv, AccountOfCaller, Step
<1>2. PICK own \in Email : own = c.email
  BY DEF Credentials
<1>3. PICK new : new = Len(made) + 1
  OBVIOUS
<1>4. made' = Append(made, c) /\ users' = users \cup {new}
  BY <1>1, <1>3 DEF CreateUser
<1>5. /\ Len(made') = new
      /\ new \notin DOMAIN made
      /\ \A u \in DOMAIN made : made'[u] = made[u]
      /\ made'[new] = c
  BY <1>3, <1>4, MadeGrows DEF AccountsInv
<1>6. users \subseteq DOMAIN made
  BY DEF AccountsInv, TypeOK
<1>7. With(own) = {}
  BY <1>1, <1>2
<1>8. With(own)' = {new}
  BY <1>2, <1>4, <1>5, <1>6, <1>7 DEF With
<1>9. ASSUME NEW e \in Email, e # own PROVE With(e)' = With(e)
  BY <1>2, <1>4, <1>5, <1>6, <1>9 DEF With
<1>10. Account' = [Account EXCEPT ![own] = {new}]
  BY <1>8, <1>9 DEF Account
<1>11. Account[own] = {}
  BY <1>7 DEF Account
<1> QED
  BY <1>3, <1>5, <1>10, <1>11 DEF Register!Register, Account

\* The row that DeleteUser removes was the one account of its address.
LEMMA DeleteUserCloses ==
  ASSUME AccountsInv, NEW r \in Request, DeleteUser(r), id[r] \in users
  PROVE  \E e \in Email : Register!Close(e)
<1>1. /\ made \in Seq(Credentials)
      /\ users \subseteq DOMAIN made
      /\ DOMAIN made = 1..Len(made)
  BY DEF AccountsInv, TypeOK
<1>2. PICK old \in 1..Len(made) : old = id[r]
  BY <1>1
<1>3. made[old] \in Credentials
  BY <1>1
<1>4. PICK own \in Email : own = made[old].email
  BY <1>3 DEF Credentials
<1>5. made' = made /\ users' = users \ {old} /\ old \in users
  BY <1>2 DEF DeleteUser
<1>6. With(own) = {old}
  BY <1>4, <1>5 DEF With, AccountsInv, OneAccountEach
<1>7. With(own)' = {}
  BY <1>5, <1>6 DEF With
<1>8. ASSUME NEW e \in Email, e # own PROVE With(e)' = With(e)
  BY <1>4, <1>5, <1>8 DEF With
<1>9. Account' = [Account EXCEPT ![own] = {}]
  BY <1>7, <1>8 DEF Account
<1>10. Account[own] = {old}
  BY <1>6 DEF Account
<1> QED
  BY <1>5, <1>9, <1>10 DEF Register!Close, Account

\* Signing up and closing an account are atomic: every step of the endpoints is
\* a step of the abstract register or none.
THEOREM AccountsImplementRegister == Spec => ImplementsRegister
<1>1. Init => Register!Init
  BY DEF Init, Register!Init, With
<1>2. AccountsInv /\ [Next]_vars => [Register!Next]_(Register!register)
  <2> SUFFICES ASSUME AccountsInv, [Next]_vars
               PROVE  Register!Next \/ UNCHANGED <<Account, Len(made)>>
    BY DEF Register!register, Account
  <2>1. ASSUME UNCHANGED <<made, users>> PROVE UNCHANGED <<Account, Len(made)>>
    BY <2>1 DEF Account, With
  <2>2. ASSUME NEW r \in Request, CreateUser(r) PROVE Register!Next \/ UNCHANGED <<made, users>>
    <3>1. CASE With(who[r].email) = {}
      BY <2>2, <3>1, CreateUserRegisters DEF Register!Next
    <3>2. CASE With(who[r].email) # {}
      BY <2>2, <3>2 DEF CreateUser
    <3> QED
      BY <3>1, <3>2
  <2>3. ASSUME NEW r \in Request, DeleteUser(r) PROVE Register!Next \/ UNCHANGED <<made, users>>
    <3>1. CASE id[r] \in users
      BY <2>3, <3>1, DeleteUserCloses DEF Register!Next
    <3>2. CASE id[r] \notin users
      BY <2>3, <3>2 DEF DeleteUser
    <3> QED
      BY <3>1, <3>2
  <2>4. ASSUME NEW r \in Request, Serve(r) PROVE Register!Next \/ UNCHANGED <<made, users>>
    BY <2>2, <2>3, <2>4 DEF Serve, ArriveWithCredentials, ArriveWithToken, LookUpForSignup,
         RefreshUserRow, LookUpForLogin, VerifyPassword, Refresh, GetCurrentUser, Fail
  <2>5. CASE UNCHANGED vars
    BY <2>1, <2>5 DEF vars
  <2> QED
    BY <2>1, <2>4, <2>5 DEF Next
<1> QED
  BY <1>1, <1>2, AccountsInvHolds, PTL DEF Spec, ImplementsRegister, Register!Spec

===============================================================================
