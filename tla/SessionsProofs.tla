--------------------------- MODULE SessionsProofs ---------------------------
(***************************************************************************)
(* Theorems about module Sessions, for every number of users, sessions and *)
(* requests, every limit and every combination of failures.                *)
(***************************************************************************)
EXTENDS Sessions, FiniteSetTheorems, TLAPS

-----------------------------------------------------------------------------
(* Type correctness, together with what a program counter says of its request *)

Typed == TypeOK /\ Underway

LEMMA InitTyped == Init => Typed
  BY SessionsAssumption DEF Init, Typed, TypeOK, Underway, Step, Operation, Status

LEMMA NextTyped ==
  ASSUME Typed, [Next]_vars
  PROVE  Typed'
  <1> USE SessionsAssumption DEF Typed, store, locals
  <1>1. ASSUME NEW r \in Req, Arrive(r)  PROVE TypeOK' /\ Underway'
    BY <1>1 DEF TypeOK, Underway, Step, Operation, Status, FirstStep, Arrive, Goto
  <1>2. ASSUME NEW r \in Req, GetCurrentUser(r)  PROVE TypeOK' /\ Underway'
    BY <1>2 DEF TypeOK, Underway, Step, Operation, Status, FirstStep, GetCurrentUser, Goto, Respond
  <1>3. ASSUME NEW r \in Req, BeginCreate(r)  PROVE TypeOK' /\ Underway'
    BY <1>3 DEF TypeOK, Underway, Step, Operation, Status, FirstStep, BeginCreate, Goto
  <1>4. ASSUME NEW r \in Req, AdvisoryLock(r)  PROVE TypeOK' /\ Underway'
    BY <1>4 DEF TypeOK, Underway, Step, Operation, Status, FirstStep, AdvisoryLock, Goto
  <1>5. ASSUME NEW r \in Req, CountSessions(r)  PROVE TypeOK' /\ Underway'
    BY <1>5 DEF TypeOK, Underway, Step, Operation, Status, FirstStep, CountSessions, Goto, Respond, Release
  <1>6. ASSUME NEW r \in Req, InsertSession(r)  PROVE TypeOK' /\ Underway'
    <2>1. CASE user[r] \in users
      <3>1. PICK s \in Session :
              /\ row[s] = "unborn"
              /\ row' = [row EXCEPT ![s] = "live"]
              /\ owner' = [owner EXCEPT ![s] = user[r]]
              /\ count' = [count EXCEPT ![s] = 0]
              /\ sess' = [sess EXCEPT ![r] = s]
        BY <1>6, <2>1 DEF InsertSession
      <3>2. /\ pc[r] = "insert" /\ pc' = [pc EXCEPT ![r] = "refresh"]
            /\ holder' = [k \in LockKey |-> IF holder[k] = r THEN NoReq ELSE holder[k]]
            /\ UNCHANGED <<users, talk, op, user, seen, todo, tries, answer, late, swallowed>>
        BY <1>6, <2>1 DEF InsertSession, Goto, Release
      <3>3. user[r] \in User
        BY <3>2 DEF Underway
      <3>4. TypeOK'
        BY <3>1, <3>2, <3>3 DEF TypeOK, Step, Status
      <3>5. Underway'
        BY <3>1, <3>2 DEF TypeOK, Underway, Operation
      <3>6. QED  BY <3>4, <3>5
    <2>2. CASE user[r] \notin users
      BY <1>6, <2>2 DEF TypeOK, Underway, Step, Operation, Status, InsertSession, Goto, Respond, Release
    <2>3. QED  BY <2>1, <2>2
  <1>7. ASSUME NEW r \in Req, RefreshRow(r, "refresh", 201)  PROVE TypeOK' /\ Underway'
    BY <1>7 DEF TypeOK, Underway, Step, Operation, Status, FirstStep, RefreshRow, Goto, Respond
  <1>8. ASSUME NEW r \in Req, ValidateOwnership(r)  PROVE TypeOK' /\ Underway'
    BY <1>8 DEF TypeOK, Underway, Step, Operation, Status, FirstStep, ValidateOwnership, Goto, Respond, Owns
  <1>9. ASSUME NEW r \in Req, IncrementMessages(r)  PROVE TypeOK' /\ Underway'
    BY <1>9 DEF TypeOK, Underway, Step, Operation, Status, FirstStep, IncrementMessages, Goto, Respond, Owns
  <1>10. ASSUME NEW r \in Req, CheckThreshold(r)  PROVE TypeOK' /\ Underway'
    BY <1>10 DEF TypeOK, Underway, Step, Operation, Status, FirstStep, CheckThreshold, Goto, Respond
  <1>11. ASSUME NEW r \in Req, StartRun(r)  PROVE TypeOK' /\ Underway'
    BY <1>11 DEF TypeOK, Underway, Step, Operation, Status, FirstStep, StartRun, RunReaches, Goto
  <1>12. ASSUME NEW r \in Req, EndStream(r)  PROVE TypeOK' /\ Underway'
    BY <1>12 DEF TypeOK, Underway, Step, Operation, Status, FirstStep, EndStream, Goto
  <1>13. ASSUME NEW r \in Req, ReadMessages(r)  PROVE TypeOK' /\ Underway'
    BY <1>13 DEF TypeOK, Underway, Step, Operation, Status, FirstStep, ReadMessages, Goto, Respond
  <1>14. ASSUME NEW r \in Req, FindForTitle(r)  PROVE TypeOK' /\ Underway'
    BY <1>14 DEF TypeOK, Underway, Step, Operation, Status, FirstStep, FindForTitle, Goto, Respond
  <1>15. ASSUME NEW r \in Req, CommitTitle(r)  PROVE TypeOK' /\ Underway'
    BY <1>15 DEF TypeOK, Underway, Step, Operation, Status, FirstStep, CommitTitle, Goto, Respond
  <1>16. ASSUME NEW r \in Req, RefreshRow(r, "reread", 200)  PROVE TypeOK' /\ Underway'
    BY <1>16 DEF TypeOK, Underway, Step, Operation, Status, FirstStep, RefreshRow, Goto, Respond
  <1>17. ASSUME NEW r \in Req, DropSession(r)  PROVE TypeOK' /\ Underway'
    BY <1>17 DEF TypeOK, Underway, Step, Operation, Status, FirstStep, DropSession, Goto, Respond, Owns
  <1>18. ASSUME NEW r \in Req, ListForDeletion(r)  PROVE TypeOK' /\ Underway'
    BY <1>18 DEF TypeOK, Underway, Step, Operation, Status, FirstStep, ListForDeletion, Goto, OwnedBy
  <1>19. ASSUME NEW r \in Req, DeleteThread(r)  PROVE TypeOK' /\ Underway'
    <2>1. PICK t \in todo[r] :
            /\ todo' = [todo EXCEPT ![r] = @ \ {t}]
            /\ talk' = [talk EXCEPT ![t] = {}] \/ UNCHANGED talk
            /\ swallowed' = swallowed \cup {t} \/ UNCHANGED swallowed
            /\ \/ pc' = [pc EXCEPT ![r] = "unthread"] /\ UNCHANGED answer
               \/ op[r] = "account" /\ pc' = [pc EXCEPT ![r] = "deluser"] /\ UNCHANGED answer
               \/ pc' = [pc EXCEPT ![r] = "done"] /\ answer' = [answer EXCEPT ![r] = 204]
      BY <1>19 DEF DeleteThread, Goto, Respond
    <2>2. /\ pc[r] = "unthread" /\ t \in Session
          /\ UNCHANGED <<store, holder, locals, seen, tries, late>>
      BY <1>19 DEF DeleteThread, TypeOK
    <2>3. TypeOK'
      BY <2>1, <2>2 DEF TypeOK, Step, Status
    <2>4. Underway'
      BY <2>1, <2>2 DEF TypeOK, Underway, Operation
    <2>5. QED  BY <2>3, <2>4
  <1>20. ASSUME NEW r \in Req, DropUser(r)  PROVE TypeOK' /\ Underway'
    BY <1>20 DEF TypeOK, Underway, Step, Operation, Status, FirstStep, DropUser, Goto, Respond, Owns
  <1>21. ASSUME NEW r \in Req, StartRunFails(r)  PROVE TypeOK' /\ Underway'
    BY <1>21 DEF TypeOK, Underway, Step, Operation, Status, FirstStep, StartRunFails, RunReaches, Goto
  <1>22. ASSUME NEW r \in Req, DatabaseFails(r)  PROVE TypeOK' /\ Underway'
    BY <1>22 DEF TypeOK, Underway, Step, Operation, Status, FirstStep, DatabaseFails, Goto, Respond, Release
  <1>23. CASE Crash
    BY <1>23 DEF TypeOK, Underway, Step, Operation, Status, FirstStep, Crash, InFlight
  <1>24. CASE UNCHANGED vars
    BY <1>24 DEF TypeOK, Underway, Step, Operation, Status, FirstStep, vars
  <1>25. QED
    BY <1>1, <1>2, <1>3, <1>4, <1>5, <1>6, <1>7, <1>8, <1>9, <1>10, <1>11, <1>12, <1>13, <1>14, <1>15, <1>16, <1>17, <1>18, <1>19, <1>20, <1>21, <1>22, <1>23, <1>24 DEF Next, Serve

\* Every variable keeps its type, and every request the operation and the
\* subject it arrived with.
THEOREM SessionsTypeOK == Spec => []TypeOK
  <1>1. Typed => TypeOK  BY DEF Typed
  <1>2. QED  BY InitTyped, NextTyped, <1>1, PTL DEF Spec

-----------------------------------------------------------------------------
(* The quota of sessions *)

LEMMA FirstSteps ==
  \A o \in Operation : FirstStep[o] \in {"begin", "own", "find", "drop", "list"}
  BY DEF Operation, FirstStep

LEMMA NextLockHeld ==
  ASSUME Typed, LockHeld, [Next]_vars
  PROVE  LockHeld'
  <1> USE SessionsAssumption DEF Typed, store, locals
  <1>1. ASSUME NEW r \in Req, Arrive(r)  PROVE LockHeld'
    BY <1>1 DEF TypeOK, Underway, LockHeld, FirstStep, Arrive, Goto
  <1>2. ASSUME NEW r \in Req, GetCurrentUser(r)  PROVE LockHeld'
    <2>1. /\ pc[r] = "auth" /\ op[r] \in Operation
          /\ pc' = [pc EXCEPT ![r] = FirstStep[op[r]]] \/ pc' = [pc EXCEPT ![r] = "done"]
          /\ UNCHANGED <<holder, user>>
      BY <1>2 DEF GetCurrentUser, Goto, Respond, Underway
    <2>2. QED  BY <2>1, FirstSteps DEF TypeOK, LockHeld
  <1>3. ASSUME NEW r \in Req, BeginCreate(r)  PROVE LockHeld'
    BY <1>3 DEF TypeOK, Underway, LockHeld, FirstStep, BeginCreate, Goto
  <1>4. ASSUME NEW r \in Req, AdvisoryLock(r)  PROVE LockHeld'
    BY <1>4 DEF TypeOK, Underway, LockHeld, FirstStep, AdvisoryLock, Goto
  <1>5. ASSUME NEW r \in Req, CountSessions(r)  PROVE LockHeld'
    BY <1>5 DEF TypeOK, Underway, LockHeld, FirstStep, CountSessions, Goto, Respond, Release
  <1>6. ASSUME NEW r \in Req, InsertSession(r)  PROVE LockHeld'
    BY <1>6 DEF TypeOK, Underway, LockHeld, InsertSession, Goto, Respond, Release
  <1>7. ASSUME NEW r \in Req, RefreshRow(r, "refresh", 201)  PROVE LockHeld'
    BY <1>7 DEF TypeOK, Underway, LockHeld, FirstStep, RefreshRow, Goto, Respond
  <1>8. ASSUME NEW r \in Req, ValidateOwnership(r)  PROVE LockHeld'
    BY <1>8 DEF TypeOK, Underway, LockHeld, FirstStep, ValidateOwnership, Goto, Respond, Owns
  <1>9. ASSUME NEW r \in Req, IncrementMessages(r)  PROVE LockHeld'
    BY <1>9 DEF TypeOK, Underway, LockHeld, FirstStep, IncrementMessages, Goto, Respond, Owns
  <1>10. ASSUME NEW r \in Req, CheckThreshold(r)  PROVE LockHeld'
    BY <1>10 DEF TypeOK, Underway, LockHeld, FirstStep, CheckThreshold, Goto, Respond
  <1>11. ASSUME NEW r \in Req, StartRun(r)  PROVE LockHeld'
    BY <1>11 DEF TypeOK, Underway, LockHeld, FirstStep, StartRun, RunReaches, Goto
  <1>12. ASSUME NEW r \in Req, EndStream(r)  PROVE LockHeld'
    BY <1>12 DEF TypeOK, Underway, LockHeld, FirstStep, EndStream, Goto
  <1>13. ASSUME NEW r \in Req, ReadMessages(r)  PROVE LockHeld'
    BY <1>13 DEF TypeOK, Underway, LockHeld, FirstStep, ReadMessages, Goto, Respond
  <1>14. ASSUME NEW r \in Req, FindForTitle(r)  PROVE LockHeld'
    BY <1>14 DEF TypeOK, Underway, LockHeld, FirstStep, FindForTitle, Goto, Respond
  <1>15. ASSUME NEW r \in Req, CommitTitle(r)  PROVE LockHeld'
    BY <1>15 DEF TypeOK, Underway, LockHeld, FirstStep, CommitTitle, Goto, Respond
  <1>16. ASSUME NEW r \in Req, RefreshRow(r, "reread", 200)  PROVE LockHeld'
    BY <1>16 DEF TypeOK, Underway, LockHeld, FirstStep, RefreshRow, Goto, Respond
  <1>17. ASSUME NEW r \in Req, DropSession(r)  PROVE LockHeld'
    BY <1>17 DEF TypeOK, Underway, LockHeld, FirstStep, DropSession, Goto, Respond, Owns
  <1>18. ASSUME NEW r \in Req, ListForDeletion(r)  PROVE LockHeld'
    BY <1>18 DEF TypeOK, Underway, LockHeld, FirstStep, ListForDeletion, Goto, OwnedBy
  <1>19. ASSUME NEW r \in Req, DeleteThread(r)  PROVE LockHeld'
    BY <1>19 DEF TypeOK, Underway, LockHeld, FirstStep, DeleteThread, Goto, Respond
  <1>20. ASSUME NEW r \in Req, DropUser(r)  PROVE LockHeld'
    BY <1>20 DEF TypeOK, Underway, LockHeld, FirstStep, DropUser, Goto, Respond, Owns
  <1>21. ASSUME NEW r \in Req, StartRunFails(r)  PROVE LockHeld'
    BY <1>21 DEF TypeOK, Underway, LockHeld, FirstStep, StartRunFails, RunReaches, Goto
  <1>22. ASSUME NEW r \in Req, DatabaseFails(r)  PROVE LockHeld'
    BY <1>22 DEF TypeOK, Underway, LockHeld, FirstStep, DatabaseFails, Goto, Respond, Release
  <1>23. CASE Crash
    BY <1>23 DEF TypeOK, Underway, LockHeld, FirstStep, Crash, InFlight
  <1>24. CASE UNCHANGED vars
    BY <1>24 DEF TypeOK, Underway, LockHeld, FirstStep, vars
  <1>25. QED
    BY <1>1, <1>2, <1>3, <1>4, <1>5, <1>6, <1>7, <1>8, <1>9, <1>10, <1>11, <1>12, <1>13, <1>14, <1>15, <1>16, <1>17, <1>18, <1>19, <1>20, <1>21, <1>22, <1>23, <1>24 DEF Next, Serve

\* Only the insertion of a session adds to the sessions of a user.
LEMMA OnlyInsertOpens ==
  ASSUME Typed, [Next]_vars, NEW u \in User, ~ \E r \in Req : InsertSession(r)
  PROVE  OwnedBy(u)' \subseteq OwnedBy(u)
  <1> USE SessionsAssumption DEF Typed, store, locals
  <1>1. ASSUME NEW r \in Req, Arrive(r)  PROVE OwnedBy(u)' \subseteq OwnedBy(u)
    BY <1>1 DEF TypeOK, OwnedBy, Arrive, Goto
  <1>2. ASSUME NEW r \in Req, GetCurrentUser(r)  PROVE OwnedBy(u)' \subseteq OwnedBy(u)
    BY <1>2 DEF TypeOK, OwnedBy, GetCurrentUser, Goto, Respond
  <1>3. ASSUME NEW r \in Req, BeginCreate(r)  PROVE OwnedBy(u)' \subseteq OwnedBy(u)
    BY <1>3 DEF TypeOK, OwnedBy, BeginCreate, Goto
  <1>4. ASSUME NEW r \in Req, AdvisoryLock(r)  PROVE OwnedBy(u)' \subseteq OwnedBy(u)
    BY <1>4 DEF TypeOK, OwnedBy, AdvisoryLock, Goto
  <1>5. ASSUME NEW r \in Req, CountSessions(r)  PROVE OwnedBy(u)' \subseteq OwnedBy(u)
    BY <1>5 DEF TypeOK, OwnedBy, CountSessions, Goto, Respond, Release
  <1>6. ASSUME NEW r \in Req, InsertSession(r)  PROVE OwnedBy(u)' \subseteq OwnedBy(u)
    BY <1>6 DEF TypeOK, OwnedBy, InsertSession, Goto, Respond, Release
  <1>7. ASSUME NEW r \in Req, RefreshRow(r, "refresh", 201)  PROVE OwnedBy(u)' \subseteq OwnedBy(u)
    BY <1>7 DEF TypeOK, OwnedBy, RefreshRow, Goto, Respond
  <1>8. ASSUME NEW r \in Req, ValidateOwnership(r)  PROVE OwnedBy(u)' \subseteq OwnedBy(u)
    BY <1>8 DEF TypeOK, OwnedBy, ValidateOwnership, Goto, Respond, Owns
  <1>9. ASSUME NEW r \in Req, IncrementMessages(r)  PROVE OwnedBy(u)' \subseteq OwnedBy(u)
    BY <1>9 DEF TypeOK, OwnedBy, IncrementMessages, Goto, Respond, Owns
  <1>10. ASSUME NEW r \in Req, CheckThreshold(r)  PROVE OwnedBy(u)' \subseteq OwnedBy(u)
    BY <1>10 DEF TypeOK, OwnedBy, CheckThreshold, Goto, Respond
  <1>11. ASSUME NEW r \in Req, StartRun(r)  PROVE OwnedBy(u)' \subseteq OwnedBy(u)
    BY <1>11 DEF TypeOK, OwnedBy, StartRun, RunReaches, Goto
  <1>12. ASSUME NEW r \in Req, EndStream(r)  PROVE OwnedBy(u)' \subseteq OwnedBy(u)
    BY <1>12 DEF TypeOK, OwnedBy, EndStream, Goto
  <1>13. ASSUME NEW r \in Req, ReadMessages(r)  PROVE OwnedBy(u)' \subseteq OwnedBy(u)
    BY <1>13 DEF TypeOK, OwnedBy, ReadMessages, Goto, Respond
  <1>14. ASSUME NEW r \in Req, FindForTitle(r)  PROVE OwnedBy(u)' \subseteq OwnedBy(u)
    BY <1>14 DEF TypeOK, OwnedBy, FindForTitle, Goto, Respond
  <1>15. ASSUME NEW r \in Req, CommitTitle(r)  PROVE OwnedBy(u)' \subseteq OwnedBy(u)
    BY <1>15 DEF TypeOK, OwnedBy, CommitTitle, Goto, Respond
  <1>16. ASSUME NEW r \in Req, RefreshRow(r, "reread", 200)  PROVE OwnedBy(u)' \subseteq OwnedBy(u)
    BY <1>16 DEF TypeOK, OwnedBy, RefreshRow, Goto, Respond
  <1>17. ASSUME NEW r \in Req, DropSession(r)  PROVE OwnedBy(u)' \subseteq OwnedBy(u)
    BY <1>17 DEF TypeOK, OwnedBy, DropSession, Goto, Respond, Owns
  <1>18. ASSUME NEW r \in Req, ListForDeletion(r)  PROVE OwnedBy(u)' \subseteq OwnedBy(u)
    BY <1>18 DEF TypeOK, OwnedBy, ListForDeletion, Goto, OwnedBy
  <1>19. ASSUME NEW r \in Req, DeleteThread(r)  PROVE OwnedBy(u)' \subseteq OwnedBy(u)
    BY <1>19 DEF TypeOK, OwnedBy, DeleteThread, Goto, Respond
  <1>20. ASSUME NEW r \in Req, DropUser(r)  PROVE OwnedBy(u)' \subseteq OwnedBy(u)
    BY <1>20 DEF TypeOK, OwnedBy, DropUser, Goto, Respond, Owns
  <1>21. ASSUME NEW r \in Req, StartRunFails(r)  PROVE OwnedBy(u)' \subseteq OwnedBy(u)
    BY <1>21 DEF TypeOK, OwnedBy, StartRunFails, RunReaches, Goto
  <1>22. ASSUME NEW r \in Req, DatabaseFails(r)  PROVE OwnedBy(u)' \subseteq OwnedBy(u)
    BY <1>22 DEF TypeOK, OwnedBy, DatabaseFails, Goto, Respond, Release
  <1>23. CASE Crash
    BY <1>23 DEF TypeOK, OwnedBy, Crash, InFlight
  <1>24. CASE UNCHANGED vars
    BY <1>24 DEF TypeOK, OwnedBy, vars
  <1>25. QED
    BY <1>1, <1>2, <1>3, <1>4, <1>5, <1>6, <1>7, <1>8, <1>9, <1>10, <1>11, <1>12, <1>13, <1>14, <1>15, <1>16, <1>17, <1>18, <1>19, <1>20, <1>21, <1>22, <1>23, <1>24 DEF Next, Serve

LEMMA InsertAdds ==
  ASSUME Typed, NEW r \in Req, InsertSession(r), user[r] \in users
  PROVE  \E s \in Session :
           /\ s \notin OwnedBy(user[r])
           /\ \A u \in User : u = user[r] => OwnedBy(u)' = OwnedBy(u) \cup {s}
           /\ \A u \in User : u # user[r] => OwnedBy(u)' = OwnedBy(u)
  <1>1. PICK s \in Session :
          /\ row[s] = "unborn"
          /\ row' = [row EXCEPT ![s] = "live"]
          /\ owner' = [owner EXCEPT ![s] = user[r]]
    BY DEF InsertSession
  <1>2. QED  BY <1>1 DEF OwnedBy, Typed, TypeOK, Underway

\* A request whose count found room: it was counting, or it still waits to insert.
LEMMA RoomRead ==
  ASSUME Typed, [Next]_vars, NEW r \in Req, pc'[r] = "insert"
  PROVE  /\ user'[r] = user[r] /\ user[r] \in User
         /\ \/ pc[r] = "insert"
            \/ Cardinality(OwnedBy(user[r])) < MaxSessions
         /\ ~ InsertSession(r)
  <1> USE SessionsAssumption DEF Typed, store, locals
  <1> DEFINE G == /\ user'[r] = user[r] /\ user[r] \in User
                  /\ \/ pc[r] = "insert"
                     \/ Cardinality(OwnedBy(user[r])) < MaxSessions
                  /\ ~ InsertSession(r)
  <1> SUFFICES G  OBVIOUS
  <1>0. /\ \A q \in Req : pc[q] \in Step
        /\ pc[r] \in {"count", "insert"} => user[r] \in User
        /\ InsertSession(r) => pc'[r] # "insert"
    BY DEF TypeOK, Underway, InsertSession, Goto, Respond
  <1>1. ASSUME NEW q \in Req, Arrive(q)  PROVE G
    BY <1>1, <1>0 DEF TypeOK, Step, FirstStep, Operation, Arrive, Goto
  <1>2. ASSUME NEW q \in Req, GetCurrentUser(q)  PROVE G
    <2>1. /\ pc[q] = "auth" /\ op[q] \in Operation
          /\ pc' = [pc EXCEPT ![q] = FirstStep[op[q]]] \/ pc' = [pc EXCEPT ![q] = "done"]
          /\ UNCHANGED user
      BY <1>2 DEF GetCurrentUser, Goto, Respond, Underway
    <2>2. QED  BY <1>0, <2>1, FirstSteps DEF TypeOK
  <1>3. ASSUME NEW q \in Req, BeginCreate(q)  PROVE G
    BY <1>3, <1>0 DEF TypeOK, Step, FirstStep, Operation, BeginCreate, Goto
  <1>4. ASSUME NEW q \in Req, AdvisoryLock(q)  PROVE G
    BY <1>4, <1>0 DEF TypeOK, Step, FirstStep, Operation, AdvisoryLock, Goto
  <1>5. ASSUME NEW q \in Req, CountSessions(q)  PROVE G
    BY <1>5, <1>0 DEF TypeOK, Step, FirstStep, Operation, CountSessions, Goto, Respond, Release
  <1>6. ASSUME NEW q \in Req, InsertSession(q)  PROVE G
    BY <1>6, <1>0 DEF TypeOK, Step, FirstStep, Operation, InsertSession, Goto, Respond, Release
  <1>7. ASSUME NEW q \in Req, RefreshRow(q, "refresh", 201)  PROVE G
    BY <1>7, <1>0 DEF TypeOK, Step, FirstStep, Operation, RefreshRow, Goto, Respond
  <1>8. ASSUME NEW q \in Req, ValidateOwnership(q)  PROVE G
    BY <1>8, <1>0 DEF TypeOK, Step, FirstStep, Operation, ValidateOwnership, Goto, Respond, Owns
  <1>9. ASSUME NEW q \in Req, IncrementMessages(q)  PROVE G
    BY <1>9, <1>0 DEF TypeOK, Step, FirstStep, Operation, IncrementMessages, Goto, Respond, Owns
  <1>10. ASSUME NEW q \in Req, CheckThreshold(q)  PROVE G
    BY <1>10, <1>0 DEF TypeOK, Step, FirstStep, Operation, CheckThreshold, Goto, Respond
  <1>11. ASSUME NEW q \in Req, StartRun(q)  PROVE G
    BY <1>11, <1>0 DEF TypeOK, Step, FirstStep, Operation, StartRun, RunReaches, Goto
  <1>12. ASSUME NEW q \in Req, EndStream(q)  PROVE G
    BY <1>12, <1>0 DEF TypeOK, Step, FirstStep, Operation, EndStream, Goto
  <1>13. ASSUME NEW q \in Req, ReadMessages(q)  PROVE G
    BY <1>13, <1>0 DEF TypeOK, Step, FirstStep, Operation, ReadMessages, Goto, Respond
  <1>14. ASSUME NEW q \in Req, FindForTitle(q)  PROVE G
    BY <1>14, <1>0 DEF TypeOK, Step, FirstStep, Operation, FindForTitle, Goto, Respond
  <1>15. ASSUME NEW q \in Req, CommitTitle(q)  PROVE G
    BY <1>15, <1>0 DEF TypeOK, Step, FirstStep, Operation, CommitTitle, Goto, Respond
  <1>16. ASSUME NEW q \in Req, RefreshRow(q, "reread", 200)  PROVE G
    BY <1>16, <1>0 DEF TypeOK, Step, FirstStep, Operation, RefreshRow, Goto, Respond
  <1>17. ASSUME NEW q \in Req, DropSession(q)  PROVE G
    BY <1>17, <1>0 DEF TypeOK, Step, FirstStep, Operation, DropSession, Goto, Respond, Owns
  <1>18. ASSUME NEW q \in Req, ListForDeletion(q)  PROVE G
    BY <1>18, <1>0 DEF TypeOK, Step, FirstStep, Operation, ListForDeletion, Goto, OwnedBy
  <1>19. ASSUME NEW q \in Req, DeleteThread(q)  PROVE G
    BY <1>19, <1>0 DEF TypeOK, Step, FirstStep, Operation, DeleteThread, Goto, Respond
  <1>20. ASSUME NEW q \in Req, DropUser(q)  PROVE G
    BY <1>20, <1>0 DEF TypeOK, Step, FirstStep, Operation, DropUser, Goto, Respond, Owns
  <1>21. ASSUME NEW q \in Req, StartRunFails(q)  PROVE G
    BY <1>21, <1>0 DEF TypeOK, Step, FirstStep, Operation, StartRunFails, RunReaches, Goto
  <1>22. ASSUME NEW q \in Req, DatabaseFails(q)  PROVE G
    BY <1>22, <1>0 DEF TypeOK, Step, FirstStep, Operation, DatabaseFails, Goto, Respond, Release
  <1>23. CASE Crash
    BY <1>23, <1>0 DEF TypeOK, Step, FirstStep, Operation, Crash, InFlight
  <1>24. CASE UNCHANGED vars
    BY <1>24, <1>0 DEF TypeOK, Step, FirstStep, Operation, vars
  <1>25. QED
    BY <1>1, <1>2, <1>3, <1>4, <1>5, <1>6, <1>7, <1>8, <1>9, <1>10, <1>11, <1>12, <1>13, <1>14, <1>15, <1>16, <1>17, <1>18, <1>19, <1>20, <1>21, <1>22, <1>23, <1>24 DEF Next, Serve

LEMMA InitQuota == Init => LockHeld /\ RoomLeft /\ SessionQuota
  BY DEF Init, LockHeld, RoomLeft, SessionQuota, OwnedBy

LEMMA NextQuota ==
  ASSUME Typed, LockHeld, RoomLeft, SessionQuota, [Next]_vars
  PROVE  RoomLeft' /\ SessionQuota'
  <1> USE SessionsAssumption
  <1>0. \A u \in User : IsFiniteSet(OwnedBy(u)) /\ Cardinality(OwnedBy(u)) \in Nat
    BY FS_CardinalityType DEF SessionQuota
  <1>1. CASE ~ \E r \in Req : InsertSession(r)
    <2>1. ASSUME NEW u \in User
          PROVE  /\ IsFiniteSet(OwnedBy(u)')
                 /\ Cardinality(OwnedBy(u)') \in Nat
                 /\ Cardinality(OwnedBy(u)') <= Cardinality(OwnedBy(u))
      <3>1. OwnedBy(u)' \subseteq OwnedBy(u)
        BY <1>1, OnlyInsertOpens
      <3>2. QED  BY <1>0, <3>1, FS_Subset, FS_CardinalityType
    <2>2. SessionQuota'
      BY <1>0, <2>1 DEF SessionQuota
    <2>3. ASSUME NEW r \in Req, pc'[r] = "insert", NEW u \in User, u = user[r]
          PROVE  Cardinality(OwnedBy(u)') < MaxSessions
      <3>1. Cardinality(OwnedBy(u)) < MaxSessions
        BY <2>3, RoomRead DEF RoomLeft
      <3>2. /\ Cardinality(OwnedBy(u)') \in Nat
            /\ Cardinality(OwnedBy(u)') <= Cardinality(OwnedBy(u))
        BY <2>1
      <3>3. QED  BY <1>0, <3>1, <3>2
    <2>4. RoomLeft'
      <3>1. \A r \in Req : pc'[r] = "insert" => user'[r] = user[r] /\ user[r] \in User
        BY RoomRead
      <3>2. QED  BY <2>3, <3>1 DEF RoomLeft, OwnedBy
    <2>5. QED  BY <2>2, <2>4
  <1>2. ASSUME NEW r \in Req, InsertSession(r)
        PROVE  RoomLeft' /\ SessionQuota'
    <2>1. CASE user[r] \notin users
      <3>1. UNCHANGED <<row, owner, user>>
        BY <1>2, <2>1 DEF InsertSession
      <3>2. \A u \in User : OwnedBy(u)' = OwnedBy(u)
        BY <3>1 DEF OwnedBy
      <3>3. SessionQuota'
        BY <3>2 DEF SessionQuota
      <3>4. \A q \in Req : pc'[q] = "insert" => pc[q] = "insert" /\ user[q] \in User
        BY <1>2 DEF InsertSession, Goto, Respond, Typed, TypeOK, Underway
      <3>5. RoomLeft'
        BY <3>1, <3>2, <3>4 DEF RoomLeft, OwnedBy
      <3>6. QED  BY <3>3, <3>5
    <2>2. CASE user[r] \in users
      <3>1. PICK s \in Session :
              /\ s \notin OwnedBy(user[r])
              /\ \A u \in User : u = user[r] => OwnedBy(u)' = OwnedBy(u) \cup {s}
              /\ \A u \in User : u # user[r] => OwnedBy(u)' = OwnedBy(u)
        BY <1>2, <2>2, InsertAdds
      <3>2. /\ user[r] \in User /\ pc[r] = "insert" /\ user' = user
            /\ pc' = [pc EXCEPT ![r] = "refresh"]
        BY <1>2, <2>2 DEF InsertSession, Goto, Typed, Underway
      <3>3. \A u \in User : u = user[r] =>
              /\ IsFiniteSet(OwnedBy(u)')
              /\ Cardinality(OwnedBy(u)') = Cardinality(OwnedBy(u)) + 1
        <4>1. SUFFICES ASSUME NEW u \in User, u = user[r]
                       PROVE  /\ IsFiniteSet(OwnedBy(u)')
                              /\ Cardinality(OwnedBy(u)') = Cardinality(OwnedBy(u)) + 1
          OBVIOUS
        <4>2. IsFiniteSet(OwnedBy(u)) /\ s \notin OwnedBy(u)
          BY <1>0, <3>1, <4>1
        <4>3. OwnedBy(u)' = OwnedBy(u) \cup {s}
          BY <3>1, <4>1
        <4>4. QED  BY <4>2, <4>3, FS_AddElement
      <3>4. Cardinality(OwnedBy(user[r])) < MaxSessions
        BY <3>2 DEF RoomLeft
      <3>5. SessionQuota'
        BY <1>0, <3>1, <3>2, <3>3, <3>4 DEF SessionQuota
      <3>6. ASSUME NEW q \in Req, pc'[q] = "insert", NEW u \in User, u = user[q]
            PROVE  Cardinality(OwnedBy(u)') < MaxSessions
        <4>1. q # r /\ pc[q] = "insert"
          BY <3>2, <3>6 DEF Typed, TypeOK, Underway
        <4>2. user[q] # user[r]
          BY <3>2, <4>1 DEF LockHeld
        <4>3. Cardinality(OwnedBy(u)) < MaxSessions
          BY <3>6, <4>1 DEF RoomLeft
        <4>4. OwnedBy(u)' = OwnedBy(u)
          BY <3>1, <3>6, <4>2
        <4>5. QED  BY <4>3, <4>4
      <3>7. RoomLeft'
        <4>1. \A q \in Req : pc'[q] = "insert" => user[q] \in User
          BY <3>2 DEF Typed, TypeOK, Underway
        <4>2. QED  BY <3>2, <3>6, <4>1 DEF RoomLeft, OwnedBy
      <3>8. QED  BY <3>5, <3>7
    <2>3. QED  BY <2>1, <2>2
  <1>3. QED  BY <1>1, <1>2

\* Whatever the number of concurrent POST /sessions, and even when two users
\* share a lock key, a user never has more than MaxSessions live sessions.
THEOREM SessionQuotaHolds == Spec => []SessionQuota
  <1>1. Init => Typed /\ LockHeld /\ RoomLeft /\ SessionQuota
    BY InitTyped, InitQuota
  <1>2. Typed /\ LockHeld /\ RoomLeft /\ SessionQuota /\ [Next]_vars
          => (Typed /\ LockHeld /\ RoomLeft /\ SessionQuota)'
    BY NextTyped, NextLockHeld, NextQuota
  <1>3. QED  BY <1>1, <1>2, PTL DEF Spec

-----------------------------------------------------------------------------
(* The bound on admitted messages *)

LEMMA NextTickets ==
  ASSUME Typed, Tickets, [Next]_vars
  PROVE  Tickets'
  <1> USE SessionsAssumption DEF Typed, store, locals
  <1>1. ASSUME NEW r \in Req, Arrive(r)  PROVE Tickets'
    BY <1>1 DEF TypeOK, Underway, Tickets, Counted, Arrive, Goto
  <1>2. ASSUME NEW r \in Req, GetCurrentUser(r)  PROVE Tickets'
    <2>1. /\ pc[r] = "auth" /\ op[r] \in Operation
          /\ \/ /\ pc' = [pc EXCEPT ![r] = FirstStep[op[r]]]
                /\ UNCHANGED answer
             \/ /\ pc' = [pc EXCEPT ![r] = "done"]
                /\ answer' = [answer EXCEPT ![r] = 401]
          /\ UNCHANGED <<count, op, sess, seen>>
      BY <1>2 DEF GetCurrentUser, Goto, Respond, Underway
    <2>2. QED  BY <2>1, FirstSteps DEF TypeOK, Tickets, Counted
  <1>3. ASSUME NEW r \in Req, BeginCreate(r)  PROVE Tickets'
    BY <1>3 DEF TypeOK, Underway, Tickets, Counted, BeginCreate, Goto
  <1>4. ASSUME NEW r \in Req, AdvisoryLock(r)  PROVE Tickets'
    BY <1>4 DEF TypeOK, Underway, Tickets, Counted, AdvisoryLock, Goto
  <1>5. ASSUME NEW r \in Req, CountSessions(r)  PROVE Tickets'
    BY <1>5 DEF TypeOK, Underway, Tickets, Counted, CountSessions, Goto, Respond, Release
  <1>6. ASSUME NEW r \in Req, InsertSession(r)  PROVE Tickets'
    BY <1>6 DEF TypeOK, Underway, Tickets, Counted, InsertSession, Goto, Respond, Release
  <1>7. ASSUME NEW r \in Req, RefreshRow(r, "refresh", 201)  PROVE Tickets'
    BY <1>7 DEF TypeOK, Underway, Tickets, Counted, RefreshRow, Goto, Respond
  <1>8. ASSUME NEW r \in Req, ValidateOwnership(r)  PROVE Tickets'
    BY <1>8 DEF TypeOK, Underway, Tickets, Counted, ValidateOwnership, Goto, Respond, Owns
  <1>9. ASSUME NEW r \in Req, IncrementMessages(r)  PROVE Tickets'
    <2>1. CASE Owns(user[r], sess[r])
      <3>1. /\ pc[r] = "bump" /\ op[r] = "align" /\ sess[r] \in Session /\ answer[r] = 0
            /\ pc' = [pc EXCEPT ![r] = "gate"]
            /\ count' = [count EXCEPT ![sess[r]] = @ + 1]
            /\ seen' = [seen EXCEPT ![r] = count[sess[r]] + 1]
            /\ UNCHANGED <<op, sess, answer>>
        BY <1>9, <2>1 DEF IncrementMessages, Goto, Respond, Underway, Tickets
      <3>2. ASSUME NEW q \in Req, Counted(q)', q # r
            PROVE  /\ Counted(q) /\ seen'[q] = seen[q] /\ sess'[q] \in Session
                   /\ seen[q] <= count[sess[q]]
                   /\ count[sess[q]] <= count'[sess[q]]
        BY <3>1, <3>2 DEF TypeOK, Tickets, Counted
      <3>3. \A q \in Req : Counted(q)' /\ sess'[q] = sess'[r] /\ q # r => seen'[q] # seen'[r]
        BY <3>1, <3>2 DEF TypeOK
      <3>4. \A q \in Req : Counted(q)' => sess'[q] \in Session /\ seen'[q] <= count'[sess'[q]]
        BY <3>1, <3>2 DEF TypeOK
      <3>5. \A p, q \in Req :
              Counted(p)' /\ Counted(q)' /\ sess'[p] = sess'[q] /\ seen'[p] = seen'[q] => p = q
        BY <3>1, <3>2, <3>3 DEF Tickets
      <3>6. \A q \in Req :
              /\ pc'[q] = "new" => seen'[q] = 0
              /\ pc'[q] \in {"new", "auth", "own", "bump", "gate"} => answer'[q] = 0
              /\ pc'[q] = "gate" => seen'[q] > 0
              /\ op'[q] = "align" /\ answer'[q] = 200 => seen'[q] \in 1..(Threshold - 1)
        BY <3>1 DEF TypeOK, Tickets
      <3>7. QED  BY <3>4, <3>5, <3>6 DEF Tickets
    <2>2. CASE ~ Owns(user[r], sess[r])
      BY <1>9, <2>2 DEF TypeOK, Underway, Tickets, Counted, IncrementMessages, Goto, Respond
    <2>3. QED  BY <2>1, <2>2
  <1>10. ASSUME NEW r \in Req, CheckThreshold(r)  PROVE Tickets'
    BY <1>10 DEF TypeOK, Underway, Tickets, Counted, CheckThreshold, Goto, Respond
  <1>11. ASSUME NEW r \in Req, StartRun(r)  PROVE Tickets'
    BY <1>11 DEF TypeOK, Underway, Tickets, Counted, StartRun, RunReaches, Goto
  <1>12. ASSUME NEW r \in Req, EndStream(r)  PROVE Tickets'
    BY <1>12 DEF TypeOK, Underway, Tickets, Counted, EndStream, Goto
  <1>13. ASSUME NEW r \in Req, ReadMessages(r)  PROVE Tickets'
    BY <1>13 DEF TypeOK, Underway, Tickets, Counted, ReadMessages, Goto, Respond
  <1>14. ASSUME NEW r \in Req, FindForTitle(r)  PROVE Tickets'
    BY <1>14 DEF TypeOK, Underway, Tickets, Counted, FindForTitle, Goto, Respond
  <1>15. ASSUME NEW r \in Req, CommitTitle(r)  PROVE Tickets'
    BY <1>15 DEF TypeOK, Underway, Tickets, Counted, CommitTitle, Goto, Respond
  <1>16. ASSUME NEW r \in Req, RefreshRow(r, "reread", 200)  PROVE Tickets'
    BY <1>16 DEF TypeOK, Underway, Tickets, Counted, RefreshRow, Goto, Respond
  <1>17. ASSUME NEW r \in Req, DropSession(r)  PROVE Tickets'
    BY <1>17 DEF TypeOK, Underway, Tickets, Counted, DropSession, Goto, Respond, Owns
  <1>18. ASSUME NEW r \in Req, ListForDeletion(r)  PROVE Tickets'
    BY <1>18 DEF TypeOK, Underway, Tickets, Counted, ListForDeletion, Goto, OwnedBy
  <1>19. ASSUME NEW r \in Req, DeleteThread(r)  PROVE Tickets'
    BY <1>19 DEF TypeOK, Underway, Tickets, Counted, DeleteThread, Goto, Respond
  <1>20. ASSUME NEW r \in Req, DropUser(r)  PROVE Tickets'
    BY <1>20 DEF TypeOK, Underway, Tickets, Counted, DropUser, Goto, Respond, Owns
  <1>21. ASSUME NEW r \in Req, StartRunFails(r)  PROVE Tickets'
    BY <1>21 DEF TypeOK, Underway, Tickets, Counted, StartRunFails, RunReaches, Goto
  <1>22. ASSUME NEW r \in Req, DatabaseFails(r)  PROVE Tickets'
    BY <1>22 DEF TypeOK, Underway, Tickets, Counted, DatabaseFails, Goto, Respond, Release
  <1>23. CASE Crash
    BY <1>23 DEF TypeOK, Underway, Tickets, Counted, Crash, InFlight
  <1>24. CASE UNCHANGED vars
    BY <1>24 DEF TypeOK, Underway, Tickets, Counted, vars
  <1>25. QED
    BY <1>1, <1>2, <1>3, <1>4, <1>5, <1>6, <1>7, <1>8, <1>9, <1>10, <1>11, <1>12, <1>13, <1>14, <1>15, <1>16, <1>17, <1>18, <1>19, <1>20, <1>21, <1>22, <1>23, <1>24 DEF Next, Serve

LEMMA TicketsBound ==
  ASSUME Typed, Tickets, NEW s \in Session
  PROVE  /\ IsFiniteSet(Admitted(s))
         /\ Cardinality(Admitted(s)) <= IF Threshold = 0 THEN 0 ELSE Threshold - 1
  <1> USE SessionsAssumption
  <1> DEFINE ticket == [r \in Admitted(s) |-> seen[r]]
  <1>1. \A r \in Admitted(s) : seen[r] \in 1..(Threshold - 1) /\ Counted(r)
    BY DEF Admitted, Tickets, Counted, Typed, TypeOK
  <1>2. \A r, q \in Admitted(s) : seen[r] = seen[q] => r = q
    BY <1>1 DEF Admitted, Tickets
  <1>3. ticket \in Injection(Admitted(s), 1..(Threshold - 1))
    BY <1>1, <1>2 DEF Injection, IsInjective
  <1>4. /\ IsFiniteSet(1..(Threshold - 1))
        /\ Cardinality(1..(Threshold - 1)) = IF 1 > Threshold - 1 THEN 0 ELSE Threshold - 1
    BY FS_Interval
  <1>5. /\ IsFiniteSet(Admitted(s))
        /\ Cardinality(Admitted(s)) <= Cardinality(1..(Threshold - 1))
    <2> HIDE DEF ticket
    <2> QED  BY <1>3, <1>4, FS_Injection
  <1>6. QED  BY <1>4, <1>5

\* However the requests of a session interleave, at most Threshold - 1 of its
\* align requests ever get past the threshold check: the atomic UPDATE ...
\* RETURNING gives each its own count, and only the low ones are admitted.
THEOREM AdmissionsBoundedHolds == Spec => []AdmissionsBounded
  <1>1. Init => Typed /\ Tickets
    BY InitTyped DEF Init, Tickets, Counted
  <1>2. Typed /\ Tickets /\ [Next]_vars => (Typed /\ Tickets)'
    BY NextTyped, NextTickets
  <1>3. Typed /\ Tickets => AdmissionsBounded
    BY TicketsBound DEF AdmissionsBounded
  <1>4. QED  BY <1>1, <1>2, <1>3, PTL DEF Spec

-----------------------------------------------------------------------------
(* Threads: who reads them, who deletes them, and when they are left behind *)

LEMMA NextOwnership ==
  ASSUME Typed, Ownership, [Next]_vars
  PROVE  Ownership'
  <1> USE SessionsAssumption DEF Typed, store, locals
  <1>1. ASSUME NEW r \in Req, Arrive(r)  PROVE Ownership'
    BY <1>1 DEF TypeOK, Underway, Ownership, Arrive, Goto
  <1>2. ASSUME NEW r \in Req, GetCurrentUser(r)  PROVE Ownership'
    <2>1. /\ pc[r] = "auth" /\ op[r] \in Operation
          /\ pc' = [pc EXCEPT ![r] = FirstStep[op[r]]] \/ pc' = [pc EXCEPT ![r] = "done"]
          /\ UNCHANGED <<row, owner, talk, user, sess>>
      BY <1>2 DEF GetCurrentUser, Goto, Respond, Underway
    <2>2. QED  BY <2>1, FirstSteps DEF TypeOK, Ownership
  <1>3. ASSUME NEW r \in Req, BeginCreate(r)  PROVE Ownership'
    BY <1>3 DEF TypeOK, Underway, Ownership, BeginCreate, Goto
  <1>4. ASSUME NEW r \in Req, AdvisoryLock(r)  PROVE Ownership'
    BY <1>4 DEF TypeOK, Underway, Ownership, AdvisoryLock, Goto
  <1>5. ASSUME NEW r \in Req, CountSessions(r)  PROVE Ownership'
    BY <1>5 DEF TypeOK, Underway, Ownership, CountSessions, Goto, Respond, Release
  <1>6. ASSUME NEW r \in Req, InsertSession(r)  PROVE Ownership'
    <2>1. CASE user[r] \in users
      <3>1. PICK s \in Session :
              /\ row[s] = "unborn"
              /\ row' = [row EXCEPT ![s] = "live"]
              /\ owner' = [owner EXCEPT ![s] = user[r]]
              /\ sess' = [sess EXCEPT ![r] = s]
        BY <1>6, <2>1 DEF InsertSession
      <3>2. /\ pc[r] = "insert" /\ pc' = [pc EXCEPT ![r] = "refresh"]
            /\ UNCHANGED <<talk, user>>
        BY <1>6, <2>1 DEF InsertSession, Goto
      <3>3. talk[s] = {}
        BY <3>1 DEF Ownership
      <3>4. \A x \in Session : talk'[x] \subseteq {owner'[x]}
        BY <3>1, <3>2, <3>3 DEF Ownership, TypeOK
      <3>5. \A x \in Session : row'[x] = "unborn" => talk'[x] = {}
        BY <3>1, <3>2 DEF Ownership, TypeOK
      <3>6. ASSUME NEW q \in Req, pc'[q] \in {"bump", "gate", "run", "stream", "read"}
            PROVE  owner'[sess'[q]] = user'[q]
        <4>1. q # r /\ pc[q] = pc'[q] /\ sess'[q] = sess[q]
          BY <3>1, <3>2, <3>6 DEF TypeOK
        <4>2. sess[q] \in Session /\ row[sess[q]] # "unborn"
          BY <3>6, <4>1 DEF Underway
        <4>3. owner'[sess[q]] = owner[sess[q]]
          BY <3>1, <4>2 DEF TypeOK
        <4>4. QED  BY <3>2, <3>6, <4>1, <4>3 DEF Ownership
      <3>7. QED  BY <3>4, <3>5, <3>6 DEF Ownership
    <2>2. CASE user[r] \notin users
      BY <1>6, <2>2 DEF TypeOK, Ownership, InsertSession, Goto, Respond
    <2>3. QED  BY <2>1, <2>2
  <1>7. ASSUME NEW r \in Req, RefreshRow(r, "refresh", 201)  PROVE Ownership'
    BY <1>7 DEF TypeOK, Underway, Ownership, RefreshRow, Goto, Respond
  <1>8. ASSUME NEW r \in Req, ValidateOwnership(r)  PROVE Ownership'
    BY <1>8 DEF TypeOK, Underway, Ownership, ValidateOwnership, Goto, Respond, Owns
  <1>9. ASSUME NEW r \in Req, IncrementMessages(r)  PROVE Ownership'
    BY <1>9 DEF TypeOK, Underway, Ownership, IncrementMessages, Goto, Respond, Owns
  <1>10. ASSUME NEW r \in Req, CheckThreshold(r)  PROVE Ownership'
    BY <1>10 DEF TypeOK, Underway, Ownership, CheckThreshold, Goto, Respond
  <1>11. ASSUME NEW r \in Req, StartRun(r)  PROVE Ownership'
    BY <1>11 DEF TypeOK, Underway, Ownership, StartRun, RunReaches, Goto
  <1>12. ASSUME NEW r \in Req, EndStream(r)  PROVE Ownership'
    BY <1>12 DEF TypeOK, Underway, Ownership, EndStream, Goto
  <1>13. ASSUME NEW r \in Req, ReadMessages(r)  PROVE Ownership'
    BY <1>13 DEF TypeOK, Underway, Ownership, ReadMessages, Goto, Respond
  <1>14. ASSUME NEW r \in Req, FindForTitle(r)  PROVE Ownership'
    BY <1>14 DEF TypeOK, Underway, Ownership, FindForTitle, Goto, Respond
  <1>15. ASSUME NEW r \in Req, CommitTitle(r)  PROVE Ownership'
    BY <1>15 DEF TypeOK, Underway, Ownership, CommitTitle, Goto, Respond
  <1>16. ASSUME NEW r \in Req, RefreshRow(r, "reread", 200)  PROVE Ownership'
    BY <1>16 DEF TypeOK, Underway, Ownership, RefreshRow, Goto, Respond
  <1>17. ASSUME NEW r \in Req, DropSession(r)  PROVE Ownership'
    BY <1>17 DEF TypeOK, Underway, Ownership, DropSession, Goto, Respond, Owns
  <1>18. ASSUME NEW r \in Req, ListForDeletion(r)  PROVE Ownership'
    BY <1>18 DEF TypeOK, Underway, Ownership, ListForDeletion, Goto, OwnedBy
  <1>19. ASSUME NEW r \in Req, DeleteThread(r)  PROVE Ownership'
    BY <1>19 DEF TypeOK, Underway, Ownership, DeleteThread, Goto, Respond
  <1>20. ASSUME NEW r \in Req, DropUser(r)  PROVE Ownership'
    BY <1>20 DEF TypeOK, Underway, Ownership, DropUser, Goto, Respond, Owns
  <1>21. ASSUME NEW r \in Req, StartRunFails(r)  PROVE Ownership'
    BY <1>21 DEF TypeOK, Underway, Ownership, StartRunFails, RunReaches, Goto
  <1>22. ASSUME NEW r \in Req, DatabaseFails(r)  PROVE Ownership'
    BY <1>22 DEF TypeOK, Underway, Ownership, DatabaseFails, Goto, Respond, Release
  <1>23. CASE Crash
    BY <1>23 DEF TypeOK, Underway, Ownership, Crash, InFlight
  <1>24. CASE UNCHANGED vars
    BY <1>24 DEF TypeOK, Underway, Ownership, vars
  <1>25. QED
    BY <1>1, <1>2, <1>3, <1>4, <1>5, <1>6, <1>7, <1>8, <1>9, <1>10, <1>11, <1>12, <1>13, <1>14, <1>15, <1>16, <1>17, <1>18, <1>19, <1>20, <1>21, <1>22, <1>23, <1>24 DEF Next, Serve

LEMMA NextToDelete ==
  ASSUME Typed, ToDelete, [Next]_vars
  PROVE  ToDelete'
  <1> USE SessionsAssumption DEF Typed, store, locals
  <1>1. ASSUME NEW r \in Req, Arrive(r)  PROVE ToDelete'
    BY <1>1 DEF TypeOK, Underway, ToDelete, Arrive, Goto
  <1>2. ASSUME NEW r \in Req, GetCurrentUser(r)  PROVE ToDelete'
    BY <1>2 DEF TypeOK, Underway, ToDelete, GetCurrentUser, Goto, Respond
  <1>3. ASSUME NEW r \in Req, BeginCreate(r)  PROVE ToDelete'
    BY <1>3 DEF TypeOK, Underway, ToDelete, BeginCreate, Goto
  <1>4. ASSUME NEW r \in Req, AdvisoryLock(r)  PROVE ToDelete'
    BY <1>4 DEF TypeOK, Underway, ToDelete, AdvisoryLock, Goto
  <1>5. ASSUME NEW r \in Req, CountSessions(r)  PROVE ToDelete'
    BY <1>5 DEF TypeOK, Underway, ToDelete, CountSessions, Goto, Respond, Release
  <1>6. ASSUME NEW r \in Req, InsertSession(r)  PROVE ToDelete'
    BY <1>6 DEF TypeOK, Underway, ToDelete, InsertSession, Goto, Respond, Release
  <1>7. ASSUME NEW r \in Req, RefreshRow(r, "refresh", 201)  PROVE ToDelete'
    BY <1>7 DEF TypeOK, Underway, ToDelete, RefreshRow, Goto, Respond
  <1>8. ASSUME NEW r \in Req, ValidateOwnership(r)  PROVE ToDelete'
    BY <1>8 DEF TypeOK, Underway, ToDelete, ValidateOwnership, Goto, Respond, Owns
  <1>9. ASSUME NEW r \in Req, IncrementMessages(r)  PROVE ToDelete'
    BY <1>9 DEF TypeOK, Underway, ToDelete, IncrementMessages, Goto, Respond, Owns
  <1>10. ASSUME NEW r \in Req, CheckThreshold(r)  PROVE ToDelete'
    BY <1>10 DEF TypeOK, Underway, ToDelete, CheckThreshold, Goto, Respond
  <1>11. ASSUME NEW r \in Req, StartRun(r)  PROVE ToDelete'
    BY <1>11 DEF TypeOK, Underway, ToDelete, StartRun, RunReaches, Goto
  <1>12. ASSUME NEW r \in Req, EndStream(r)  PROVE ToDelete'
    BY <1>12 DEF TypeOK, Underway, ToDelete, EndStream, Goto
  <1>13. ASSUME NEW r \in Req, ReadMessages(r)  PROVE ToDelete'
    BY <1>13 DEF TypeOK, Underway, ToDelete, ReadMessages, Goto, Respond
  <1>14. ASSUME NEW r \in Req, FindForTitle(r)  PROVE ToDelete'
    BY <1>14 DEF TypeOK, Underway, ToDelete, FindForTitle, Goto, Respond
  <1>15. ASSUME NEW r \in Req, CommitTitle(r)  PROVE ToDelete'
    BY <1>15 DEF TypeOK, Underway, ToDelete, CommitTitle, Goto, Respond
  <1>16. ASSUME NEW r \in Req, RefreshRow(r, "reread", 200)  PROVE ToDelete'
    BY <1>16 DEF TypeOK, Underway, ToDelete, RefreshRow, Goto, Respond
  <1>17. ASSUME NEW r \in Req, DropSession(r)  PROVE ToDelete'
    BY <1>17 DEF TypeOK, Underway, ToDelete, DropSession, Goto, Respond, Owns
  <1>18. ASSUME NEW r \in Req, ListForDeletion(r)  PROVE ToDelete'
    BY <1>18 DEF TypeOK, Underway, ToDelete, ListForDeletion, Goto, OwnedBy
  <1>19. ASSUME NEW r \in Req, DeleteThread(r)  PROVE ToDelete'
    BY <1>19 DEF TypeOK, Underway, ToDelete, DeleteThread, Goto, Respond
  <1>20. ASSUME NEW r \in Req, DropUser(r)  PROVE ToDelete'
    BY <1>20 DEF TypeOK, Underway, ToDelete, DropUser, Goto, Respond, Owns
  <1>21. ASSUME NEW r \in Req, StartRunFails(r)  PROVE ToDelete'
    BY <1>21 DEF TypeOK, Underway, ToDelete, StartRunFails, RunReaches, Goto
  <1>22. ASSUME NEW r \in Req, DatabaseFails(r)  PROVE ToDelete'
    BY <1>22 DEF TypeOK, Underway, ToDelete, DatabaseFails, Goto, Respond, Release
  <1>23. CASE Crash
    BY <1>23 DEF TypeOK, Underway, ToDelete, Crash, InFlight
  <1>24. CASE UNCHANGED vars
    BY <1>24 DEF TypeOK, Underway, ToDelete, vars
  <1>25. QED
    BY <1>1, <1>2, <1>3, <1>4, <1>5, <1>6, <1>7, <1>8, <1>9, <1>10, <1>11, <1>12, <1>13, <1>14, <1>15, <1>16, <1>17, <1>18, <1>19, <1>20, <1>21, <1>22, <1>23, <1>24 DEF Next, Serve

LEMMA NextOrphan ==
  ASSUME Typed, SessionQuota, Ownership, OrphanInv, MaxSessions <= PageLimit, [Next]_vars
  PROVE  OrphanInv'
  <1> USE SessionsAssumption DEF Typed, store, locals
  <1>1. ASSUME NEW r \in Req, Arrive(r)  PROVE OrphanInv'
    BY <1>1 DEF TypeOK, Underway, Ownership, OrphanInv, Explained, ClosingAccount, Arrive, Goto
  <1>2. ASSUME NEW r \in Req, GetCurrentUser(r)  PROVE OrphanInv'
    <2>1. /\ pc[r] = "auth" /\ op[r] \in Operation
          /\ pc' = [pc EXCEPT ![r] = FirstStep[op[r]]] \/ pc' = [pc EXCEPT ![r] = "done"]
          /\ UNCHANGED <<row, owner, talk, op, user, todo, late, swallowed>>
      BY <1>2 DEF GetCurrentUser, Goto, Respond, Underway
    <2>2. \A u \in User \cup {NoUser} : ClosingAccount(u)' => ClosingAccount(u)
      BY <2>1, FirstSteps DEF ClosingAccount, TypeOK
    <2>3. QED  BY <2>1, <2>2 DEF TypeOK, OrphanInv, Explained
  <1>3. ASSUME NEW r \in Req, BeginCreate(r)  PROVE OrphanInv'
    BY <1>3 DEF TypeOK, Underway, Ownership, OrphanInv, Explained, ClosingAccount, BeginCreate, Goto
  <1>4. ASSUME NEW r \in Req, AdvisoryLock(r)  PROVE OrphanInv'
    BY <1>4 DEF TypeOK, Underway, Ownership, OrphanInv, Explained, ClosingAccount, AdvisoryLock, Goto
  <1>5. ASSUME NEW r \in Req, CountSessions(r)  PROVE OrphanInv'
    BY <1>5 DEF TypeOK, Underway, Ownership, OrphanInv, Explained, ClosingAccount, CountSessions, Goto, Respond, Release
  <1>6. ASSUME NEW r \in Req, InsertSession(r)  PROVE OrphanInv'
    BY <1>6 DEF TypeOK, Underway, Ownership, OrphanInv, Explained, ClosingAccount, InsertSession, Goto, Respond, Release
  <1>7. ASSUME NEW r \in Req, RefreshRow(r, "refresh", 201)  PROVE OrphanInv'
    BY <1>7 DEF TypeOK, Underway, Ownership, OrphanInv, Explained, ClosingAccount, RefreshRow, Goto, Respond
  <1>8. ASSUME NEW r \in Req, ValidateOwnership(r)  PROVE OrphanInv'
    BY <1>8 DEF TypeOK, Underway, Ownership, OrphanInv, Explained, ClosingAccount, ValidateOwnership, Goto, Respond, Owns
  <1>9. ASSUME NEW r \in Req, IncrementMessages(r)  PROVE OrphanInv'
    BY <1>9 DEF TypeOK, Underway, Ownership, OrphanInv, Explained, ClosingAccount, IncrementMessages, Goto, Respond, Owns
  <1>10. ASSUME NEW r \in Req, CheckThreshold(r)  PROVE OrphanInv'
    BY <1>10 DEF TypeOK, Underway, Ownership, OrphanInv, Explained, ClosingAccount, CheckThreshold, Goto, Respond
  <1>11. ASSUME NEW r \in Req, StartRun(r)  PROVE OrphanInv'
    BY <1>11 DEF TypeOK, Underway, Ownership, OrphanInv, Explained, ClosingAccount, StartRun, RunReaches, Goto
  <1>12. ASSUME NEW r \in Req, EndStream(r)  PROVE OrphanInv'
    BY <1>12 DEF TypeOK, Underway, Ownership, OrphanInv, Explained, ClosingAccount, EndStream, Goto
  <1>13. ASSUME NEW r \in Req, ReadMessages(r)  PROVE OrphanInv'
    BY <1>13 DEF TypeOK, Underway, Ownership, OrphanInv, Explained, ClosingAccount, ReadMessages, Goto, Respond
  <1>14. ASSUME NEW r \in Req, FindForTitle(r)  PROVE OrphanInv'
    BY <1>14 DEF TypeOK, Underway, Ownership, OrphanInv, Explained, ClosingAccount, FindForTitle, Goto, Respond
  <1>15. ASSUME NEW r \in Req, CommitTitle(r)  PROVE OrphanInv'
    BY <1>15 DEF TypeOK, Underway, Ownership, OrphanInv, Explained, ClosingAccount, CommitTitle, Goto, Respond
  <1>16. ASSUME NEW r \in Req, RefreshRow(r, "reread", 200)  PROVE OrphanInv'
    BY <1>16 DEF TypeOK, Underway, Ownership, OrphanInv, Explained, ClosingAccount, RefreshRow, Goto, Respond
  <1>17. ASSUME NEW r \in Req, DropSession(r)  PROVE OrphanInv'
    BY <1>17 DEF TypeOK, Underway, Ownership, OrphanInv, Explained, ClosingAccount, DropSession, Goto, Respond, Owns
  <1>18. ASSUME NEW r \in Req, ListForDeletion(r)  PROVE OrphanInv'
    <2>1. PICK page \in SUBSET OwnedBy(user[r]) :
            /\ Cardinality(page) <= PageLimit
            /\ page = OwnedBy(user[r]) \/ Cardinality(page) = PageLimit
            /\ todo' = [todo EXCEPT ![r] = page]
            /\ pc' = [pc EXCEPT ![r] = IF page = {} THEN "deluser" ELSE "unthread"]
      BY <1>18 DEF ListForDeletion, Goto
    <2>2. /\ pc[r] = "list" /\ user[r] \in User /\ op[r] = "account" /\ todo[r] = {}
          /\ UNCHANGED <<store, talk, locals, late, swallowed>>
      BY <1>18 DEF ListForDeletion, Underway
    <2>3. page = OwnedBy(user[r])
      <3>1. /\ IsFiniteSet(OwnedBy(user[r])) /\ Cardinality(OwnedBy(user[r])) <= MaxSessions
            /\ Cardinality(OwnedBy(user[r])) \in Nat
        BY <2>2, FS_CardinalityType DEF SessionQuota
      <3>2. /\ Cardinality(page) <= Cardinality(OwnedBy(user[r]))
            /\ Cardinality(page) = Cardinality(OwnedBy(user[r])) => page = OwnedBy(user[r])
            /\ Cardinality(page) \in Nat
        BY <3>1, FS_Subset, FS_CardinalityType
      <3>3. QED  BY <2>1, <3>1, <3>2
    <2>4. \A s \in Session : Explained(s) => Explained(s)'
      BY <2>1, <2>2 DEF Explained, TypeOK
    <2>5. \A s \in OwnedBy(user[r]) : Explained(s)'
      BY <2>1, <2>3 DEF Explained, TypeOK
    <2>6. \A u \in User \cup {NoUser} : ClosingAccount(u)' => ClosingAccount(u) \/ u = user[r]
      BY <2>1, <2>2 DEF ClosingAccount, TypeOK
    <2>7. QED  BY <2>2, <2>4, <2>5, <2>6 DEF TypeOK, OrphanInv, OwnedBy
  <1>19. ASSUME NEW r \in Req, DeleteThread(r)  PROVE OrphanInv'
    BY <1>19 DEF TypeOK, Underway, Ownership, OrphanInv, Explained, ClosingAccount, DeleteThread, Goto, Respond
  <1>20. ASSUME NEW r \in Req, DropUser(r)  PROVE OrphanInv'
    BY <1>20 DEF TypeOK, Underway, Ownership, OrphanInv, Explained, ClosingAccount, DropUser, Goto, Respond, Owns
  <1>21. ASSUME NEW r \in Req, StartRunFails(r)  PROVE OrphanInv'
    BY <1>21 DEF TypeOK, Underway, Ownership, OrphanInv, Explained, ClosingAccount, StartRunFails, RunReaches, Goto
  <1>22. ASSUME NEW r \in Req, DatabaseFails(r)  PROVE OrphanInv'
    BY <1>22 DEF TypeOK, Underway, Ownership, OrphanInv, Explained, ClosingAccount, DatabaseFails, Goto, Respond, Release
  <1>23. CASE Crash
    BY <1>23 DEF TypeOK, Underway, Ownership, OrphanInv, Explained, ClosingAccount, Crash, InFlight
  <1>24. CASE UNCHANGED vars
    BY <1>24 DEF TypeOK, Underway, Ownership, OrphanInv, Explained, ClosingAccount, vars
  <1>25. QED
    BY <1>1, <1>2, <1>3, <1>4, <1>5, <1>6, <1>7, <1>8, <1>9, <1>10, <1>11, <1>12, <1>13, <1>14, <1>15, <1>16, <1>17, <1>18, <1>19, <1>20, <1>21, <1>22, <1>23, <1>24 DEF Next, Serve

LEMMA InitThreads == Init => Ownership /\ ToDelete /\ OrphanInv
  BY DEF Init, Ownership, ToDelete, OrphanInv

\* A request only ever reads a thread that holds its own user's messages.
THEOREM ReadsOwnMessagesHolds == Spec => []ReadsOwnMessages
  <1>1. Init => Typed /\ Ownership
    BY InitTyped, InitThreads
  <1>2. Typed /\ Ownership /\ [Next]_vars => (Typed /\ Ownership)'
    BY NextTyped, NextOwnership
  <1>3. Typed /\ Ownership => ReadsOwnMessages
    BY DEF Typed, Underway, Ownership, ReadsOwnMessages
  <1>4. QED  BY <1>1, <1>2, <1>3, PTL DEF Spec

\* While a user may not have more sessions than one page of list_user_sessions
\* shows, a deletion leaves a thread behind only for one of the stated reasons.
THEOREM OrphansAccountedForHolds ==
  ASSUME MaxSessions <= PageLimit
  PROVE  Spec => []OrphansAccountedFor
  <1> DEFINE IInv == Typed /\ LockHeld /\ RoomLeft /\ SessionQuota /\ Ownership /\ OrphanInv
  <1>1. Init => IInv
    BY InitTyped, InitQuota, InitThreads
  <1>2. IInv /\ [Next]_vars => IInv'
    BY NextTyped, NextLockHeld, NextQuota, NextOwnership, NextOrphan
  <1>3. IInv => OrphansAccountedFor
    BY DEF OrphanInv, OrphansAccountedFor, Explained
  <1> HIDE DEF IInv
  <1>4. QED  BY <1>1, <1>2, <1>3, PTL DEF Spec

LEMMA OnlyDeleteThreadForgets ==
  ASSUME Typed, [Next]_vars, NEW s \in Session, talk[s] # {}, talk'[s] = {}
  PROVE  \E r \in Req : /\ pc[r] = "unthread" /\ s \in todo[r]
                        /\ op[r] \in {"delete", "account"}
  <1> USE DEF Typed, store, locals
  <1>1. \A r \in Req : ~ (StartRun(r) \/ StartRunFails(r))
    BY DEF StartRun, StartRunFails, RunReaches, TypeOK
  <1>2. ~ UNCHANGED talk
    OBVIOUS
  <1>3. PICK r \in Req : DeleteThread(r)
    BY <1>1, <1>2 DEF Next, Serve, vars, Arrive, GetCurrentUser, BeginCreate, AdvisoryLock,
       CountSessions, InsertSession, RefreshRow, ValidateOwnership, IncrementMessages,
       CheckThreshold, EndStream, ReadMessages, FindForTitle, CommitTitle, DropSession,
       ListForDeletion, DropUser, DatabaseFails, Crash
  <1>4. QED  BY <1>3 DEF DeleteThread, TypeOK, Underway

\* Deleting a session never empties the thread of a session that still exists.
THEOREM HistoryOfLiveSessionsKeptHolds == Spec => HistoryOfLiveSessionsKept
  <1>1. Init => Typed /\ ToDelete
    BY InitTyped, InitThreads
  <1>2. Typed /\ ToDelete /\ [Next]_vars => (Typed /\ ToDelete)'
    BY NextTyped, NextToDelete
  <1>3. ASSUME Typed, ToDelete, [Next]_vars, NEW s \in Session,
               talk[s] # {}, talk'[s] = {}, row[s] = "live"
        PROVE  ClosingAccount(owner[s])
    <2>1. PICK r \in Req : /\ pc[r] = "unthread" /\ s \in todo[r]
                           /\ op[r] \in {"delete", "account"}
      BY <1>3, OnlyDeleteThreadForgets
    <2>2. op[r] = "account" /\ owner[s] = user[r]
      BY <1>3, <2>1 DEF ToDelete
    <2>3. QED  BY <2>1, <2>2 DEF ClosingAccount
  <1>4. Typed /\ ToDelete /\ [Next]_vars
          => [\A s \in Session :
                talk[s] # {} /\ talk'[s] = {} /\ row[s] = "live" => ClosingAccount(owner[s])]_vars
    BY <1>3
  <1>5. QED  BY <1>1, <1>2, <1>4, PTL DEF Spec, HistoryOfLiveSessionsKept

-----------------------------------------------------------------------------
(* The ledger *)

\* No step but that of the threshold check admits a request.
LEMMA OnlyTheGateAdmits ==
  ASSUME Typed, Tickets, [Next]_vars, NEW s \in Session,
         ~ \E r \in Req : CheckThreshold(r) /\ seen[r] < Threshold
  PROVE  Admitted(s)' = Admitted(s)
  <1> USE SessionsAssumption DEF Typed, store, locals
  <1>1. ASSUME NEW r \in Req, Arrive(r)  PROVE Admitted(s)' = Admitted(s)
    BY <1>1 DEF TypeOK, Underway, Tickets, Admitted, Arrive, Goto
  <1>2. ASSUME NEW r \in Req, GetCurrentUser(r)  PROVE Admitted(s)' = Admitted(s)
    BY <1>2 DEF TypeOK, Underway, Tickets, Admitted, GetCurrentUser, Goto, Respond
  <1>3. ASSUME NEW r \in Req, BeginCreate(r)  PROVE Admitted(s)' = Admitted(s)
    BY <1>3 DEF TypeOK, Underway, Tickets, Admitted, BeginCreate, Goto
  <1>4. ASSUME NEW r \in Req, AdvisoryLock(r)  PROVE Admitted(s)' = Admitted(s)
    BY <1>4 DEF TypeOK, Underway, Tickets, Admitted, AdvisoryLock, Goto
  <1>5. ASSUME NEW r \in Req, CountSessions(r)  PROVE Admitted(s)' = Admitted(s)
    BY <1>5 DEF TypeOK, Underway, Tickets, Admitted, CountSessions, Goto, Respond, Release
  <1>6. ASSUME NEW r \in Req, InsertSession(r)  PROVE Admitted(s)' = Admitted(s)
    BY <1>6 DEF TypeOK, Underway, Tickets, Admitted, InsertSession, Goto, Respond, Release
  <1>7. ASSUME NEW r \in Req, RefreshRow(r, "refresh", 201)  PROVE Admitted(s)' = Admitted(s)
    BY <1>7 DEF TypeOK, Underway, Tickets, Admitted, RefreshRow, Goto, Respond
  <1>8. ASSUME NEW r \in Req, ValidateOwnership(r)  PROVE Admitted(s)' = Admitted(s)
    BY <1>8 DEF TypeOK, Underway, Tickets, Admitted, ValidateOwnership, Goto, Respond
  <1>9. ASSUME NEW r \in Req, IncrementMessages(r)  PROVE Admitted(s)' = Admitted(s)
    BY <1>9 DEF TypeOK, Underway, Tickets, Admitted, IncrementMessages, Goto, Respond
  <1>10. ASSUME NEW r \in Req, CheckThreshold(r)  PROVE Admitted(s)' = Admitted(s)
    BY <1>10 DEF TypeOK, Underway, Tickets, Admitted, CheckThreshold, Goto, Respond
  <1>11. ASSUME NEW r \in Req, StartRun(r)  PROVE Admitted(s)' = Admitted(s)
    BY <1>11 DEF TypeOK, Underway, Tickets, Admitted, StartRun, Goto
  <1>12. ASSUME NEW r \in Req, EndStream(r)  PROVE Admitted(s)' = Admitted(s)
    BY <1>12 DEF TypeOK, Underway, Tickets, Admitted, EndStream, Goto
  <1>13. ASSUME NEW r \in Req, ReadMessages(r)  PROVE Admitted(s)' = Admitted(s)
    BY <1>13 DEF TypeOK, Underway, Tickets, Admitted, ReadMessages, Goto, Respond
  <1>14. ASSUME NEW r \in Req, FindForTitle(r)  PROVE Admitted(s)' = Admitted(s)
    BY <1>14 DEF TypeOK, Underway, Tickets, Admitted, FindForTitle, Goto, Respond
  <1>15. ASSUME NEW r \in Req, CommitTitle(r)  PROVE Admitted(s)' = Admitted(s)
    BY <1>15 DEF TypeOK, Underway, Tickets, Admitted, CommitTitle, Goto, Respond
  <1>16. ASSUME NEW r \in Req, RefreshRow(r, "reread", 200)  PROVE Admitted(s)' = Admitted(s)
    BY <1>16 DEF TypeOK, Underway, Tickets, Admitted, RefreshRow, Goto, Respond
  <1>17. ASSUME NEW r \in Req, DropSession(r)  PROVE Admitted(s)' = Admitted(s)
    BY <1>17 DEF TypeOK, Underway, Tickets, Admitted, DropSession, Goto, Respond
  <1>18. ASSUME NEW r \in Req, ListForDeletion(r)  PROVE Admitted(s)' = Admitted(s)
    BY <1>18 DEF TypeOK, Underway, Tickets, Admitted, ListForDeletion, Goto
  <1>19. ASSUME NEW r \in Req, DeleteThread(r)  PROVE Admitted(s)' = Admitted(s)
    BY <1>19 DEF TypeOK, Underway, Tickets, Admitted, DeleteThread, Goto, Respond
  <1>20. ASSUME NEW r \in Req, DropUser(r)  PROVE Admitted(s)' = Admitted(s)
    BY <1>20 DEF TypeOK, Underway, Tickets, Admitted, DropUser, Goto, Respond
  <1>21. ASSUME NEW r \in Req, StartRunFails(r)  PROVE Admitted(s)' = Admitted(s)
    BY <1>21 DEF TypeOK, Underway, Tickets, Admitted, StartRunFails, Goto
  <1>22. ASSUME NEW r \in Req, DatabaseFails(r)  PROVE Admitted(s)' = Admitted(s)
    BY <1>22 DEF TypeOK, Underway, Tickets, Admitted, DatabaseFails, Goto, Respond
  <1>23. CASE Crash
    BY <1>23 DEF TypeOK, Admitted, Crash
  <1>24. CASE UNCHANGED vars
    BY <1>24 DEF Admitted, vars
  <1>25. QED
    BY <1>1, <1>2, <1>3, <1>4, <1>5, <1>6, <1>7, <1>8, <1>9, <1>10, <1>11, <1>12, <1>13, <1>14, <1>15, <1>16, <1>17, <1>18, <1>19, <1>20, <1>21, <1>22, <1>23, <1>24 DEF Next, Serve

\* The foreign key with ON DELETE CASCADE: a live session has a live owner.
LiveOwners == \A s \in Session : row[s] = "live" => owner[s] \in users

\* Only four steps change what the ledger shows.
LEMMA StepsOfTheLedger ==
  ASSUME Typed, [Next]_vars
  PROVE  \/ UNCHANGED <<users, row, owner>>
         \/ \E r \in Req : InsertSession(r) /\ user[r] \in users
         \/ \E r \in Req : DropSession(r) /\ Owns(user[r], sess[r])
         \/ \E r \in Req : DropUser(r)
  <1>1. ASSUME NEW r \in Req, InsertSession(r), user[r] \notin users
        PROVE  UNCHANGED <<users, row, owner>>
    BY <1>1 DEF InsertSession
  <1>2. ASSUME NEW r \in Req, DropSession(r), ~ Owns(user[r], sess[r])
        PROVE  UNCHANGED <<users, row, owner>>
    BY <1>2 DEF DropSession
  <1>3. QED
    BY <1>1, <1>2 DEF Next, Serve, vars, store, Arrive, GetCurrentUser, BeginCreate, AdvisoryLock,
       CountSessions, RefreshRow, ValidateOwnership, IncrementMessages, CheckThreshold, StartRun,
       EndStream, ReadMessages, FindForTitle, CommitTitle, ListForDeletion, DeleteThread,
       StartRunFails, DatabaseFails, Crash

LEMMA NextLiveOwners ==
  ASSUME Typed, LiveOwners, [Next]_vars
  PROVE  LiveOwners'
  <1>1. CASE UNCHANGED <<users, row, owner>>
    BY <1>1 DEF LiveOwners
  <1>2. ASSUME NEW r \in Req, InsertSession(r), user[r] \in users
        PROVE  LiveOwners'
    <2>1. PICK s \in Session :
            row' = [row EXCEPT ![s] = "live"] /\ owner' = [owner EXCEPT ![s] = user[r]]
      BY <1>2 DEF InsertSession
    <2>2. QED  BY <1>2, <2>1 DEF LiveOwners, InsertSession, Typed, TypeOK
  <1>3. ASSUME NEW r \in Req, DropSession(r), Owns(user[r], sess[r])
        PROVE  LiveOwners'
    BY <1>3 DEF LiveOwners, DropSession, Typed, TypeOK
  <1>4. ASSUME NEW r \in Req, DropUser(r)
        PROVE  LiveOwners'
    BY <1>4 DEF LiveOwners, DropUser, Owns, Typed, TypeOK
  <1>5. QED  BY <1>1, <1>2, <1>3, <1>4, StepsOfTheLedger

\* The variables of the ledger, as the refinement reads them; the fourth is users.
Book == [u \in User |-> OwnedBy(u)]
Used == {s \in Session : row[s] = "gone"}
Served == [s \in Session |-> Cardinality(Admitted(s))]

\* The module of the ledger has the operators of FiniteSets for itself.
LEMMA SameCardinality == \A S : Ledger!Cardinality(S) = Cardinality(S)
  BY DEF Cardinality, Ledger!Cardinality

LEMMA InitLedger ==
  ASSUME Init
  PROVE  Ledger!Init
  <1>1. \A s \in Session : Admitted(s) = {}
    BY DEF Init, Admitted
  <1>2. Served = [s \in Session |-> 0]
    BY <1>1, FS_EmptySet DEF Served
  <1>3. Book \in [User -> SUBSET Session] /\ Used = {} /\ users = User
    BY DEF Init, Book, Used, OwnedBy
  <1>4. \A u \in User : Book[u] = OwnedBy(u)
    BY DEF Book
  <1>5. /\ \A u, v \in User : u # v => Book[u] \cap Book[v] = {}
        /\ \A u \in User : Cardinality(Book[u]) <= MaxSessions
    BY <1>4 DEF Init, OwnedBy
  <1>6. \A u \in User : Ledger!Cardinality(Book[u]) <= MaxSessions
    BY <1>5, SameCardinality
  <1>7. QED
    BY <1>2, <1>3, <1>5, <1>6, Zenon DEF Ledger!Init, Book, Used, Served

\* InsertSession opens a session, and the count of before still holds.
LEMMA InsertIsOpen ==
  ASSUME Typed, Tickets, RoomLeft, [Next]_vars,
         NEW r \in Req, InsertSession(r), user[r] \in users
  PROVE  Ledger!Next
  <1>0. PICK u : u = user[r]
    OBVIOUS
  <1>1. PICK s \in Session :
          /\ row[s] = "unborn"
          /\ row' = [row EXCEPT ![s] = "live"]
          /\ owner' = [owner EXCEPT ![s] = u]
    BY <1>0 DEF InsertSession
  <1>2. users' = users /\ u \in users /\ u \in User /\ pc[r] = "insert"
    BY <1>0 DEF InsertSession, Typed, TypeOK
  <1>3. Cardinality(OwnedBy(u)) < MaxSessions
    BY <1>0, <1>2 DEF RoomLeft
  <1>4. \A v \in User : OwnedBy(v)' = IF v = u THEN OwnedBy(v) \cup {s} ELSE OwnedBy(v)
    BY <1>1, <1>2 DEF OwnedBy, Typed, TypeOK
  <1>5. Book' = [Book EXCEPT ![u] = @ \cup {s}]
    BY <1>2, <1>4 DEF Book
  <1>6. Used' = Used /\ s \notin Used /\ \A v \in User : s \notin OwnedBy(v)
    BY <1>1 DEF Used, OwnedBy, Typed, TypeOK
  <1>7. Served' = Served
    <2>1. \A q \in Req : ~ CheckThreshold(q)
      BY <1>1, <1>2 DEF CheckThreshold, store, Typed, TypeOK
    <2>2. \A t \in Session : Admitted(t)' = Admitted(t)
      BY <2>1, OnlyTheGateAdmits
    <2>3. QED  BY <2>2 DEF Served
  <1>8. s \notin Ledger!Opened \cup Used
    BY <1>6 DEF Ledger!Opened
  <1>9. Ledger!Cardinality(Book[u]) < MaxSessions
    BY <1>2, <1>3, SameCardinality DEF Book
  <1>10. Ledger!Open(u, s)
    BY <1>2, <1>5, <1>6, <1>7, <1>8, <1>9, Zenon DEF Ledger!Open, Book, Used, Served
  <1>11. QED  BY <1>2, <1>10 DEF Ledger!Next

\* DropSession closes the session, whoever else may be using it.
LEMMA DropIsClose ==
  ASSUME Typed, Tickets, [Next]_vars,
         NEW r \in Req, DropSession(r), Owns(user[r], sess[r])
  PROVE  Ledger!Next
  <1>0. PICK u, s : u = user[r] /\ s = sess[r]
    OBVIOUS
  <1>1. /\ pc[r] = "drop" /\ users' = users /\ owner' = owner
        /\ row' = [row EXCEPT ![s] = "gone"] /\ Owns(u, s)
    BY <1>0 DEF DropSession
  <1>2. u \in User /\ s \in Session /\ s \in OwnedBy(u)
    BY <1>0, <1>1 DEF Typed, Underway, Owns, OwnedBy
  <1>3. \A v \in User : OwnedBy(v)' = IF v = u THEN OwnedBy(v) \ {s} ELSE OwnedBy(v)
    BY <1>1, <1>2 DEF OwnedBy, Typed, TypeOK
  <1>4. Book' = [Book EXCEPT ![u] = @ \ {s}] /\ s \in Book[u]
    BY <1>2, <1>3 DEF Book
  <1>5. Used' = Used \cup {s}
    BY <1>1, <1>2 DEF Used, Typed, TypeOK
  <1>6. Served' = Served
    <2>1. \A q \in Req : ~ CheckThreshold(q)
      <3>1. row[s] = "live" /\ row'[s] = "gone"
        BY <1>1, <1>2 DEF Owns, Typed, TypeOK
      <3>2. QED  BY <3>1 DEF CheckThreshold, store
    <2>2. QED  BY <2>1, OnlyTheGateAdmits DEF Served
  <1>7. Ledger!Close(u, s)
    BY <1>1, <1>4, <1>5, <1>6, Zenon DEF Ledger!Close, Book, Used, Served
  <1>8. QED  BY <1>2, <1>7 DEF Ledger!Next

\* DropUser closes the account with all its sessions; the second deletion of an
\* account finds none.
LEMMA DropUserIsClose ==
  ASSUME Typed, Tickets, LiveOwners, [Next]_vars, NEW r \in Req, DropUser(r)
  PROVE  [Ledger!Next]_(Ledger!ledger)
  <1>0. PICK u : u = user[r]
    OBVIOUS
  <1>1. /\ pc[r] = "deluser" /\ users' = users \ {u} /\ owner' = owner
        /\ row' = [s \in Session |-> IF Owns(u, s) THEN "gone" ELSE row[s]]
        /\ pc' = [pc EXCEPT ![r] = "done"]
    BY <1>0 DEF DropUser, Respond, Goto
  <1>2. u \in User
    BY <1>0, <1>1 DEF Typed, Underway
  <1>3. \A v \in User : OwnedBy(v)' = IF v = u THEN {} ELSE OwnedBy(v)
    BY <1>1, <1>2 DEF OwnedBy, Owns, Typed, TypeOK
  <1>4. Book' = [Book EXCEPT ![u] = {}] /\ Book[u] = OwnedBy(u)
    BY <1>2, <1>3 DEF Book
  <1>5. Used' = Used \cup Book[u]
    BY <1>1, <1>4 DEF Used, Owns, OwnedBy, Typed, TypeOK
  <1>6. Served' = Served
    <2>1. ASSUME NEW q \in Req, CheckThreshold(q), seen[q] < Threshold  PROVE FALSE
      <3>1. pc[q] = "gate" /\ pc'[q] = "run"
        BY <2>1, SessionsAssumption DEF CheckThreshold, Goto, Typed, TypeOK
      <3>2. QED  BY <1>1, <3>1 DEF Typed, TypeOK
    <2>2. QED  BY <2>1, OnlyTheGateAdmits DEF Served
  <1>7. CASE u \in users
    <2>1. Ledger!CloseAccount(u)
      BY <1>1, <1>4, <1>5, <1>6, <1>7, Zenon DEF Ledger!CloseAccount, Book, Used, Served
    <2>2. QED  BY <1>2, <2>1 DEF Ledger!Next
  <1>8. CASE u \notin users
    <2>1. OwnedBy(u) = {}
      BY <1>8 DEF LiveOwners, OwnedBy
    <2>2. users' = users /\ Used' = Used
      BY <1>1, <1>4, <1>5, <1>8, <2>1
    <2>3. Book' = Book
      BY <1>3, <2>1 DEF Book
    <2>4. QED  BY <1>6, <2>2, <2>3, Zenon DEF Ledger!ledger, Book, Used, Served
  <1>9. QED  BY <1>7, <1>8

\* CheckThreshold serves a message, on a session that is or was open.
LEMMA GateIsMessage ==
  ASSUME Typed, Tickets, AdmissionsBounded', LiveOwners, [Next]_vars,
         NEW r \in Req, CheckThreshold(r), seen[r] < Threshold
  PROVE  Ledger!Next
  <1> USE SessionsAssumption
  <1>1. /\ pc[r] = "gate" /\ answer' = [answer EXCEPT ![r] = 200]
        /\ UNCHANGED <<users, row, owner, op, sess>>
    BY DEF CheckThreshold, Respond, store, locals, Typed, TypeOK
  <1>2. PICK s : s = sess[r]
    OBVIOUS
  <1>3. /\ op[r] = "align" /\ s \in Session /\ row[s] # "unborn" /\ answer[r] = 0
    BY <1>1, <1>2 DEF Typed, Underway, Tickets
  <1>4. \A t \in Session : Admitted(t)' = IF t = s THEN Admitted(t) \cup {r} ELSE Admitted(t)
    BY <1>1, <1>2, <1>3 DEF Admitted, Typed, TypeOK
  <1>5. /\ IsFiniteSet(Admitted(s)) /\ Cardinality(Admitted(s)) \in Nat
        /\ Cardinality(Admitted(s)') = Cardinality(Admitted(s)) + 1
    <2>1. r \notin Admitted(s)
      BY <1>3 DEF Admitted
    <2>2. IsFiniteSet(Admitted(s)) /\ Admitted(s)' = Admitted(s) \cup {r}
      BY <1>3, <1>4, TicketsBound
    <2>3. QED  BY <2>1, <2>2, FS_AddElement, FS_CardinalityType
  <1>6. Cardinality(Admitted(s)) + 1 < Threshold
    <2>1. Cardinality(Admitted(s)') <= IF Threshold = 0 THEN 0 ELSE Threshold - 1
      BY <1>3 DEF AdmissionsBounded
    <2>2. QED  BY <1>5, <2>1
  <1>7. Served' = [Served EXCEPT ![s] = @ + 1] /\ Served[s] + 1 < Threshold
    BY <1>3, <1>4, <1>5, <1>6 DEF Served
  <1>8. Book' = Book /\ Used' = Used
    BY <1>1 DEF Book, Used, OwnedBy
  <1>9. s \in Ledger!Opened \cup Used
    <2>1. CASE row[s] = "live"
      <3>1. owner[s] \in User /\ s \in OwnedBy(owner[s])
        BY <1>3, <2>1 DEF LiveOwners, OwnedBy, Typed, TypeOK
      <3>2. QED  BY <3>1 DEF Ledger!Opened
    <2>2. CASE row[s] = "gone"
      BY <1>3, <2>2 DEF Used
    <2>3. QED  BY <1>3, <2>1, <2>2 DEF Typed, TypeOK
  <1>10. Ledger!Message(s)
    BY <1>1, <1>7, <1>8, <1>9, Zenon DEF Ledger!Message, Book, Used, Served
  <1>11. QED  BY <1>3, <1>10 DEF Ledger!Next

LEMMA StepIsOfLedger ==
  ASSUME Typed, Tickets, RoomLeft, LiveOwners, AdmissionsBounded', [Next]_vars
  PROVE  [Ledger!Next]_(Ledger!ledger)
  <1>1. ASSUME NEW r \in Req, InsertSession(r), user[r] \in users  PROVE Ledger!Next
    BY <1>1, InsertIsOpen
  <1>2. ASSUME NEW r \in Req, DropSession(r), Owns(user[r], sess[r])  PROVE Ledger!Next
    BY <1>2, DropIsClose
  <1>3. ASSUME NEW r \in Req, DropUser(r)  PROVE [Ledger!Next]_(Ledger!ledger)
    BY <1>3, DropUserIsClose
  <1>4. ASSUME NEW r \in Req, CheckThreshold(r), seen[r] < Threshold  PROVE Ledger!Next
    BY <1>4, GateIsMessage
  <1>5. ASSUME ~ \E r \in Req : CheckThreshold(r) /\ seen[r] < Threshold,
               UNCHANGED <<users, row, owner>>
        PROVE  UNCHANGED Ledger!ledger
    <2>1. Served' = Served
      BY <1>5, OnlyTheGateAdmits DEF Served
    <2>2. Book' = Book /\ Used' = Used /\ users' = users
      BY <1>5 DEF Book, Used, OwnedBy
    <2>3. QED  BY <2>1, <2>2, Zenon DEF Ledger!ledger, Book, Used, Served
  <1>6. QED  BY <1>1, <1>2, <1>3, <1>4, <1>5, StepsOfTheLedger

\* Seen from the rows and the answers, the requests with their several
\* transactions, failures and crashes keep the ledger of module SessionLedger,
\* whose every operation is one step.
THEOREM SessionsImplementLedger == Spec => ImplementsLedger
  <1>1. Init => Typed /\ LockHeld /\ RoomLeft /\ SessionQuota /\ Tickets /\ LiveOwners
    <2>1. Init => Tickets
      BY DEF Init, Tickets, Counted
    <2>2. Init => LiveOwners
      BY DEF Init, LiveOwners
    <2>3. QED  BY <2>1, <2>2, InitTyped, InitQuota
  <1>2. Typed /\ LockHeld /\ RoomLeft /\ SessionQuota /\ Tickets /\ LiveOwners /\ [Next]_vars
          => (Typed /\ LockHeld /\ RoomLeft /\ SessionQuota /\ Tickets /\ LiveOwners)'
    BY NextTyped, NextLockHeld, NextQuota, NextTickets, NextLiveOwners
  <1>3. Typed /\ Tickets => AdmissionsBounded
    BY TicketsBound DEF AdmissionsBounded
  <1>4. Init => Ledger!Init
    BY InitLedger
  <1>5. Typed /\ RoomLeft /\ Tickets /\ LiveOwners /\ AdmissionsBounded' /\ [Next]_vars
          => [Ledger!Next]_(Ledger!ledger)
    BY StepIsOfLedger
  <1>6. QED
    BY <1>1, <1>2, <1>3, <1>4, <1>5, PTL DEF Spec, ImplementsLedger, Ledger!Spec

=============================================================================
