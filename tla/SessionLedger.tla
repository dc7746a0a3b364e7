---------------------------- MODULE SessionLedger ----------------------------
(***************************************************************************)
(* What the session API promises its callers, with every operation one     *)
(* step: an account opens at most MaxSessions sessions at a time, a        *)
(* session serves at most Threshold - 1 messages in its life, and a closed *)
(* session or account never comes back.  Module Sessions implements it     *)
(* with requests that take several transactions each.                      *)
(***************************************************************************)
EXTENDS Naturals, FiniteSets

CONSTANTS User, Session, MaxSessions, Threshold

VARIABLES
  accounts,   \* the accounts that exist
  sessions,   \* the open sessions of each user
  closed,     \* session ids that were used up
  served      \* messages let through on each session

ledger == <<accounts, sessions, closed, served>>

Opened == UNION {sessions[u] : u \in User}

Init ==
  /\ accounts = User
  /\ sessions \in [User -> SUBSET Session]
  /\ \A u, v \in User : u # v => sessions[u] \cap sessions[v] = {}
  /\ \A u \in User : Cardinality(sessions[u]) <= MaxSessions
  /\ closed = {}
  /\ served = [s \in Session |-> 0]

Open(u, s) ==
  /\ u \in accounts
  /\ s \notin Opened \cup closed
  /\ Cardinality(sessions[u]) < MaxSessions
  /\ sessions' = [sessions EXCEPT ![u] = @ \cup {s}]
  /\ UNCHANGED <<accounts, closed, served>>

Close(u, s) ==
  /\ s \in sessions[u]
  /\ sessions' = [sessions EXCEPT ![u] = @ \ {s}]
  /\ closed' = closed \cup {s}
  /\ UNCHANGED <<accounts, served>>

CloseAccount(u) ==
  /\ u \in accounts
  /\ accounts' = accounts \ {u}
  /\ sessions' = [sessions EXCEPT ![u] = {}]
  /\ closed' = closed \cup sessions[u]
  /\ UNCHANGED served

\* A message let through may find its session closed in the meantime.
Message(s) ==
  /\ s \in Opened \cup closed
  /\ served[s] + 1 < Threshold
  /\ served' = [served EXCEPT ![s] = @ + 1]
  /\ UNCHANGED <<accounts, sessions, closed>>

Next ==
  \/ \E u \in User : CloseAccount(u)
  \/ \E u \in User, s \in Session : Open(u, s) \/ Close(u, s)
  \/ \E s \in Session : Message(s)

Spec == Init /\ [][Next]_ledger

=============================================================================
