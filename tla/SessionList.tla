----------------------------- MODULE SessionList -----------------------------
(***************************************************************************)
(* The sessions of one user as a tab of the browser sees them:             *)
(* context/SessionContext.jsx and what components/Layout/Sidebar.jsx lets  *)
(* the user do with it, over the rows the backend keeps.                   *)
(*                                                                         *)
(* A call to the backend is a step there and, later, a step here when its  *)
(* answer arrives; answers of different calls arrive in any order.  The    *)
(* list is fetched once, when the provider is mounted, which is where a    *)
(* behaviour begins.  localStorage always holds what `session` is.         *)
(***************************************************************************)
EXTENDS Naturals, FiniteSets, SequencesExt

CONSTANTS
  MaxSessions,  \* MAX_SESSIONS_PER_USER of the backend, MAX_SESSIONS of the page
  Earlier,      \* bound of the instance: how many ids were given out before
  MaxIds,       \* bound of the instance: ids of sessions
  MaxAudits     \* bound of the instance: audits submitted

ASSUME ListAssumption ==
  /\ MaxSessions \in Nat \ {0}
  /\ MaxIds \in Nat
  /\ Earlier \subseteq 0..MaxIds
  /\ MaxAudits \in Nat

Session == 1..MaxIds
NoSession == 0

\* Calls of createSession: by audit n, or by the sidebar (one at a time).
Sidebar == 0
Creation == 0..MaxAudits

VARIABLES
  rows,      \* of the user, at the backend
  last,      \* the last id given out
  sessions,  \* the list in the sidebar
  session,   \* sessionId, the active one
  listing,   \* fetchSessions: "asked", "answered", "done" or "failed"
  fetched,   \* the list in its answer
  sent,      \* creations on their way to the backend
  created,   \* of each creation: the session made, while its answer is on its way
  deleting,  \* of each session: "no", "sent" or "done"
  wasActive, \* of the deletions: those of a session active when it was asked for
  untold,    \* history: the list has missed a change of the rows
  stranded   \* history: the active session was picked while it was being deleted

rest == <<listing, fetched, sent, created, deleting, wasActive>>
list == <<rows, last, sessions, session, rest, untold, stranded>>

ListTypeOK ==
  /\ rows \subseteq 1..last
  /\ last \in 0..MaxIds
  /\ sessions \in Seq(1..last)
  /\ session \in 0..last
  /\ listing \in {"asked", "answered", "done", "failed"}
  /\ fetched \in Seq(1..last)
  /\ sent \subseteq Creation
  /\ created \in [Creation -> 0..last]
  /\ deleting \in [Session -> {"no", "sent", "done"}]
  /\ wasActive \subseteq Session
  /\ untold \in BOOLEAN
  /\ stranded \in BOOLEAN

\* The id in localStorage may be that of a session deleted since.
ListInit ==
  /\ last \in Earlier
  /\ rows \in {R \in SUBSET (1..last) : Cardinality(R) <= MaxSessions}
  /\ session \in 0..last
  /\ sessions = <<>>
  /\ listing = "asked"
  /\ fetched = <<>>
  /\ sent = {}
  /\ created = [c \in Creation |-> NoSession]
  /\ deleting = [s \in Session |-> "no"]
  /\ wasActive = {}
  /\ untold = FALSE
  /\ stranded = FALSE

Loaded == listing \in {"done", "failed"}
Shown == ToSet(sessions)
FirstOf(l) == IF l = <<>> THEN NoSession ELSE Head(l)
Unanswered == {created[c] : c \in Creation} \ {NoSession}
Creating(c) == c \in sent \/ created[c] # NoSession

-----------------------------------------------------------------------------
(* fetchSessions *)

\* The backend orders by last_active_at, which is left open.
ReadList ==
  /\ listing = "asked"
  /\ listing' = "answered"
  /\ fetched' \in SetToSeqs(rows)
  /\ UNCHANGED <<rows, last, sessions, session, sent, created, deleting, wasActive,
                 untold, stranded>>

\* Variant of ListArrives: the stored session stays active, listed or not.
ListArrivesKeepsSession ==
  /\ listing = "answered"
  /\ listing' = "done"
  /\ sessions' = fetched
  /\ fetched' = <<>>
  /\ session' = IF session # NoSession THEN session ELSE FirstOf(fetched)
  /\ untold' = (untold \/ ToSet(fetched) # rows \ Unanswered)
  /\ UNCHANGED <<rows, last, sent, created, deleting, wasActive, stranded>>

\* What was created since the list was read is dropped from it, and what was
\* created before and is still to be answered will be in it twice.
ListArrives ==
  /\ listing = "answered"
  /\ listing' = "done"
  /\ sessions' = fetched
  /\ fetched' = <<>>
  /\ session' = IF session \in ToSet(fetched) THEN session ELSE FirstOf(fetched)
  /\ untold' = (untold \/ ToSet(fetched) # rows \ Unanswered)
  /\ UNCHANGED <<rows, last, sent, created, deleting, wasActive, stranded>>

ListFails ==
  /\ ~ Loaded
  /\ listing' = "failed"
  /\ fetched' = <<>>
  /\ untold' = TRUE
  /\ UNCHANGED <<rows, last, sessions, session, sent, created, deleting, wasActive, stranded>>

-----------------------------------------------------------------------------
(* createSession *)

AskForSession(c) ==
  /\ sent' = sent \cup {c}
  /\ UNCHANGED <<rows, last, sessions, session, listing, fetched, created, deleting,
                 wasActive, untold, stranded>>

\* The button under "No sessions yet".
PressCreate == Loaded /\ sessions = <<>> /\ ~ Creating(Sidebar) /\ AskForSession(Sidebar)

InsertRow(c) ==
  /\ c \in sent
  /\ Cardinality(rows) < MaxSessions
  /\ last < MaxIds
  /\ last' = last + 1
  /\ rows' = rows \cup {last'}
  /\ created' = [created EXCEPT ![c] = last']
  /\ sent' = sent \ {c}
  /\ UNCHANGED <<sessions, session, listing, fetched, deleting, wasActive, untold, stranded>>

CreationArrives(c) ==
  /\ created[c] # NoSession
  /\ sessions' = <<created[c]>> \o sessions
  /\ session' = created[c]
  /\ created' = [created EXCEPT ![c] = NoSession]
  /\ stranded' = FALSE
  /\ UNCHANGED <<rows, last, listing, fetched, sent, deleting, wasActive, untold>>

\* 409: the user is at the limit.
CreationRefused(c) ==
  /\ c \in sent
  /\ Cardinality(rows) >= MaxSessions
  /\ sent' = sent \ {c}
  /\ UNCHANGED <<rows, last, sessions, session, listing, fetched, created, deleting,
                 wasActive, untold, stranded>>

\* Any other answer, or none; a row may have been made all the same.
CreationFails(c) ==
  /\ Creating(c)
  /\ sent' = sent \ {c}
  /\ created' = [created EXCEPT ![c] = NoSession]
  /\ untold' = (untold \/ created[c] # NoSession)
  /\ UNCHANGED <<rows, last, sessions, session, listing, fetched, deleting, wasActive, stranded>>

-----------------------------------------------------------------------------
(* clearSession, setActiveSession, deleteSession *)

Activate(s) ==
  /\ s # session
  /\ session' = s
  /\ stranded' = FALSE
  /\ UNCHANGED <<rows, last, sessions, rest, untold>>

NewSession == Loaded /\ Activate(NoSession)
PickSession == Loaded /\ \E s \in Shown : Activate(s)

\* The callback is that of the render the user clicks in (bound of the instance:
\* one deletion at a time).
AskDeletion(s) ==
  /\ Loaded
  /\ s \in Shown
  /\ \A t \in Session : deleting[t] = "no"
  /\ deleting' = [deleting EXCEPT ![s] = "sent"]
  /\ wasActive' = wasActive \cup ({s} \cap {session})
  /\ UNCHANGED <<rows, last, sessions, session, listing, fetched, sent, created,
                 untold, stranded>>

DeleteRow(s) ==
  /\ deleting[s] = "sent"
  /\ s \in rows
  /\ rows' = rows \ {s}
  /\ deleting' = [deleting EXCEPT ![s] = "done"]
  /\ UNCHANGED <<last, sessions, session, listing, fetched, sent, created, wasActive,
                 untold, stranded>>

\* sessionsRef.current.filter(...): the sessions of l but s, in their order.
Without(s, l) ==
  LET kept[i \in 0..Len(l)] == IF i = 0 THEN <<>>
                               ELSE IF l[i] = s THEN kept[i - 1]
                               ELSE Append(kept[i - 1], l[i])
  IN  kept[Len(l)]

\* Variant of DeletionArrives: the list is rewritten with the active session only.
DeletionArrivesIfActive(s) ==
  /\ deleting[s] = "done"
  /\ LET remaining == IF s \in wasActive THEN Without(s, sessions) ELSE sessions
     IN  /\ sessions' = remaining
         /\ session' = IF s \in wasActive THEN FirstOf(remaining) ELSE session
  /\ stranded' = (session' = s \/ (stranded /\ session' = session))
  /\ deleting' = [deleting EXCEPT ![s] = "no"]
  /\ wasActive' = wasActive \ {s}
  /\ UNCHANGED <<rows, last, listing, fetched, sent, created, untold>>

\* sessionsRef is the list of now, sessionId the one of the click: a session the
\* user moves to in between is left, or one that is gone stays active.
DeletionArrives(s) ==
  /\ deleting[s] = "done"
  /\ LET remaining == Without(s, sessions)
     IN  /\ sessions' = remaining
         /\ session' = IF s \in wasActive THEN FirstOf(remaining) ELSE session
  /\ stranded' = (session' = s \/ (stranded /\ session' = session))
  /\ deleting' = [deleting EXCEPT ![s] = "no"]
  /\ wasActive' = wasActive \ {s}
  /\ UNCHANGED <<rows, last, listing, fetched, sent, created, untold>>

\* Refused, or the answer is lost.
DeletionFails(s) ==
  /\ deleting[s] # "no"
  /\ deleting' = [deleting EXCEPT ![s] = "no"]
  /\ wasActive' = wasActive \ {s}
  /\ untold' = (untold \/ deleting[s] = "done")
  /\ UNCHANGED <<rows, last, sessions, session, listing, fetched, sent, created, stranded>>

\* Every step but those of the audits' own creations.
ListStep ==
  \/ ReadList
  \/ ListArrives
  \/ ListFails
  \/ PressCreate
  \/ \E c \in Creation : InsertRow(c)
  \/ CreationArrives(Sidebar)
  \/ CreationRefused(Sidebar)
  \/ CreationFails(Sidebar)
  \/ NewSession
  \/ PickSession
  \/ \E s \in Session : \/ AskDeletion(s)
                        \/ DeleteRow(s)
                        \/ DeletionArrives(s)
                        \/ DeletionFails(s)

-----------------------------------------------------------------------------
(* Properties *)

\* When nothing is under way the sidebar lists exactly the sessions there are,
\* each once, in whatever order creations and deletions were answered: unless
\* the one fetch of the list failed or was overtaken by a creation, or the
\* answer to a change was lost.
ListAccountedFor ==
  /\ Loaded /\ ~ untold
  /\ \A c \in Creation : ~ Creating(c)
  /\ \A s \in Session : deleting[s] = "no"
  => Shown = rows /\ Len(sessions) = Cardinality(rows)

\* The active session can be seen in the sidebar, whatever was stored in the
\* browser and whatever was deleted: unless the list was never fetched, or the
\* session was picked while its own deletion was under way.
ActiveSessionListed ==
  listing = "done" /\ session # NoSession /\ ~ stranded => session \in Shown

=============================================================================
