--------------------------- MODULE StreamProtocol ---------------------------
(***************************************************************************)
(* What the body of POST /align promises to the page that reads it, one    *)
(* response after the other: a response says once of what type it is, text *)
(* comes only after that and only grows, and it is closed once, by `done`, *)
(* by `error` or by a connection that is gone.  Status events, which may   *)
(* come until the type is known, are steps that change nothing here.       *)
(*                                                                         *)
(* Module AlignStream implements it; the page of module AuditPage relies   *)
(* on it.                                                                  *)
(***************************************************************************)
EXTENDS SequencesExt

VARIABLES
  stage,     \* "idle", "waiting", "answering" or "closed"
  type,      \* response_type, once it was sent
  received,  \* the text sent so far
  outcome    \* how the response was closed

response == <<stage, type, received, outcome>>

ResponseTypes == {"chat", "report", "failure"}

Init ==
  /\ stage = "idle"
  /\ type = "none"
  /\ received = <<>>
  /\ outcome = "none"

Open ==
  /\ stage \in {"idle", "closed"}
  /\ stage' = "waiting"
  /\ type' = "none"
  /\ received' = <<>>
  /\ outcome' = "none"

\* The type, and with it the text of an answer that is known already.
Start ==
  /\ stage = "waiting"
  /\ stage' = "answering"
  /\ type' \in ResponseTypes
  /\ IsPrefix(received, received')
  /\ UNCHANGED outcome

Token ==
  /\ stage = "answering"
  /\ IsStrictPrefix(received, received')
  /\ UNCHANGED <<stage, type, outcome>>

Close ==
  /\ stage \in {"waiting", "answering"}
  /\ stage' = "closed"
  /\ outcome' \in {"done", "error", "gone"}
  /\ UNCHANGED <<type, received>>

Next == Open \/ Start \/ Token \/ Close

Spec == Init /\ [][Next]_response
=============================================================================
