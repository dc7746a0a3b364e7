--------------------------- MODULE AccountRegister ---------------------------
(***************************************************************************)
(* What the endpoints for signing up and closing an account promise: an    *)
(* email address has one account or none, an account is registered where   *)
(* there is none, and its id is never used again, so that the tokens of a  *)
(* closed account stay void when its address is registered anew.           *)
(*                                                                         *)
(* Module Accounts implements it.                                          *)
(***************************************************************************)
EXTENDS Naturals

CONSTANT Email

VARIABLES
  account,  \* of each address: the set of the ids registered for it
  last      \* the last id that was given out

register == <<account, last>>

Init ==
  /\ account = [e \in Email |-> {}]
  /\ last = 0

Register(e) ==
  /\ account[e] = {}
  /\ last' = last + 1
  /\ account' = [account EXCEPT ![e] = {last + 1}]

Close(e) ==
  /\ \E id \in 1..last : account[e] = {id}
  /\ account' = [account EXCEPT ![e] = {}]
  /\ UNCHANGED last

Next == \E e \in Email : Register(e) \/ Close(e)

Spec == Init /\ [][Next]_register
=============================================================================
