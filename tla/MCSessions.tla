----------------------------- MODULE MCSessions -----------------------------
(***************************************************************************)
(* Instances of Sessions for TLC.                                          *)
(***************************************************************************)
EXTENDS Sessions, TLC

CONSTANTS k1

\* Every user hashes to the same lock key: the worst case for progress.
SharedKey == [u \in User |-> k1]

\* Every user has a lock key of their own.
OwnKey == [u \in User |-> u]

Symmetry == Permutations(Req) \cup Permutations(Session)
=============================================================================
