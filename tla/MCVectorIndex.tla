---------------------------- MODULE MCVectorIndex ----------------------------
(***************************************************************************)
(* Instances of VectorIndex for TLC.                                       *)
(***************************************************************************)
EXTENDS VectorIndex

CONSTANTS a1, a2, r1

\* Two chunks of one article, one of another, and a recital.
ArticlesAndRecital == <<a1, a1, a2, r1>>
=============================================================================
