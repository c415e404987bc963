----------------------------- MODULE MCBacklite -----------------------------
(***************************************************************************)
(* The server on small instances.  The configurations differ in the number *)
(* of requests at once and in the failures and the crashes they allow.     *)
(***************************************************************************)
EXTENDS Backlite, TLC

\* Requests that are in progress at once are interchangeable.
ClientSymmetry == Permutations(Client)
=============================================================================
