------------------------------ MODULE MCTokens ------------------------------
(***************************************************************************)
(* Requests with every token of one or two sessions, for TLC.  The user    *)
(* ids are numbers, as the subject and the jti share a type in the code.   *)
(***************************************************************************)
EXTENDS Tokens, TLC

Symmetric == Permutations(Requests)
=============================================================================
