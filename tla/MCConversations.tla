-------------------------- MODULE MCConversations --------------------------
(***************************************************************************)
(* Three candidates and a few messages for TLC.                            *)
(***************************************************************************)
EXTENDS Conversations, TLC

CONSTANTS c1, c2, c3

\* Candidates are interchangeable: no transition compares their ids.
Interchangeable == Permutations(Candidates)

============================================================================
