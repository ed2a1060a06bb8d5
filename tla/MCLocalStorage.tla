--------------------------- MODULE MCLocalStorage ---------------------------
(***************************************************************************)
(* Two sessions on one path, two states worth saving and one that a form   *)
(* has left untrimmed.                                                     *)
(***************************************************************************)
EXTENDS LocalStorage, TLC

CONSTANTS s1, s2, default, edited, untrimmed

Trim == [r \in {default, edited, untrimmed} |-> IF r = untrimmed THEN edited ELSE r]

BothSessions == Permutations(Sessions)

============================================================================
