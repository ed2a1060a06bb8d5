---------------------------- MODULE MCRendezvous ----------------------------
(***************************************************************************)
(* Profiles for TLC: three with credentials that are good for a part of    *)
(* the few instants there are, one of them revoked, and perhaps others who *)
(* only look.                                                              *)
(***************************************************************************)
EXTENDS Rendezvous, TLC

Credential(subject, issued, expires, revoked) ==
    [subject |-> subject, issued |-> issued, expires |-> expires, revoked |-> revoked]

NoCredentials == {}

\* One pair, somebody who likes and blocks themselves, and a third party's block.
SomeLikes == {<<1, 2>>, <<2, 1>>, <<1, 1>>}

SomeBlocks == {<<1, 2>>, <<3, 1>>, <<1, 1>>}

SomeLimits == {-1, 0, 1, 20}

SomeCredentials ==
    {Credential(1, 0, 2, FALSE), Credential(2, 1, 3, FALSE), Credential(3, 0, 3, TRUE),
     Credential(3, 2, 4, FALSE)}

============================================================================
