--------------------------- MODULE MCWebSessions ---------------------------
(***************************************************************************)
(* Two tabs of one browser (browsers share nothing but the store), on the  *)
(* two days around the eighteenth birthday of someone born on February 29. *)
(***************************************************************************)
EXTENDS WebSessions, TLC

CONSTANTS browser, t1, t2, p1

TabOwner == (t1 :> browser) @@ (t2 :> browser)

AroundTheBirthday == <<<<2026, 2, 27>>, <<2026, 2, 28>>>>

BornIn2000And2008 == {<<2000, 1, 1>>, <<2008, 2, 29>>}

Bot == p1 :> TRUE

=============================================================================
