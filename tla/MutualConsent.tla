--------------------------- MODULE MutualConsent ---------------------------
(***************************************************************************)
(* What the rendezvous promises about matches, with no store, no request   *)
(* and no direction of a block in it: a pair of people is interested in    *)
(* part, in full or barred, and someone is told of a match only at the     *)
(* moment that the interest of the pair is mutual and nothing bars it.     *)
(***************************************************************************)
CONSTANT People

Pairs == {pair \in SUBSET People : \E p, q \in People : p # q /\ pair = {p, q}}

VARIABLES
    interest,   \* pair -> those of the pair who are interested in the other
    barred,     \* the pairs that one side has ended
    told        \* <<person, pair>>: person has been told that pair is a match

consentVars == <<interest, barred, told>>

Init ==
    /\ interest = [pair \in Pairs |-> {}]
    /\ barred = {}
    /\ told = {}

\* p declares interest, for the first time or again, and is told when it is mutual.
Express(p, pair) ==
    /\ p \in pair
    /\ pair \notin barred
    /\ interest' = [interest EXCEPT ![pair] = @ \cup {p}]
    /\ told' = IF interest'[pair] = pair THEN told \cup {<<p, pair>>} ELSE told
    /\ UNCHANGED barred

\* Either side bars the pair: for good, and with it what was declared.
Bar(pair) ==
    /\ barred' = barred \cup {pair}
    /\ interest' = [interest EXCEPT ![pair] = {}]
    /\ UNCHANGED told

Next == \E pair \in Pairs : Bar(pair) \/ \E p \in People : Express(p, pair)

Spec == Init /\ [][Next]_consentVars

============================================================================
