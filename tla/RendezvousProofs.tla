-------------------------- MODULE RendezvousProofs --------------------------
(***************************************************************************)
(* Proofs about Rendezvous, for any number of profiles, credentials and    *)
(* repeated requests.                                                      *)
(***************************************************************************)
EXTENDS Rendezvous, FiniteSetTheorems, TLAPS

----------------------------------------------------------------------------
(* The invariant                                                           *)

Opposite(d) == <<d[2], d[1]>>

\* Only the ordered pairs, not the whole of BlockedAreApart, carry over from step to step.
BlocksClearLikes == \A d \in blocks : d \notin likes /\ Opposite(d) \notin likes

\* What is true whether the process restarts or not.
IInv ==
    /\ TypeOK
    /\ likes \subseteq likeRequests
    /\ BlocksClearLikes
    /\ LeasesAreEntitled
    /\ ReceiptsHaveConsent

USE InputAssumption

LEMMA InitIInv == Init => IInv
BY DEF Init, IInv, TypeOK, BlocksClearLikes, LeasesAreEntitled, ReceiptsHaveConsent

LEMMA PublishIInv ==
    ASSUME IInv, NEW p \in Profiles, NEW lease \in PresenceLease, NEW cred \in Credentials,
           PublishPresence(p, lease, cred)
    PROVE  IInv'
<1> USE DEF PublishPresence
<1>1. TypeOK'
    BY DEF IInv, TypeOK
<1>2. LeasesAreEntitled'
    BY DEF IInv, LeasesAreEntitled, AdultCredentialIsValid
<1>3. QED
    BY <1>1, <1>2 DEF IInv, BlocksClearLikes, ReceiptsHaveConsent, Opposite

LEMMA WithoutIInv ==
    ASSUME IInv, NEW gone, presence' = Without(gone),
           UNCHANGED <<likes, blocks, likeRequests, receipts>>
    PROVE  IInv'
<1>1. TypeOK'
    BY DEF IInv, TypeOK, Without
<1>2. LeasesAreEntitled'
    BY DEF IInv, LeasesAreEntitled, Without
<1>3. QED
    BY <1>1, <1>2 DEF IInv, BlocksClearLikes, ReceiptsHaveConsent, Opposite

LEMMA SendLikeIInv ==
    ASSUME IInv, NEW d \in LikeInputs, SendLike(d[1], d[2])
    PROVE  IInv'
<1> USE DEF SendLike, storeVars
<1>1. d = <<d[1], d[2]>>
    OBVIOUS
<1>2. TypeOK'
    BY <1>1 DEF IInv, TypeOK
<1>3. LeasesAreEntitled'
    BY DEF IInv, LeasesAreEntitled
<1>4. QED
    BY <1>2, <1>3 DEF IInv, BlocksClearLikes, ReceiptsHaveConsent, Opposite

LEMMA RecordLikeIInv ==
    ASSUME IInv, NEW d \in LikeInputs, RecordLike(d[1], d[2])
    PROVE  IInv'
<1> USE DEF RecordLike, MayLike, LikesWith
<1>1. d = <<d[1], d[2]>> /\ d \in Directed
    BY DEF Directed
<1>2. TypeOK'
    BY <1>1 DEF IInv, TypeOK
<1>3. LeasesAreEntitled'
    BY DEF IInv, LeasesAreEntitled
<1>4. likes' \subseteq likeRequests'
    BY <1>1 DEF IInv
<1>5. BlocksClearLikes'
    <2> SUFFICES ASSUME NEW e \in blocks
                 PROVE  e \notin likes' /\ Opposite(e) \notin likes'
        BY DEF BlocksClearLikes, Opposite
    <2>1. e \notin likes /\ Opposite(e) \notin likes
        BY DEF IInv, BlocksClearLikes
    <2>2. e = <<e[1], e[2]>>
        BY DEF IInv, TypeOK, Directed
    <2>3. likes' = likes \cup {<<d[1], d[2]>>}
        OBVIOUS
    <2>4. <<d[1], d[2]>> \notin blocks /\ <<d[2], d[1]>> \notin blocks
        BY DEF IsBlocked
    <2>5. e # <<d[1], d[2]>> /\ Opposite(e) # <<d[1], d[2]>>
        BY <2>2, <2>4 DEF Opposite
    <2>6. QED
        BY <2>1, <2>3, <2>5
<1>6. ReceiptsHaveConsent'
    BY <1>1, <1>4 DEF IInv, ReceiptsHaveConsent, Reciprocated
<1>7. QED
    BY <1>2, <1>3, <1>4, <1>5, <1>6 DEF IInv

LEMMA BlockIInv ==
    ASSUME IInv, NEW d \in BlockInputs, Block(d[1], d[2])
    PROVE  IInv'
<1> USE DEF Block, LikesAfterBlock
<1>1. d = <<d[1], d[2]>> /\ d \in Directed
    BY DEF Directed
<1>2. TypeOK'
    BY <1>1 DEF IInv, TypeOK
<1>3. LeasesAreEntitled'
    BY DEF IInv, LeasesAreEntitled
<1>4. BlocksClearLikes'
    BY <1>1 DEF IInv, BlocksClearLikes, Opposite
<1>5. QED
    BY <1>2, <1>3, <1>4 DEF IInv, ReceiptsHaveConsent

LEMMA RestartIInv == IInv /\ Restart => IInv'
BY DEF IInv, Restart, TypeOK, BlocksClearLikes, LeasesAreEntitled, ReceiptsHaveConsent

LEMMA NextIInv == IInv /\ [Next \/ Restart]_rendezvousVars => IInv'
<1> SUFFICES ASSUME IInv, [Next \/ Restart]_rendezvousVars
             PROVE  IInv'
    OBVIOUS
<1>1. ASSUME NEW p \in Profiles, NEW lease \in PresenceLease, NEW cred \in Credentials,
             PublishPresence(p, lease, cred)
      PROVE  IInv'
    BY <1>1, PublishIInv
<1>2. ASSUME NEW p \in Profiles, WithdrawPresence(p)
      PROVE  IInv'
    BY <1>2, WithoutIInv DEF WithdrawPresence
<1>3. ASSUME NEW now \in Times, Discover(now)
      PROVE  IInv'
    BY <1>3, WithoutIInv DEF Discover
<1>4. ASSUME NEW d \in LikeInputs, SendLike(d[1], d[2])
      PROVE  IInv'
    BY <1>4, SendLikeIInv
<1>5. ASSUME NEW d \in LikeInputs, RecordLike(d[1], d[2])
      PROVE  IInv'
    BY <1>5, RecordLikeIInv
<1>6. ASSUME NEW d \in BlockInputs, Block(d[1], d[2])
      PROVE  IInv'
    BY <1>6, BlockIInv
<1>7. CASE Restart
    BY <1>7, RestartIInv
<1>8. CASE UNCHANGED rendezvousVars
    BY <1>8 DEF rendezvousVars, IInv, TypeOK, BlocksClearLikes, LeasesAreEntitled,
                ReceiptsHaveConsent, Opposite
<1>9. QED
    BY <1>1, <1>2, <1>3, <1>4, <1>5, <1>6, <1>7, <1>8 DEF Next

\* The invariant holds of a process that restarts, and so of one that does not.
THEOREM Invariant == SpecWithRestarts => []IInv
<1>1. Init => IInv
    BY InitIInv
<1>2. IInv /\ [Next \/ Restart]_rendezvousVars => IInv'
    BY NextIInv
<1>3. QED
    BY <1>1, <1>2, PTL DEF SpecWithRestarts

----------------------------------------------------------------------------
(* The properties that hold across restarts                                *)

\* Every field of the store and of the clients' side is well formed (see TypeOK).
THEOREM TypeCorrect == SpecWithRestarts => []TypeOK
BY Invariant, PTL DEF IInv

\* A receipt was asked for by both of the people it is about.
THEOREM NoUnilateralMatch == SpecWithRestarts => []ReceiptsHaveConsent
BY Invariant, PTL DEF IInv

\* Whoever has presence has shown a credential of their own.
THEOREM PresenceEntitled == SpecWithRestarts => []LeasesAreEntitled
BY Invariant, PTL DEF IInv

\* Blocked people neither keep a like nor find each other.
THEOREM BlockedApart == SpecWithRestarts => []BlockedAreApart
<1>1. IInv => BlockedAreApart
    <2> SUFFICES ASSUME IInv, NEW d \in blocks
                 PROVE  /\ d \notin likes /\ <<d[2], d[1]>> \notin likes
                        /\ \A region \in Regions, now \in Times :
                               /\ d[1] \notin Listed(region, d[2], now)
                               /\ d[2] \notin Listed(region, d[1], now)
        BY DEF BlockedAreApart
    <2>1. d = <<d[1], d[2]>>
        BY DEF IInv, TypeOK, Directed
    <2>2. IsBlocked(d[1], d[2]) /\ IsBlocked(d[2], d[1])
        BY <2>1 DEF IsBlocked
    <2>3. QED
        BY <2>2 DEF IInv, BlocksClearLikes, Opposite, Listed
<1>2. QED
    BY <1>1, Invariant, PTL

----------------------------------------------------------------------------
(* Pages                                                                   *)

\* Presence is published one profile at a time: what a page is cut from is finite, however
\* many profiles there are.
LEMMA PresenceIsFinite == SpecWithRestarts => []IsFiniteSet(DOMAIN presence)
<1> DEFINE Finite == IsFiniteSet(DOMAIN presence)
<1>1. Init => Finite
    BY FS_EmptySet DEF Init
<1>2. Finite /\ [Next \/ Restart]_rendezvousVars => Finite'
    <2> SUFFICES ASSUME Finite, [Next \/ Restart]_rendezvousVars
                 PROVE  Finite'
        OBVIOUS
    <2>1. ASSUME UNCHANGED presence
          PROVE  Finite'
        BY <2>1
    <2>2. ASSUME NEW p, DOMAIN presence' = DOMAIN presence \cup {p}
          PROVE  Finite'
        BY <2>2, FS_AddElement
    <2>3. ASSUME NEW gone, presence' = Without(gone)
          PROVE  Finite'
        <3>1. DOMAIN presence' \subseteq DOMAIN presence
            BY <2>3 DEF Without
        <3>2. QED
            BY <3>1, FS_Subset
    <2>4. ASSUME Restart
          PROVE  Finite'
        BY <2>4, FS_EmptySet DEF Restart
    <2> HIDE DEF Finite
    <2>5. ASSUME NEW p \in Profiles, NEW lease \in PresenceLease, NEW cred \in Credentials,
                 PublishPresence(p, lease, cred)
          PROVE  Finite'
        BY <2>2, <2>5 DEF PublishPresence
    <2>6. ASSUME NEW p \in Profiles, WithdrawPresence(p)
          PROVE  Finite'
        BY <2>3, <2>6 DEF WithdrawPresence
    <2>7. ASSUME NEW now \in Times, Discover(now)
          PROVE  Finite'
        BY <2>3, <2>7 DEF Discover
    <2>8. ASSUME NEW d, \/ SendLike(d[1], d[2]) \/ RecordLike(d[1], d[2]) \/ Block(d[1], d[2])
          PROVE  Finite'
        BY <2>1, <2>8 DEF SendLike, RecordLike, Block, storeVars
    <2>9. CASE UNCHANGED rendezvousVars
        BY <2>1, <2>9 DEF rendezvousVars
    <2>10. QED
        BY <2>4, <2>5, <2>6, <2>7, <2>8, <2>9 DEF Next
<1>3. QED
    BY <1>1, <1>2, PTL DEF SpecWithRestarts

\* How many come before p in a set of profiles
Rank(values, p) == Cardinality({q \in values : q < p})

LEMMA RankOrders ==
    ASSUME NEW values \in SUBSET Nat, IsFiniteSet(values)
    PROVE  \A p, q \in values : /\ Rank(values, p) \in Nat
                                /\ p < q <=> Rank(values, p) < Rank(values, q)
<1> DEFINE Before(p) == {q \in values : q < p}
<1>1. ASSUME NEW p \in values
      PROVE  IsFiniteSet(Before(p)) /\ Cardinality(Before(p)) \in Nat
    <2>1. Before(p) \in SUBSET values
        OBVIOUS
    <2> HIDE DEF Before
    <2>2. QED
        BY <2>1, FS_Subset, FS_CardinalityType
<1>2. ASSUME NEW p \in values, NEW q \in values, p < q
      PROVE  Cardinality(Before(p)) < Cardinality(Before(q))
    <2>1. Before(p) \in SUBSET Before(q) /\ p \in Before(q) /\ p \notin Before(p)
        <3>1. p \in Nat /\ q \in Nat /\ values \subseteq Nat
            OBVIOUS
        <3>2. \A x \in values : x < p => x < q
            BY <1>2, <3>1
        <3>3. ~(p < p)
            BY <3>1
        <3>4. QED
            BY <1>2, <3>2, <3>3
    <2>2. Before(p) # Before(q)
        BY <2>1
    <2> HIDE DEF Before
    <2>3. QED
        BY <1>1, <2>1, <2>2, FS_Subset
<1>3. \A p \in values : Rank(values, p) = Cardinality(Before(p))
    BY DEF Rank
<1> HIDE DEF Before
<1>4. \A p, q \in values : p < q \/ q < p \/ p = q
    OBVIOUS
<1>5. QED
    BY <1>1, <1>2, <1>3, <1>4

\* A page has no more profiles than places: no two have the same number before them.
LEMMA PageSize ==
    ASSUME NEW values \in SUBSET Nat, IsFiniteSet(values), NEW n \in Nat
    PROVE  Cardinality({p \in values : Rank(values, p) < n}) <= n
<1> DEFINE page == {p \in values : Rank(values, p) < n}
           place == [p \in page |-> Rank(values, p)]
<1>1. place \in [page -> 0 .. n - 1]
    <2>1. \A p \in values : Rank(values, p) \in Nat
        BY RankOrders
    <2>2. \A p \in page : Rank(values, p) \in 0 .. n - 1
        BY <2>1
    <2>3. QED
        BY <2>2
<1>2. ASSUME NEW p \in page, NEW q \in page, place[p] = place[q]
      PROVE  p = q
    BY <1>2, RankOrders
<1>3. IsFiniteSet(0 .. n - 1) /\ Cardinality(0 .. n - 1) = n
    BY FS_Interval
<1> HIDE DEF place, page
<1>4. place \in Injection(page, 0 .. n - 1)
    BY <1>1, <1>2 DEF Injection, IsInjective
<1>5. Cardinality(page) <= n
    BY <1>3, <1>4, FS_Injection
<1>6. QED
    BY <1>5 DEF page

\* Shorter pages begin longer ones, over the page limit there is nobody, and leases that have
\* run out are on none, across restarts and for any number of profiles.
THEOREM NestedPages == SpecWithRestarts => []PagesAreNested
<1>1. IInv /\ IsFiniteSet(DOMAIN presence) => PagesAreNested
    <2> SUFFICES ASSUME IInv, IsFiniteSet(DOMAIN presence),
                        NEW region \in Regions, NEW requester \in Profiles, NEW now \in Times,
                        NEW low \in Limits, NEW high \in Limits
                 PROVE  LET page == DiscoveryPage(region, requester, now, low)
                            more == DiscoveryPage(region, requester, now, high)
                        IN  /\ low <= high => page \subseteq more
                            /\ \A p \in page, q \in more \ page : p < q
                            /\ \A p \in page : now < presence[p].expires
                            /\ Cardinality(page) <= PageLimit
        BY DEF PagesAreNested
    <2> DEFINE values == Listed(region, requester, now)
               size == Cardinality(values)
               first == BoundedLimit(low, size)
               second == BoundedLimit(high, size)
               page == DiscoveryPage(region, requester, now, low)
               more == DiscoveryPage(region, requester, now, high)
    <2>1. /\ first \in Nat /\ second \in Nat /\ first <= PageLimit
          /\ low <= high => first <= second
        BY BoundAssumption DEF BoundedLimit
    <2>2. values \subseteq DOMAIN presence \ Expired(now)
        BY DEF Listed
    <2>3. values \in SUBSET Nat /\ IsFiniteSet(values)
        <3>1. values \in SUBSET DOMAIN presence /\ DOMAIN presence \subseteq Nat
            BY <2>2, ProfileAssumption DEF IInv, TypeOK
        <3> HIDE DEF values
        <3>2. QED
            BY <3>1, FS_Subset
    <2>4. /\ page = {p \in values : Rank(values, p) < first}
          /\ more = {p \in values : Rank(values, p) < second}
        BY DEF DiscoveryPage, Rank
    <2>5. \A p \in values : now < presence[p].expires
        BY <2>2 DEF Expired, IInv, TypeOK, PresenceLease, Times
    <2> HIDE DEF values, size, first, second, page, more
    <2>6. \A p, q \in values : /\ Rank(values, p) \in Nat
                               /\ p < q <=> Rank(values, p) < Rank(values, q)
        BY <2>3, RankOrders
    <2>7. low <= high => page \subseteq more
        BY <2>1, <2>4, <2>6
    <2>8. \A p \in page, q \in more \ page : p < q
        BY <2>1, <2>4, <2>6
    <2>9. Cardinality(page) <= PageLimit
        <3>1. Cardinality(page) <= first
            BY <2>1, <2>3, <2>4, PageSize
        <3>2. IsFiniteSet(page)
            BY <2>3, <2>4, FS_Subset
        <3>3. Cardinality(page) \in Nat
            BY <3>2, FS_CardinalityType
        <3>4. QED
            BY <2>1, <3>1, <3>3, BoundAssumption
    <2>10. QED
        BY <2>4, <2>5, <2>7, <2>8, <2>9 DEF page, more
<1>2. QED
    BY <1>1, Invariant, PresenceIsFinite, PTL

----------------------------------------------------------------------------
(* The properties of a process that does not restart                       *)

LEMMA WithoutRestart == Spec => []IInv
<1>1. Init => IInv
    BY InitIInv
<1>2. IInv /\ [Next]_rendezvousVars => IInv'
    BY NextIInv
<1>3. QED
    BY <1>1, <1>2, PTL DEF Spec

\* An issued receipt can be fetched again by either side until a block.
THEOREM MatchLearnable == Spec => []MatchCanBeLearned
<1>1. Init => MatchCanBeLearned
    BY DEF Init, MatchCanBeLearned
<1>2. IInv /\ MatchCanBeLearned /\ [Next]_rendezvousVars => MatchCanBeLearned'
    <2> SUFFICES ASSUME IInv, MatchCanBeLearned, [Next]_rendezvousVars
                 PROVE  MatchCanBeLearned'
        OBVIOUS
    <2>1. ASSUME UNCHANGED <<likes, blocks, receipts>>
          PROVE  MatchCanBeLearned'
        BY <2>1 DEF MatchCanBeLearned, IsBlocked
    <2>2. ASSUME NEW d \in LikeInputs, RecordLike(d[1], d[2])
          PROVE  MatchCanBeLearned'
        <3> SUFFICES ASSUME NEW e \in receipts', ~IsBlocked(e[1], e[2])'
                     PROVE  e \in likes' /\ <<e[2], e[1]>> \in likes'
            BY DEF MatchCanBeLearned
        <3>1. ~IsBlocked(e[1], e[2])
            BY <2>2 DEF RecordLike, IsBlocked
        <3>2. CASE e \in receipts
            BY <2>2, <3>1, <3>2 DEF RecordLike, LikesWith, MatchCanBeLearned
        <3>3. CASE e \notin receipts
            BY <2>2, <3>3 DEF RecordLike, LikesWith, Reciprocated
        <3>4. QED
            BY <3>2, <3>3
    <2>3. ASSUME NEW d \in BlockInputs, Block(d[1], d[2])
          PROVE  MatchCanBeLearned'
        <3> SUFFICES ASSUME NEW e \in receipts', ~IsBlocked(e[1], e[2])'
                     PROVE  e \in likes' /\ <<e[2], e[1]>> \in likes'
            BY DEF MatchCanBeLearned
        <3>1. e \in receipts /\ ~IsBlocked(e[1], e[2])
            BY <2>3 DEF Block, IsBlocked
        <3>2. e = <<e[1], e[2]>>
            BY <3>1 DEF IInv, TypeOK, Directed
        <3>3. e # <<d[1], d[2]>> /\ e # <<d[2], d[1]>>
            BY <2>3, <3>2 DEF Block, IsBlocked
        <3>4. QED
            BY <2>3, <3>1, <3>2, <3>3 DEF Block, LikesAfterBlock, MatchCanBeLearned
    <2>4. QED
        BY <2>1, <2>2, <2>3 DEF Next, PublishPresence, WithdrawPresence, Discover, SendLike,
                               storeVars, rendezvousVars
<1>3. QED
    BY <1>1, <1>2, WithoutRestart, PTL DEF Spec

----------------------------------------------------------------------------
(* The store implements MutualConsent                                      *)

LEMMA PairsAgree == Consent!Pairs = ProfilePairs
BY DEF Consent!Pairs, ProfilePairs

\* A pair is determined by any two different members of it.
LEMMA PairOf ==
    ASSUME NEW pair \in ProfilePairs, NEW p \in pair, NEW q \in pair, p # q
    PROVE  pair = {p, q}
BY DEF ProfilePairs

LEMMA InitRefines == Init => Consent!Init
BY PairsAgree DEF Init, Consent!Init, PairInterest, PairsBarred, PairsTold

LEMMA RecordLikeRefines ==
    ASSUME IInv, NEW d \in LikeInputs, RecordLike(d[1], d[2])
    PROVE  Consent!Next
<1> DEFINE s == d[1]
           r == d[2]
           pair == {s, r}
<1>1. s \in Profiles /\ r \in Profiles /\ s # r /\ pair \in ProfilePairs
    BY DEF RecordLike, MayLike, ProfilePairs
<1>2. likes' = likes \cup {<<s, r>>}
    BY DEF RecordLike, LikesWith
<1>3. pair \notin PairsBarred
    <2> SUFFICES ASSUME NEW e \in blocks, {e[1], e[2]} = pair
                 PROVE  FALSE
        BY DEF PairsBarred
    <2>1. e = <<s, r>> \/ e = <<r, s>>
        BY DEF IInv, TypeOK, Directed
    <2>2. QED
        BY <2>1 DEF RecordLike, MayLike, IsBlocked
<1>4. PairInterest' = [PairInterest EXCEPT ![pair] = @ \cup {s}]
    <2>1. ASSUME NEW other \in ProfilePairs
          PROVE  {p \in other : \E q \in other : <<p, q>> \in likes'} =
                     IF other = pair THEN PairInterest[other] \cup {s} ELSE PairInterest[other]
        <3>1. PairInterest[other] = {p \in other : \E q \in other : <<p, q>> \in likes}
            BY DEF PairInterest
        <3>2. CASE other = pair
            BY <1>2, <3>1, <3>2
        <3>3. CASE other # pair
            <4>1. ~(s \in other /\ r \in other)
                BY <1>1, <3>3, PairOf
            <4>2. QED
                BY <1>2, <3>1, <3>3, <4>1
        <3>4. QED
            BY <3>2, <3>3
    <2>2. PairInterest' = [other \in ProfilePairs |->
                              {p \in other : \E q \in other : <<p, q>> \in likes'}]
        BY DEF PairInterest
    <2>3. DOMAIN PairInterest = ProfilePairs
        BY DEF PairInterest
    <2> HIDE DEF pair, s, r
    <2>4. QED
        BY <2>1, <2>2, <2>3, <1>1 DEF PairInterest
<1>5. PairInterest'[pair] = {p \in pair : \E q \in pair : <<p, q>> \in likes'}
    BY <1>1 DEF PairInterest
<1>6. PairInterest'[pair] = pair <=> Reciprocated(s, r)
    <2>1. <<s, s>> \notin likes' /\ <<r, r>> \notin likes'
        BY <1>1, <1>2 DEF IInv, TypeOK, Directed
    <2>2. s \in PairInterest'[pair]
        BY <1>2, <1>5
    <2>3. r \in PairInterest'[pair] <=> <<r, s>> \in likes'
        BY <1>5, <2>1
    <2>4. PairInterest'[pair] \subseteq pair
        BY <1>5
    <2>5. QED
        BY <2>2, <2>3, <2>4 DEF Reciprocated
<1>7. PairsTold' = IF PairInterest'[pair] = pair THEN PairsTold \cup {<<s, pair>>} ELSE PairsTold
    <2>1. receipts' = IF Reciprocated(s, r) THEN receipts \cup {<<s, r>>} ELSE receipts
        BY DEF RecordLike
    <2>2. CASE Reciprocated(s, r)
        <3>1. receipts' = receipts \cup {<<s, r>>}
            BY <2>1, <2>2
        <3>2. PairsTold' = PairsTold \cup {<<s, pair>>}
            BY <3>1 DEF PairsTold
        <3>3. QED
            BY <1>6, <2>2, <3>2
    <2>3. CASE ~Reciprocated(s, r)
        <3>1. PairsTold' = PairsTold
            BY <2>1, <2>3 DEF PairsTold
        <3>2. QED
            BY <1>6, <2>3, <3>1
    <2>4. QED
        BY <2>2, <2>3
<1>8. PairsBarred' = PairsBarred
    BY DEF RecordLike, PairsBarred
<1>9. Consent!Express(s, pair)
    BY <1>3, <1>4, <1>7, <1>8 DEF Consent!Express
<1>10. QED
    BY <1>1, <1>9, PairsAgree DEF Consent!Next

LEMMA BlockRefines ==
    ASSUME IInv, NEW d \in BlockInputs, Block(d[1], d[2])
    PROVE  Consent!Next
<1> DEFINE b == d[1]
           o == d[2]
           pair == {b, o}
<1>1. b \in Profiles /\ o \in Profiles /\ b # o /\ pair \in ProfilePairs
    BY DEF Block, ProfilePairs
<1>2. likes' = likes \ {<<b, o>>, <<o, b>>}
    BY DEF Block, LikesAfterBlock
<1>3. PairInterest' = [PairInterest EXCEPT ![pair] = {}]
    <2>1. ASSUME NEW other \in ProfilePairs
          PROVE  {p \in other : \E q \in other : <<p, q>> \in likes'} =
                     IF other = pair THEN {} ELSE PairInterest[other]
        <3>1. PairInterest[other] = {p \in other : \E q \in other : <<p, q>> \in likes}
            BY DEF PairInterest
        <3>2. CASE other = pair
            <4>1. ASSUME NEW p \in pair, NEW q \in pair
                  PROVE  <<p, q>> \notin likes'
                BY <1>2 DEF IInv, TypeOK, Directed
            <4>2. QED
                BY <3>2, <4>1
        <3>3. CASE other # pair
            <4>1. ASSUME NEW p \in other, NEW q \in other
                  PROVE  <<p, q>> \in likes' <=> <<p, q>> \in likes
                BY <1>1, <1>2, <3>3, PairOf
            <4>2. QED
                BY <3>1, <3>3, <4>1
        <3>4. QED
            BY <3>2, <3>3
    <2>2. PairInterest' = [other \in ProfilePairs |->
                              {p \in other : \E q \in other : <<p, q>> \in likes'}]
        BY DEF PairInterest
    <2>3. DOMAIN PairInterest = ProfilePairs
        BY DEF PairInterest
    <2> HIDE DEF pair, b, o
    <2>4. QED
        BY <2>1, <2>2, <2>3, <1>1 DEF PairInterest
<1>4. PairsBarred' = PairsBarred \cup {pair}
    <2>1. blocks' = blocks \cup {<<b, o>>}
        BY DEF Block
    <2>2. QED
        BY <2>1 DEF PairsBarred
<1>5. PairsTold' = PairsTold
    BY DEF Block, PairsTold
<1>6. Consent!Bar(pair)
    BY <1>3, <1>4, <1>5 DEF Consent!Bar
<1>7. QED
    BY <1>1, <1>6, PairsAgree DEF Consent!Next

\* The likes and blocks of the store, read as the interest and the bar of each pair, behave
\* as MutualConsent says, under every loss, delay and repeat of a request or a receipt.
THEOREM Refinement == Spec => ImplementsConsent
<1>1. Init => Consent!Init
    BY InitRefines
<1>2. IInv /\ [Next]_rendezvousVars => [Consent!Next]_(Consent!consentVars)
    <2> SUFFICES ASSUME IInv, [Next]_rendezvousVars
                 PROVE  Consent!Next \/ UNCHANGED (Consent!consentVars)
        OBVIOUS
    <2>1. ASSUME UNCHANGED <<likes, blocks, receipts>>
          PROVE  UNCHANGED (Consent!consentVars)
        BY <2>1 DEF Consent!consentVars, PairInterest, PairsBarred, PairsTold
    <2>2. QED
        BY <2>1, RecordLikeRefines, BlockRefines
        DEF Next, PublishPresence, WithdrawPresence, Discover, SendLike, storeVars,
            rendezvousVars
<1>3. QED
    BY <1>1, <1>2, WithoutRestart, PTL DEF Spec, Consent!Spec, ImplementsConsent

============================================================================
