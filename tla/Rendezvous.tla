----------------------------- MODULE Rendezvous -----------------------------
(***************************************************************************)
(* The process-local rendezvous: src/src/swipe_dating/domain/matching.py   *)
(* behind the routes of src/src/swipe_dating/api/app.py.                   *)
(*                                                                         *)
(* Every method of RendezvousStore works under one lock (the checks before *)
(* it read only the request), so it is one action.  Around the store,      *)
(* clients repeat their likes and the network loses, delays and duplicates *)
(* requests and responses: a like once sent may be handled any number of   *)
(* times, and a receipt once issued may or may not have arrived.           *)
(*                                                                         *)
(* Profile ids are numbers, ordered as the code's strings are; times are   *)
(* small numbers for milliseconds, the server's and the clients' alike.    *)
(* JSON shapes, the body limit and the check of a region's spelling only   *)
(* refuse requests before the store is touched.                            *)
(***************************************************************************)
EXTENDS Integers, FiniteSets

CONSTANTS
    Profiles,       \* profile ids
    Regions,        \* acceptable coarse regions
    Credentials,    \* the adult credentials clients present
    LikeInputs,     \* <<sender, recipient>>: the likes clients want to send
    BlockInputs,    \* <<blocker, blocked>>: the blocks clients ask for
    MaxTime,        \* bound: times are 0 .. MaxTime
    MaxTtl,         \* 120_000 in the code
    PageLimit,      \* 20 in the code
    Limits          \* the limits a discovery request may ask for

Times == 0 .. MaxTime

IsCredential(c) ==
    /\ c.subject \in Profiles
    /\ c.issued \in Int /\ c.expires \in Int
    /\ c.revoked \in BOOLEAN

ASSUME ProfileAssumption == Profiles \subseteq Nat
ASSUME CredentialAssumption == \A c \in Credentials : IsCredential(c)
ASSUME InputAssumption ==
    LikeInputs \subseteq Profiles \X Profiles /\ BlockInputs \subseteq Profiles \X Profiles
ASSUME BoundAssumption ==
    /\ MaxTime \in Nat /\ MaxTtl \in Nat /\ PageLimit \in Nat
    /\ Limits \subseteq Int

PresenceLease == [region : Regions, issued : Times, expires : Times]

Directed == {d \in Profiles \X Profiles : d[1] # d[2]}

VARIABLES
    \* RendezvousStore
    presence,       \* profile -> PresenceLease
    likes,          \* <<sender, recipient>>
    blocks,         \* <<blocker, blocked>>
    \* The clients and the network
    likeRequests,   \* the likes that were ever sent
    receipts        \* <<addressee, other>>: the match receipts ever issued

storeVars == <<presence, likes, blocks>>
rendezvousVars == <<presence, likes, blocks, likeRequests, receipts>>

Init ==
    /\ presence = [p \in {} |-> {}]
    /\ likes = {}
    /\ blocks = {}
    /\ likeRequests = {}
    /\ receipts = {}

\* Fault: only the blocker's own side of a block is looked at.
IsBlockedOneWay(left, right) == <<left, right>> \in blocks

\* _is_blocked
IsBlocked(left, right) == <<left, right>> \in blocks \/ <<right, left>> \in blocks

----------------------------------------------------------------------------
(* Presence                                                                *)

\* Fault: the credential may be somebody else's.
ValidForAnyone(cred, p, now) == ~cred.revoked /\ cred.issued <= now /\ now < cred.expires

\* adult_credential_is_valid, of a credential that create_adult_credential accepts
AdultCredentialIsValid(cred, p, now) ==
    /\ cred.subject = p
    /\ ~cred.revoked
    /\ cred.issued <= now /\ now < cred.expires

\* publish_presence: the time of the check is the lease's own time of issue, and a lease
\* replaces whatever was there, a later one included.
PublishPresence(p, lease, cred) ==
    /\ cred.issued < cred.expires
    /\ AdultCredentialIsValid(cred, p, lease.issued)
    /\ lease.expires - lease.issued \in 1 .. MaxTtl
    /\ presence' = [q \in DOMAIN presence \cup {p} |-> IF q = p THEN lease ELSE presence[q]]
    /\ UNCHANGED <<likes, blocks, likeRequests, receipts>>

Without(gone) == [q \in DOMAIN presence \ gone |-> presence[q]]

\* withdraw_presence
WithdrawPresence(p) ==
    /\ presence' = Without({p})
    /\ UNCHANGED <<likes, blocks, likeRequests, receipts>>

\* _expire
Expired(now) == {p \in DOMAIN presence : presence[p].expires <= now}

\* Everyone the page of a requester is cut from.
Listed(region, requester, now) ==
    {p \in DOMAIN presence \ Expired(now) :
        presence[p].region = region /\ p # requester /\ ~IsBlocked(requester, p)}

\* Fault: a negative limit counts from the end, as in a slice.
SliceLimit(limit, size) ==
    IF limit < 0 THEN size + limit ELSE IF limit < PageLimit THEN limit ELSE PageLimit

BoundedLimit(limit, size) ==
    IF limit < 0 THEN 0 ELSE IF limit < PageLimit THEN limit ELSE PageLimit

\* The answer of discover: the first profiles in the order of their ids.
DiscoveryPage(region, requester, now, limit) ==
    LET values == Listed(region, requester, now)
    IN  {p \in values :
            Cardinality({q \in values : q < p}) < BoundedLimit(limit, Cardinality(values))}

\* discover: what it leaves behind, whatever region, requester and limit it is asked for.
Discover(now) ==
    /\ presence' = Without(Expired(now))
    /\ UNCHANGED <<likes, blocks, likeRequests, receipts>>

----------------------------------------------------------------------------
(* Likes and blocks                                                        *)

\* A client likes somebody.
SendLike(s, r) ==
    /\ likeRequests' = likeRequests \cup {<<s, r>>}
    /\ UNCHANGED <<storeVars, receipts>>

\* Fault: the sender's own like is taken for the other's.
ReciprocatedByOwn(s, r) == <<s, r>> \in likes'

Reciprocated(s, r) == <<r, s>> \in likes'

\* Fault: the like that completes a match is answered, but not kept.
LikesUntilMatched(s, r) == IF <<r, s>> \in likes THEN likes ELSE likes \cup {<<s, r>>}

LikesWith(s, r) == likes \cup {<<s, r>>}

MayLike(s, r) == s # r /\ ~IsBlocked(s, r)

\* record_like, for a request that was sent before and perhaps handled before
RecordLike(s, r) ==
    /\ <<s, r>> \in likeRequests
    /\ MayLike(s, r)
    /\ likes' = LikesWith(s, r)
    /\ receipts' = IF Reciprocated(s, r) THEN receipts \cup {<<s, r>>} ELSE receipts
    /\ UNCHANGED <<presence, blocks, likeRequests>>

\* Fault: the other's like survives the block.
LikesAfterOwnWithdrawn(b, d) == likes \ {<<b, d>>}

LikesAfterBlock(b, d) == likes \ {<<b, d>>, <<d, b>>}

\* block
Block(b, d) ==
    /\ b # d
    /\ blocks' = blocks \cup {<<b, d>>}
    /\ likes' = LikesAfterBlock(b, d)
    /\ UNCHANGED <<presence, likeRequests, receipts>>

----------------------------------------------------------------------------

Next ==
    \/ \E p \in Profiles, lease \in PresenceLease, cred \in Credentials :
           PublishPresence(p, lease, cred)
    \/ \E p \in Profiles : WithdrawPresence(p)
    \/ \E now \in Times : Discover(now)
    \/ \E d \in LikeInputs : SendLike(d[1], d[2])
    \/ \E d \in LikeInputs : RecordLike(d[1], d[2])
    \/ \E d \in BlockInputs : Block(d[1], d[2])

Spec == Init /\ [][Next]_rendezvousVars

\* The process restarts: everything it knew was in memory, and nobody is told.
Restart ==
    /\ presence' = [p \in {} |-> {}]
    /\ likes' = {}
    /\ blocks' = {}
    /\ UNCHANGED <<likeRequests, receipts>>

SpecWithRestarts == Init /\ [][Next \/ Restart]_rendezvousVars

----------------------------------------------------------------------------
(* Properties                                                              *)

TypeOK ==
    /\ DOMAIN presence \subseteq Profiles
    /\ presence \in [DOMAIN presence -> PresenceLease]
    /\ likes \subseteq Directed
    /\ blocks \subseteq Directed
    /\ likeRequests \subseteq LikeInputs
    /\ receipts \subseteq Directed

\* No unilateral match: whoever has a receipt asked for the match, and so did the other, in
\* whatever order their likes and repeats arrive and however often the process forgets.
ReceiptsHaveConsent ==
    \A d \in receipts : d \in likeRequests /\ <<d[2], d[1]>> \in likeRequests

\* Only the like that completes a match is answered with a receipt, so the first sender, and
\* anyone whose response is lost, learns of it by sending the like again: as long as
\* nothing bars the pair, that answer is still there.
MatchCanBeLearned ==
    \A d \in receipts : ~IsBlocked(d[1], d[2]) => d \in likes /\ <<d[2], d[1]>> \in likes

\* A block in either direction keeps the two apart in both: no like between them is left,
\* not even one that arrives late, and neither finds the other.
BlockedAreApart ==
    \A d \in blocks :
        /\ d \notin likes /\ <<d[2], d[1]>> \notin likes
        /\ \A region \in Regions, now \in Times :
               /\ d[1] \notin Listed(region, d[2], now)
               /\ d[2] \notin Listed(region, d[1], now)

\* Who is on a lease has shown a credential of their own that was good when the lease says
\* it was issued, and the lease is no longer than the limit.
LeasesAreEntitled ==
    \A p \in DOMAIN presence :
        LET lease == presence[p]
        IN  /\ lease.expires - lease.issued \in 1 .. MaxTtl
            /\ \E cred \in Credentials :
                   cred.subject = p /\ ~cred.revoked
                       /\ cred.issued <= lease.issued /\ lease.issued < cred.expires

\* Asking for more never loses anyone: for any two limits the shorter page is the beginning
\* of the longer, nobody on a page has an expired lease, and no page is over the limit.
PagesAreNested ==
    \A region \in Regions, requester \in Profiles, now \in Times, low, high \in Limits :
        LET page == DiscoveryPage(region, requester, now, low)
            more == DiscoveryPage(region, requester, now, high)
        IN  /\ low <= high => page \subseteq more
            /\ \A p \in page, q \in more \ page : p < q
            /\ \A p \in page : now < presence[p].expires
            /\ Cardinality(page) <= PageLimit

\* The refinement mapping: the likes and blocks of a pair, whatever their direction, are the
\* pair's interest and bar.
ProfilePairs == {pair \in SUBSET Profiles : \E p, q \in Profiles : p # q /\ pair = {p, q}}

PairInterest == [pair \in ProfilePairs |-> {p \in pair : \E q \in pair : <<p, q>> \in likes}]

PairsBarred == {{d[1], d[2]} : d \in blocks}

PairsTold == {<<d[1], {d[1], d[2]}>> : d \in receipts}

Consent == INSTANCE MutualConsent WITH
    People <- Profiles, interest <- PairInterest, barred <- PairsBarred, told <- PairsTold

\* A process that does not restart keeps the abstract promise, whatever the network does.
ImplementsConsent == Consent!Spec

============================================================================
