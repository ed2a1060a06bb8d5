# Formal models of Swipe Dating

TLA+ models of the Python R&D build of Swipe Dating, the TLC runs that check them on small
instances, and proofs of their main theorems checked by TLAPS. Paths are relative to this
directory's parent; the program is under `src/src/swipe_dating/`.

## The system

Swipe Dating is a synthetic research build of an adults-only swipe app. It has two programs that
share domain code and nothing else:

- a **browser application** (`web/`), which gives every browser a *research session* in memory:
  the viewer passes an adults-only gate, swipes a ranked queue of fixture profiles, talks to
  matches, and takes part in community review of suspected bots;
- a **rendezvous API** (`api/`), an in-process service where clients publish short presence
  leases, discover each other by coarse region, like and block.

Both are single processes. The web routes are coroutines without an `await` between reading and
writing a session, so session methods do not interleave within; their *order* is whatever forms
the browser's tabs send, stale and repeated ones included. `RendezvousStore` takes one lock per
method. Asynchrony and failure come from outside: requests repeated, lost and late, processes that
die and with them every browser session, a calendar that moves on while a session stays on the day
of its creation, calls of the file system that fail.

### Components, state, operations

| Component | State | Operations | What makes it correct |
|---|---|---|---|
| Community bot moderation (`domain/bot_moderation.py`) | members (reputation, reports in window), cases (votes, status, contained, review complete) | report, vote, appeal, adjudicate; contained profiles, eligible reviewers | independent review, containment that is justified and lifted by a verdict only, penalties accounted for |
| Conversations (`domain/conversations.py`) | stack of decisions, matches with transcripts, blocked list, restored card | pass, interest, undo, message, reply, propose a meetup, unmatch, block | no unilateral match, matches pin the stack, blocks purge, ended conversations stay ended |
| Research session (`application/session.py`) | gate, tab, the two states above, the saved local state | one method per form, and the discovery queue | queue and handlers agree, nothing before the gate |
| Rendezvous store (`domain/matching.py`) | presence leases, likes, blocks | publish, withdraw, discover, like, block | receipts have consent and can be had again, blocks keep apart, leases are entitled |
| Rendezvous API (`api/app.py`) | none of its own | five routes, body limit, error mapping | refuses before it acts |
| Local storage (`adapters/storage.py`) | one JSON file and its temporary files | load, save, clear, export | a save is atomic under failures, deaths and power loss |
| Local state (`domain/local_state.py`) | the saved half of a session: profile, skins, haptics | sanitize, migrate, (de)serialize | what is saved is what is shown; no saved skin is dropped |
| Discovery ranking (`domain/discovery.py`) | none | normalize weights, evaluate, rank | shares of a hundred, mutual eligibility, no better candidate behind |
| Risk assessment (`domain/risk.py`) | none | score signals, choose one of five actions | monotone in every signal |
| Adult boundary (`domain/adult.py`) | none | date rule, credentials | exact eighteenth birthday, subject-bound credentials |
| Alignment, location grants, proximity, preferences, skin catalogue | none | pure functions | bounds and tables |
| Web application (`web/app.py`) | token to session; the cookie in the browser | one route per session method | adults only, a browser loses its session to a race alone, every request ends in a page |
| Identifiers, governance checks, simulation, launchers, templates | none | HMACs, a source linter, one scenario, process start, pages | outside the models |

How they interact: the web routes call one session method each. The session replaces
`conversations` or `moderation_state` by the result of one domain transition, computes the queue
from both, feeds a report with the risk assessment of fixture signals, and saves the profile half
of its state through the repository. The API routes call one store method each.

What is hard: orders of swipe, undo, unmatch and block that nobody scripted; a review in which
votes, an appeal and a verdict race while verdicts of other cases change who may vote; forms that
arrive against a queue that has changed; requests repeated or late around a block or a restart;
two tabs that open a session each; a save that fails half way. `PROJECT.json` lists each such hazard at its line.

## The modules

| Module | Models | Form |
|---|---|---|
| `BotModeration` | community bot moderation | one action per transition, refusals as guards |
| `Conversations` | decisions, matches, transcripts | the same |
| `RiskLadder` | risk scoring and its five actions | operators on records of signals |
| `Session` | the research session | INSTANCEs of the three modules above over its own variables, under the session's guards |
| `ViewerSession` | what a session promises its viewer | abstract: decided, matched, under review, hidden; implemented by `Session`, instantiated per token by `WebSessions` |
| `AdultBoundary` | the calendar rule | operators on dates |
| `WebSessions` | browsers with tabs, requests and cookies, the store of sessions and its routes | one action per route, one for each thing the network, the process and the calendar do |
| `SavedProfile` | the saved half of a session: reading, migration, allowlist, writing | one action per method of the session that saves |
| `AtomicSaves` | what the file adapter promises | abstract: a save takes effect in one step; no temporary files, no calls |
| `LocalStorage` | the file adapter under those methods | one action per call of `set_item`, a failure of each, deaths and power loss; `Abstract == INSTANCE AtomicSaves WITH ...` is the refinement mapping |
| `MutualConsent` | what the rendezvous promises | abstract: the interest of pairs, bars, who has been told |
| `Rendezvous` | the store behind its routes, with its clients | one action per locked method, plus the clients' repeats; `Consent == INSTANCE MutualConsent WITH ...` is the refinement mapping |
| `Discovery` | the ranking | inputs chosen in `Init`, one action that ranks |
| `BotModerationProofs`, `ConversationsProofs`, `SessionProofs`, `RendezvousProofs`, `SavedProfileProofs`, `LocalStorageProofs`, `WebSessionsProofs`, `DiscoveryProofs` | theorems | proofs about the modules they extend |
| `MC...` | instances | fixtures cut down, symmetry sets |

How they compose: `WebSessions` holds sessions as `ViewerSession` has them; `Session` implements
`ViewerSession` and is made of `Conversations`, `BotModeration` and `RiskLadder`; `SavedProfile` and
`LocalStorage` are its saved half, once by what is written and once by how. `LocalStorage`
implements `AtomicSaves`, as `Rendezvous` does `MutualConsent`.

### How state and actions correspond to the code

**BotModeration.** `ModerationState.members` is split: what no transition assigns (`Account`) is a
constant function, `moderation_reputation` and `reports_in_window` are the variables `reputation`
and `reportsInWindow`. `cases` maps a case's number to a record of the fields transitions read;
ids are the counters. `FileBotReport`, `CastBotVote`, `AppealBotCase` and `AdjudicateBotCase` are
the four transitions: their guards are the conjunction of all `DomainError` checks, and a raise,
which leaves the state alone, is a disabled action. The parts of a transition that could be wrong
by themselves (`WithinReportLimit`, `VotedCase`, `Penalised`, ...) are operators named for the idea.

**Conversations.** Six fields of `ConversationState`, six variables; `matches` is keyed by the
candidate, as `match:<id>` is a function of it. A transition that returns the state it was given
(`undo` of nothing or of a match, `unmatch` of an ended one) is a disabled action.

**RiskLadder.** A signal that is missing counts 0, so a record of signals has every field; counts
are naturals, where the code's floats and `int()` are exact. `Points` is one field per reason.

**Session.** The variables of both components plus the gate and the tab. `Ranking`,
`SyntheticBotSignals` and `Truth` are the fixtures: the ranked profiles, the signals that
`RiskLadder` assesses on a report, the synthetic verdicts; none need cover every profile, and one
without signals is assessed by defaults. As verdicts are looked up there, two about one profile
never differ in a session; in `BotModeration`, which takes any verdict, they may. `OtherIds` are ids
that are no profile: `pass_candidate` takes them. Undo, unmatch and block have no gate, as in the
code; that nothing comes of it is part of `ImplementsPromise`, the refinement of `ViewerSession`.

**ViewerSession.** A session is one record. Each method is an operator whose value is the set of
sessions it may leave behind, empty when it refuses: a form in `WebSessions` succeeds with a member
of that set or is redirected with an error. Stack, cases, votes and transcripts are forgotten, so
an undo takes back some decision that made no match, and a vote may or may not contain.

**WebSessions.** `sessions` is `BrowserSessionStore._sessions`, `cookie` what the browser holds. A
tab has at most one request under way, `request`, with the cookie of the moment it was sent, and
then its `answer`. `_ensure_session`, `_adult_session` and `_set_session_cookie` are `Ensured`,
`HasAdultSession` and `WithCookie`; a route that changes a session is `TurnedAway`, `Succeeds` or
`Fails`. `Receive` keeps the cookie and follows redirects, `Lose` drops a request before or after
the handler has run, `Restart` empties the store, `NextDay` moves the calendar on.

**SavedProfile.** A string is a sequence of characters of which one is the blank that `strip()`
removes; a value of another JSON type is a model value. `Clean`, `Migrated`, `Deserialized` and
`Serialized` are the functions of `local_state.py`; `ahead` says that the last save failed, when
memory has been changed and nothing has cleaned it. `HandWritten` are files that no save wrote; on
those whose load `Raises`, one that is not UTF-8 among them, no session starts.
`LocalStates` are the values of the class of that name, `Readable` says what JSON can put where
`sanitize_local_state` looks. The loop of `_unique_strings` is a recursive function of the position
(`kept[i]`), and so is the filter of the queue in `Session` (`Filtered`).

**Rendezvous.** `presence`, `likes`, `blocks` are the store's. `likeRequests` and `receipts` stand
for the world outside: likes that clients ever sent, which may be handled any number of times in
any order and at any later moment, and receipts ever issued, which may or may not have arrived.
`Spec` is a process that does not restart, `SpecWithRestarts` one that does.

**LocalStorage.** `step` is the place of a session inside `set_item`; `temp`, `file` and
`survivors` (what the path may hold after a power loss) are the file system as the code uses it;
`promised` and `lastWriter` record what callers were told. A failure can be injected at every call.
A file that was not flushed comes back broken: `Torn`, which loads as the default, or `Undecodable`,
cut in the middle of a character (the text is written with `ensure_ascii=False`), on which no session
starts (`CanLoad`).
A local state is an abstract value and sanitizing an idempotent function on values; `SavedProfile`
has the function itself, and `CleanSuitsStorage` shows that it is one.

**AtomicSaves.** A session is `"idle"`, or in a save that has not yet taken effect (`"saving"`) or has
(`"saved"`). The mapping sends the calls up to the rename to the former and what follows to the
latter; a handler that runs after the rename is told from one before it by its temporary file.

**Discovery.** Exact integer arithmetic. Where it ties, the code's floating point decides by
rounding errors, in either direction, so both outcomes are possible: the order of two weights with
equal fractions, and the rounding of a distance component or of a score that ends in a half. At the
default range of 40 km every odd distance leaves a half: 7 km come out as 83 of 82.5, 17 km as 57 of
57.5. The choice is made per distance (`short`) and per vector of terms (`low`), as the code computes
the same numbers for the same inputs. An overlap of fewer than forty tags needs no choice: only its
eighths end in a half, and those are exact in binary.

## What the runs check

| Run | Question | Instance | Result |
|---|---|---|---|
| `moderation` | do reviews stay independent, justified and frozen, and accounts exact, while cases share reviewers? | 5 members, two in one cluster, one of them also a possible subject; 2 cases | holds |
| `penalty` | is a penalty preceded by a demonstrated pattern? | 2 members, 1 case | **violated**, see below |
| `conversations` | do decisions, matches, transcripts and blocks agree? | 3 candidates, 4 decisions, 3 messages | holds |
| `session` | does a session implement `ViewerSession`; do queue and handlers agree; can one kind of behaviour hide a profile? | 3 profiles, an unknown id, 2 decisions, 2 cases, one reviewer, the fixtures' signals | holds |
| `matching` | does the store implement mutual consent, and can a match be learned? | 3 profiles, all likes and blocks among them | holds |
| `presence` | are leases entitled, pages nested, the blocked apart, through restarts? | 3 profiles and one that only looks, 2 regions, 4 instants, 4 credentials | holds |
| `web` | who passes the gate, who loses a session, what do repeated forms do, does every request end? | 2 tabs of a browser, 3 requests, 1 restart, 2 days | holds |
| `webdays` | is whoever is 18 today let in? | the same with 2 requests, no restart | **violated**, see below |
| `profile` | is what is saved what is shown, and are skins kept? | names and skins around limits of 2, nine foreign files | holds |
| `storage` | does the adapter implement saves of one step, and what do callers and memory know? | 2 sessions, 3 local states | holds |
| `ranking` | are weights shares, eligibility mutual, and ranks monotone? | 8 candidates in pools of 3, 2 viewers, 8 weight inputs | holds |
| `range` | does allowed distance decide eligibility? | the same | **violated**, see below |

Every property of a passing run also fails under a named fault of the code it is about: the
operators marked `Fault:` in the modules are such faults, and `PROJECT.json` lists which property
catches which.

### Three disagreements between documents and code

- `PRODUCT_SCOPE.md:154` asks for a demonstrated pattern before a wrongful-vote penalty.
  `adjudicate_bot_case` takes 20 points for the first vote that differs from a verdict (`penalty`).
  `README.md` describes the code as it is.
- `PRODUCT_SCOPE.md:118` lists the allowed distance under hard eligibility.
  `evaluate_discovery_candidate` ranks candidates beyond it, with a distance component of 0 (`range`).
- `MISSION.md:14` asks for "adults 18+ only, with exact calendar-date behavior". A session keeps the
  day it was created on (`web/app.py:46`) and compares every later birth date with that day
  (`session.py:113`): who opens the page the evening before their birthday is told on the birthday
  that they "must be at least 18 years old" (`webdays`). The error is on the safe side only, which
  `AdultsOnly` shows in `web`.

### Facts that follow from the checked properties and deserve to be known

- An uncontained case whose reviewers have lost their standing can never be completed, appealed or
  adjudicated, and its profile can never be reported again (`ReviewerPoolOnlyShrinks` with
  `OneActiveCasePerProfile`): nothing restores reputation.
- `reports_in_window` has no window: the fifth report is a member's last.
- The first of two likers is never notified; repeating the like is the only way to learn of a match.
- A file whose `lastTab` is a list or a mapping makes `load` raise `TypeError`, and one that is not
  UTF-8 makes it raise `UnicodeDecodeError`, as `get_item` catches `FileNotFoundError` only: no session
  starts on either. `int()` raises likewise for a signal that is NaN or infinite.
- The restored card is session state alone: no page shows it, and no web route undoes a decision.
- A skin acquired when fifty are owned is dropped without a word: those saved before are kept
  (`SkinsAreKept`), the new one is not, though it was selected.
- Two tabs that open the gate at once get a session each, and the later answer's cookie wins: the
  only way for a browser to lose a session the server still holds (`CookieLostOnlyToRaces`).
  Browser sessions are never evicted.
- A restart forgets blocks, so the store keeps its promises about blocks only until then.

## Bounds, and why they are enough

`MaxCases`, `MaxEvents`, `MaxMessages`, `MaxTime` and `MaxPool` are guards or ranges of the modules
and appear in no other rule.

- A quorum is 3 votes of which 2 must be suspicious. Five members, of whom one reports, two share a
  cluster and one may be the subject, fill a quorum in several ways and fail to in others.
- Interference between cases is pairwise: a vote, a verdict or a penalty of one case against one
  other; hence two cases. Members start with 4 or 5 reports and reputations of 70, 90 and 100, so
  that the report limit and the reputation a vote needs are crossed within two cases. The floor of
  reputation takes longer histories than that: it is covered by the proof of `ReputationAccounting`.
- Four decisions on three candidates allow swipe, undo, swipe again, and a match below and above
  other swipes. Three messages are a two-way exchange and a proposal.
- A session's fixtures hold one profile of each kind that its rules tell apart: one that likes back
  and registered ten accounts (much of a single kind of behaviour), one that its signals contain,
  one without signals or verdict, and an id that is no profile. Two cases are one after another on
  one profile, or one on each of two.
- The web routes of two tabs race pairwise, whoever's tabs they are, and two browsers share only the
  store, under different tokens: one browser. Three requests are two that race and one that meets
  their result; redirects are not counted. The two days are those around the eighteenth birthday of
  someone born on February 29.
- Limits of 2 for names, skins and ids are met with blanks before, at and after every cut.
- Rules of the rendezvous concern a pair and whoever else is listed: three profiles. A lease limit of
  2 instants (120 000 ms in the code) is reached and exceeded, and so is a page limit of 2 (20 in the
  code) in `presence`, where a fourth profile, without credentials, finds all three others.
- Two sessions are a race for one file; three local states are two worth telling apart and one that
  sanitizing changes.
- The eight candidates reach every exclusion and both ends of every clamp; two, at 7 and 17 km, leave
  a half of the range. The weights include the defaults, ties, a single dimension and nothing usable.

The constants of the code that decide something (quorum, limits, penalties, weights) have the
code's values; the limits of the saved profile (64, 50 and 80) and of the rendezvous are parameters.
Symmetry is used where no rule compares the elements: the candidates of a conversation and the two
sessions on one file.

## Fairness

Only `WebSessions` states fairness: `WF_vars(Serve(t) \/ Receive(t))` for every tab. The server's
event loop calls the handler of every request it has read, no handler awaits or blocks, and a
browser takes the response that came. Nothing is assumed of users, of the network, which may lose a
request at either end, of restarts and of the calendar. `RequestsEnd` follows: the gate redirects an
adult to `/discover`, the pages behind it redirect everyone else to the gate, and a restart between
the two turns one into the other, yet no browser goes in circles.

Nothing else in the program acts by itself: every other step is a request of a person or a client,
and the code gives no ground for assuming that one comes. What could be said as liveness there (a
match can be learned, a case can be finished) is stated as the safety property that the step that
would do it stays possible, or that it cannot come back.

## What is proved

TLAPS checks the theorems below for every value of the constants that the modules' named
assumptions allow: member data are well typed (`AccountAssumption`), bounds are natural numbers,
likes and blocks name known profiles, credentials are records of the declared fields, the fixtures'
ranking names profiles (`FixtureAssumption`), sanitizing is idempotent (`CleanAssumption`, which
`CleanSuitsStorage` proves of the code's function), names and ids are strings over characters of which
one is the blank (`InputsAssumption`), a file under a known schema has JSON values where the code looks
(`HandWrittenAssumption`), values of other types are none of these (`TypesAssumption`), profiles and weights have the ranking's fields, with integers or
unusable values where the code reads numbers (`ProfileAssumption`, `WeightAssumption`), the calendar's days are dates and in order (`CalendarAssumption`), a
session's parameters satisfy what its components assume (`ComponentAssumption`).

**Moderation** (`BotModerationProofs`). The inductive invariant `IInv` is type correctness, the
per-case invariant `CasesInv` (independent votes, status as a summary, justified containment, and
that an unadjudicated case has at most a quorum), one active case per profile and the two
accounting equations. The equations are not inductive alone: a verdict charges each vote once,
so that a member loses one penalty per case needs that a case holds one vote per member, which is
`IndependentReview`; and that a case is charged once needs that a verdict is final. Each transition
is shown to take the rewritten case from `CasesInv` to `CasesInv` (`NewCaseInv`, `VotedCaseInv`,
`AppealedCaseInv`, `AdjudicatedCaseInv`), the others are unchanged, and the counting lemmas for
`Cardinality` finish the equations. `OnlyAVerdictLifts`, `RecordFrozen` and `ReviewersAreNotRestored`
are action properties proved from the same invariant.

**Conversations** (`ConversationsProofs`). `IInv` adds to types and `DecidedOnce` what ties a match to
the stack: a decision that made a match is an interest (`MatchingIsInterest`), and a match is blocked exactly
if its candidate is on the blocked list, blocked matches are purged, and a proposal comes after
both sides have spoken (`MatchInv`). An undo pops the top, which the guard keeps from being a
match's, and by `DecidedOnce` no other decision is about the same candidate. Theorems: unique decisions, consent
behind matches, blocks purge, proposals after talk, ends are final, matches pin the stack.

**Session** (`SessionProofs`). Every step of the session is a step of one component and a stutter of
the other (`SessionSteps`), so both components' invariants hold of the composition: their step lemmas
are cited through the instances `ConvP` and `ModP`, not proved again. On top of them `IInv` keeps the gate
(`NothingBeforeTheGate`: who has decided or matched anything has passed it) and
ties every case to its subject's assessment, and to the truth once it has a verdict
(`AssessedAndSettled`). From it: types, and that one kind of behaviour does not hide a profile, for
any natural signals; the arithmetic is that each reason's points are capped below the threshold of
containment. The refinement of `ViewerSession` takes one lemma per method, about the view `View` that
the mapping gives of a state. `PassPromised` to `UndoPromised` rest on `DecidedOnce` and
`MatchesHaveConsent` (the decision on top is the only one about its candidate and, if it made no
match, no match is its), undo, unmatch and block on `NothingBeforeTheGate`, and `VerdictPromised` on
one active case per profile with `AssessedAndSettled`: a verdict that clears a profile leaves no
other case that hides it, as all of them were settled by the same truth.

Queue and handlers: `FilteredMembers` says what the filter keeps, so a profile is queued exactly if it
is neither suppressed nor contained, which is what `MaySwipe` asks by another path
(`QueueAndSwipesAgree`). `QueueFollowsRanking` adds that the card on top is the best-ranked one a swipe
accepts (`FilteredOrder`). `RestoredCardReturns` is not inductive: a restored card is in the queue because
nothing has been decided about it since, and it has no match (`RestoredIsFree`); an undo establishes
that by `DecidedOnce` and `MatchesHaveConsent`, and every later decision clears the card.
`WorseIsNotMilder` shows for `assess_risk` that signals which are nowhere smaller never lead to a milder action,
though most reasons are capped or have steps, and a denial overrides the sum.

**Rendezvous** (`RendezvousProofs`). `IInv` holds through restarts: stored likes were requested, a
block leaves no like in either direction, leases are entitled, receipts have consent. Without
restarts it is strengthened by the receipts' likes being kept, which gives `MatchLearnable` and the
step simulation behind `Refinement`: every step of the store is a step of `MutualConsent` or a
stutter under the mapping that forgets directions. `NestedPages` is about the page itself: the limit is
clamped, the order is that of the profiles, and who is within the first n is within the first m for
n <= m, as ranks count the finite set of those before.

**Local storage** (`LocalStorageProofs`). `SaveInv` says at each step of a save what its temporary file
holds; that it is whole and flushed before the rename is why the path never holds a broken file, even
after a power loss. With it: what a returned call promised stays, memory is the file for the last writer.
`SavesAreAtomic` is the refinement of `AtomicSaves`, one lemma per step: the rename is the effect
(`ReplaceIsEffect`, by `SaveInv`: what is renamed is the clean form of what the session holds, whole and
flushed), the calls before it and the step to the handler are stutters, a return or a raise ends the
save. The mapping needs `TempInv`: a temporary file exists from its creation to the rename or the
cleanup, or else a handler could not be told to run before the effect or after it.

**Saved profile** (`SavedProfileProofs`). Cleaning is idempotent on everything a file can hold
(`CleanIsIdempotent`): a string that was trimmed, cut and trimmed again neither begins nor ends with a
blank and is within its limit (`CleanStringCleans`), and such a string is kept as it is
(`CleanStringKeeps`); a list that was cleaned has distinct clean entries within the limit
(`ListCleaned`), and cleaning keeps what it begins with of that kind (`HeadIsKept`). So what is saved is
read as what was meant (`SavedTextIsRead`). The invariant of the sessions says that a saved file is the
text of a clean state and that a running session owns the saved skins first and in their order, also
while it is ahead of the file: the second is why no later save drops one of them (`SavedSkinsAreKept`).

**Web application** (`WebSessionsProofs`). `SessionInv` ties a session's gate to an accepted birth date
and its creation to a day that has come, `TabInv` says which cookies requests and answers can carry.
The calendar lemma `AdultForGood` takes an adult of the creation day to an adult of every later day,
February 29 included. Theorems: only adults, forms decide once, sessions are lost to races alone.

**Ranking** (`DiscoveryProofs`). `RankedAsAsked` says what a ranking returns; the rest is arithmetic for
any numbers. For the weights, the fractions that rounding down leaves add up to the ones handed out,
so a weight whose fraction is zero gets none (`NothingForNothing`): were it given one, the others
could not make up the sum. For the scores, each component of the better candidate is no smaller
(`BetterComponents`): what is farther and not at the same half rounds to less than that half rounds up
to (`BelowHalf`), so a distance component that came out low is still no smaller
(`NearerScoresNoLess`). Likewise a total that is larger stays ahead even if it comes out just below its
half while the other does not (`ScoreMonotone`). No assumption keeps halves away. Sums over the five dimensions are written out, since the
prover has nothing to say about a fold.

**Recursion.** The library's induction theorems take an operator, which the provers cannot supply.
Proofs about the recursive functions (`Filtered`, `UniqueStrings`) use a set in its place: the counterexamples
to a claim up to n are a set of numbers, and if it is not empty, it has a least element (`Least`,
from `NatLessThanWellFounded` and `WFMin`), before which the claim holds. `InductionUpTo` packs this for
citation.

## What is only model-checked

- `RequestsEnd`: liveness under fairness, and ENABLED, are beyond the prover.
- The runs that exhibit the three disagreements: a counterexample is TLC's to find.

Every safety and action property that a passing run checks is also a theorem.

## What is not modelled

- Wording, formatting, time stamps, and ids beyond their counters; page contents; `/healthz` and
  static files.
- Request parsing, the body limit and the error mapping of the rendezvous API: they refuse before
  the store is touched.
- Questionnaire alignment, location grants, the proximity table, preferences and the skin catalogue:
  functions without state or, for grants, records that nothing in the program stores. A model would
  restate them.
- The HMAC identifiers, whose properties are cryptographic; the governance linter, the simulation
  script, launchers, templates and styles.

Three limits to know. Nothing in the repository but its tests constructs the file adapter (the
browser application keeps local states in memory). What a rename or unlink leaves after a power
loss is taken to be the old or the new content. Signals are natural numbers.

## Plan

Done, in this order: `BotModeration`, `Conversations`, `Session`, `Rendezvous` with `MutualConsent`,
`LocalStorage`, `Discovery`; then `RiskLadder` inside `Session`, `AdultBoundary` and `WebSessions`,
`ViewerSession` with its refinement by `Session`, `SavedProfile`; proofs for moderation,
conversations, the session's composition, rendezvous, storage, the web application and the ranking;
then the queue, the pages and the saved profile, whose definitions are recursive, and `AtomicSaves` with
its refinement by `LocalStorage`.

Left: that each session in the web application's store, between two restarts, is a step-by-step
`ViewerSession`; and, once the program grows them, the parts named under
"What is not modelled" that are tables and records without state today.
