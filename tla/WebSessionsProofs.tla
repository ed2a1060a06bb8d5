-------------------------- MODULE WebSessionsProofs --------------------------
(***************************************************************************)
(* Proofs about WebSessions, for any browsers, tabs, profiles and days.    *)
(***************************************************************************)
EXTENDS WebSessions, TLAPS

----------------------------------------------------------------------------
(* The calendar                                                            *)

Dates == Nat \X Nat \X Nat

LEMMA NotLeapEighteenLater ==
    ASSUME NEW year \in Nat, IsLeap(year)
    PROVE  ~IsLeap(year + 18)
<1>1. year % 4 = 0 => (year + 18) % 4 = 2
    OBVIOUS
<1>2. QED
    BY <1>1 DEF IsLeap

LEMMA YearOfDate ==
    ASSUME NEW y \in Nat, NEW m \in Nat, NEW d \in Nat, IsDate(<<y, m, d>>)
    PROVE  y <= 9999
BY DEF IsDate

\* The eighteenth birthday by its parts, given that it is no later than some date.
LEMMA AdultDateParts ==
    ASSUME NEW y \in Nat, NEW m \in Nat, NEW d \in Nat, IsDate(<<y, m, d>>), y + 18 <= 9999
    PROVE  /\ m = 2 /\ d = 29 => AdultDate(<<y, m, d>>) = <<y + 18, 2, 28>>
           /\ ~(m = 2 /\ d = 29) => AdultDate(<<y, m, d>>) = <<y + 18, m, d>>
<1>1. CASE m = 2 /\ d = 29
    <2>1. IsLeap(y)
        BY <1>1 DEF IsDate, DaysIn
    <2>2. ~IsLeap(y + 18)
        BY <2>1, NotLeapEighteenLater
    <2>3. ~IsDate(<<y + 18, m, d>>)
        BY <1>1, <2>2 DEF IsDate, DaysIn
    <2>4. QED
        BY <1>1, <2>3 DEF AdultDate
<1>2. CASE ~(m = 2 /\ d = 29)
    <2>1. IsDate(<<y + 18, m, d>>)
        <3>1. CASE m = 2
            <4>1. d \in 1 .. 28
                BY <1>2, <3>1 DEF IsDate, DaysIn
            <4>2. DaysIn(y + 18, 2) \in {28, 29}
                BY DEF DaysIn
            <4>3. y + 18 \in 1 .. 9999
                OBVIOUS
            <4>4. QED
                BY <3>1, <4>1, <4>2, <4>3 DEF IsDate
        <3>2. CASE m # 2
            <4>1. DaysIn(y + 18, m) = DaysIn(y, m)
                BY <3>2 DEF DaysIn
            <4>2. y + 18 \in 1 .. 9999
                OBVIOUS
            <4>3. QED
                BY <4>1, <4>2 DEF IsDate
        <3>3. QED
            BY <3>1, <3>2
    <2>2. QED
        BY <1>2, <2>1 DEF AdultDate
<1>3. QED
    BY <1>1, <1>2

\* Who was an adult on some day has had eighteen anniversaries on every later one.
LEMMA AdultForGood ==
    ASSUME NEW birth \in Dates, NEW day \in Dates, NEW later \in Dates,
           IsAdultOn(birth, day), IsDate(later), OnOrBefore(day, later)
    PROVE  Anniversaries(birth, later) >= 18
<1>1. PICK y \in Nat, m \in Nat, d \in Nat : birth = <<y, m, d>>
    BY DEF Dates
<1>2. PICK Y \in Nat, M \in Nat, D \in Nat : day = <<Y, M, D>>
    BY DEF Dates
<1>3. PICK ly \in Nat, lm \in Nat, ld \in Nat : later = <<ly, lm, ld>>
    BY DEF Dates
<1>4. IsDate(<<y, m, d>>) /\ IsDate(<<Y, M, D>>)
    BY <1>1, <1>2 DEF IsAdultOn
<1>5. OnOrBefore(AdultDate(<<y, m, d>>), <<Y, M, D>>)
    BY <1>1, <1>2 DEF IsAdultOn
<1>6. y + 18 <= 9999
    <2>1. AdultDate(<<y, m, d>>) \in {<<y + 18, m, d>>, <<y + 18, 2, 28>>}
        BY DEF AdultDate
    <2>2. y + 18 <= Y
        BY <1>5, <2>1 DEF OnOrBefore
    <2>3. Y <= 9999
        BY <1>4, YearOfDate
    <2>4. QED
        BY <2>2, <2>3
<1>7. Y < ly \/ (Y = ly /\ M < lm) \/ (Y = ly /\ M = lm /\ D <= ld)
    BY <1>2, <1>3 DEF OnOrBefore
<1>8. CASE m = 2 /\ d = 29
    <2>1. IsLeap(y)
        BY <1>4, <1>8 DEF IsDate, DaysIn
    <2>2. ~IsLeap(y + 18)
        BY <2>1, NotLeapEighteenLater
    <2>3. OnOrBefore(<<y + 18, 2, 28>>, <<Y, M, D>>)
        <3>1. AdultDate(<<y, m, d>>) = <<y + 18, 2, 28>>
            BY <1>4, <1>6, <1>8, AdultDateParts
        <3>2. QED
            BY <1>5, <3>1 DEF OnOrBefore
    <2>4. Y > y + 18 \/ (Y = y + 18 /\ M > 2) \/ (Y = y + 18 /\ M = 2 /\ D >= 28)
        BY <2>3 DEF OnOrBefore
    <2>5. ly > y + 18 \/ (ly = y + 18 /\ lm > 2) \/ (ly = y + 18 /\ lm = 2 /\ ld >= 28)
        BY <1>7, <2>4
    <2>6. ly = y + 18 => DaysIn(ly, 2) = 28
        BY <2>2 DEF DaysIn
    <2>7. Anniversaries(birth, later) =
              (ly - y) - (IF lm > 2 \/ (lm = 2 /\ ld >= DaysIn(ly, 2)) THEN 0 ELSE 1)
        BY <1>1, <1>3, <1>8 DEF Anniversaries
    <2>8. CASE ly = y + 18
        BY <2>5, <2>6, <2>7, <2>8
    <2>9. CASE ly # y + 18
        BY <2>5, <2>7, <2>9
    <2>10. QED
        BY <2>8, <2>9
<1>9. CASE ~(m = 2 /\ d = 29)
    <2>1. OnOrBefore(<<y + 18, m, d>>, <<Y, M, D>>)
        <3>1. AdultDate(<<y, m, d>>) = <<y + 18, m, d>>
            BY <1>4, <1>6, <1>9, AdultDateParts
        <3>2. QED
            BY <1>5, <3>1 DEF OnOrBefore
    <2>2. Y > y + 18 \/ (Y = y + 18 /\ M > m) \/ (Y = y + 18 /\ M = m /\ D >= d)
        BY <2>1 DEF OnOrBefore
    <2>3. Anniversaries(birth, later) =
              (ly - y) - (IF lm > m \/ (lm = m /\ ld >= d) THEN 0 ELSE 1)
        BY <1>1, <1>3, <1>9 DEF Anniversaries
    <2>4. QED
        BY <1>7, <2>2, <2>3
<1>10. QED
    BY <1>8, <1>9

----------------------------------------------------------------------------
(* Research sessions                                                       *)

IsViewer(viewer) ==
    \E adult, decided, matched, active, underReview, contained :
        viewer = [adult |-> adult, decisions |-> decided, matched |-> matched,
                  active |-> active, underReview |-> underReview, contained |-> contained]

\* What every route behind the gate does to a viewer.
Continues(old, new) ==
    /\ IsViewer(new)
    /\ new.adult = old.adult
    /\ \A c \in DOMAIN old.decisions :
           c \in DOMAIN new.decisions /\ new.decisions[c] = old.decisions[c]

LEMMA DecisionContinues ==
    ASSUME NEW token, IsViewer(sessions[token].viewer), NEW c, NEW kind,
           Viewer(token)!MayDecide(c)
    PROVE  Continues(sessions[token].viewer, Viewer(token)!DecidedAs(c, kind))
<1> DEFINE old == sessions[token].viewer
           decisions == [d \in DOMAIN old.decisions \cup {c} |->
                            IF d = c THEN kind ELSE old.decisions[d]]
<1>1. c \notin DOMAIN old.decisions
    BY DEF Viewer!MayDecide
<1>2. /\ DOMAIN old.decisions \subseteq DOMAIN decisions
      /\ \A d \in DOMAIN old.decisions : decisions[d] = old.decisions[d]
    BY <1>1
<1>3. Viewer(token)!DecidedAs(c, kind) = [old EXCEPT !.decisions = decisions]
    BY DEF Viewer!DecidedAs
<1> HIDE DEF decisions
<1>4. QED
    BY <1>2, <1>3 DEF IsViewer, Continues

LEMMA PassContinues ==
    ASSUME NEW token, IsViewer(sessions[token].viewer), NEW c,
           NEW viewer \in Viewer(token)!Passed(c)
    PROVE  Continues(sessions[token].viewer, viewer)
BY DecisionContinues DEF Viewer!Passed

LEMMA InterestContinues ==
    ASSUME NEW token, IsViewer(sessions[token].viewer), NEW c,
           NEW viewer \in Viewer(token)!Interested(c)
    PROVE  Continues(sessions[token].viewer, viewer)
<1> DEFINE decided == Viewer(token)!DecidedAs(c, "interest")
<1>1. /\ Viewer(token)!MayDecide(c)
      /\ \/ viewer = decided
         \/ viewer = [decided EXCEPT !.matched = @ \cup {c}, !.active = @ \cup {c}]
    BY DEF Viewer!Interested
<1>2. Continues(sessions[token].viewer, decided)
    BY <1>1, DecisionContinues
<1> HIDE DEF decided
<1>3. CASE viewer = decided
    BY <1>2, <1>3
<1>4. CASE viewer = [decided EXCEPT !.matched = @ \cup {c}, !.active = @ \cup {c}]
    <2>1. IsViewer(viewer) /\ viewer.adult = decided.adult
          /\ viewer.decisions = decided.decisions
        BY <1>2, <1>4 DEF Continues, IsViewer
    <2>2. QED
        BY <1>2, <2>1 DEF Continues
<1>5. QED
    BY <1>1, <1>3, <1>4

LEMMA ReportContinues ==
    ASSUME NEW token, IsViewer(sessions[token].viewer), NEW c,
           NEW viewer \in Viewer(token)!Reported(c)
    PROVE  Continues(sessions[token].viewer, viewer)
BY DEF Viewer!Reported, IsViewer, Continues

LEMMA CasesContinue ==
    ASSUME NEW token, IsViewer(sessions[token].viewer), NEW c,
           NEW viewer \in Viewer(token)!Voted(c) \cup Viewer(token)!Appealed(c)
                             \cup Viewer(token)!Adjudicated(c)
    PROVE  Continues(sessions[token].viewer, viewer)
BY DEF Viewer!Voted, Viewer!Appealed, Viewer!Adjudicated, IsViewer, Continues

----------------------------------------------------------------------------
(* The invariant                                                           *)

\* A session keeps a day of the past, and an accepted gate an adult of that day.
SessionInv(session) ==
    /\ \E day, birth, viewer :
           session = [today |-> day, birthDate |-> birth, viewer |-> viewer]
    /\ IsViewer(session.viewer)
    /\ \E i \in 1 .. today : session.today = Calendar[i]
    /\ session.viewer.adult =>
           /\ session.birthDate \in Dates
           /\ IsAdultOn(session.birthDate, session.today)

Tokens == 1 .. issued \cup {NoCookie}

\* A form of the gate holds a birth date and no redirect leads to it; an answer brings a cookie
\* only if the request's own names no session, then or since.
TabInv(t) ==
    /\ request[t] # NoRequest =>
           /\ request[t].cookie \in Tokens
           /\ request[t].form.route = "/age-gate" => request[t].form.field \in BirthDates
    /\ answer[t] # NoAnswer =>
           /\ request[t] # NoRequest
           /\ answer[t].location # "/age-gate"
           /\ answer[t].cookie \in Tokens
           /\ answer[t].cookie # NoCookie => request[t].cookie \notin DOMAIN sessions

IInv ==
    /\ today \in DOMAIN Calendar
    /\ issued \in Nat
    /\ DOMAIN sessions \subseteq 1 .. issued
    /\ DOMAIN request = Tabs /\ DOMAIN answer = Tabs
    /\ cookie \in [Browsers -> Tokens]
    /\ \A token \in DOMAIN sessions : SessionInv(sessions[token])
    /\ \A t \in Tabs : TabInv(t)

\* No session that outlives a step has a decision changed.
DecisionsKept ==
    \A token \in DOMAIN sessions \cap DOMAIN sessions' :
        \A c \in DOMAIN sessions[token].viewer.decisions :
            /\ c \in DOMAIN sessions'[token].viewer.decisions
            /\ sessions'[token].viewer.decisions[c] = sessions[token].viewer.decisions[c]

LEMMA InitIInv == Init => IInv
<1>1. 1 \in DOMAIN Calendar
    BY CalendarAssumption
<1>2. QED
    BY <1>1 DEF Init, IInv, TabInv, Tokens

----------------------------------------------------------------------------
(* The server                                                              *)

\* A handler's step, given what it leaves in the store.
LEMMA HandlerIInv ==
    ASSUME IInv, NEW t \in Tabs, request[t] # NoRequest, NEW response, Respond(t, response),
           response.location # "/age-gate",
           issued' \in {issued, issued + 1}, DOMAIN sessions' \subseteq 1 .. issued',
           DOMAIN sessions' \subseteq DOMAIN sessions \cup {issued + 1},
           \/ response.cookie = NoCookie
           \/ response.cookie \in 1 .. issued' /\ request[t].cookie \notin DOMAIN sessions,
           \A token \in DOMAIN sessions' : SessionInv(sessions'[token])
    PROVE  IInv'
<1>1. UNCHANGED <<today, request, cookie>> /\ answer' = [answer EXCEPT ![t] = response]
    BY DEF Respond
<1>2. issued \in Nat /\ issued' \in Nat /\ Tokens \subseteq Tokens' /\ issued + 1 \notin Tokens
    BY CookieAssumption DEF IInv, Tokens
<1>3. response.cookie \in Tokens'
    BY DEF Tokens
<1>4. ASSUME NEW u \in Tabs PROVE TabInv(u)'
    BY <1>1, <1>2, <1>3, <1>4 DEF IInv, TabInv
<1>5. QED
    BY <1>1, <1>2, <1>4 DEF IInv, SessionInv

LEMMA EnsuredInv ==
    ASSUME IInv, NEW carried
    PROVE  /\ EnsuredToken(carried) \in DOMAIN Ensured(carried)
           /\ DOMAIN Ensured(carried) \subseteq
                  1 .. IF Creates(carried) THEN issued + 1 ELSE issued
           /\ \A token \in DOMAIN Ensured(carried) : SessionInv(Ensured(carried)[token])
           /\ DOMAIN sessions \subseteq DOMAIN Ensured(carried)
           /\ DOMAIN Ensured(carried) \subseteq DOMAIN sessions \cup {issued + 1}
           /\ \A token \in DOMAIN sessions : Ensured(carried)[token] = sessions[token]
<1>1. issued + 1 \notin DOMAIN sessions
    BY DEF IInv
<1>2. SessionInv(NewSession(NewToken))
    <2>1. today \in 1 .. today
        BY CalendarAssumption DEF IInv
    <2>2. IsViewer(Viewer(NewToken)!NewSession) /\ ~Viewer(NewToken)!NewSession.adult
        BY DEF Viewer!NewSession, IsViewer
    <2>3. QED
        BY <2>1, <2>2 DEF NewSession, SessionInv
<1>3. CASE Creates(carried)
    BY <1>1, <1>2, <1>3 DEF IInv, Ensured, EnsuredToken, NewToken
<1>4. CASE ~Creates(carried)
    BY <1>4 DEF IInv, Ensured, EnsuredToken, NewToken, Creates, Held
<1>5. QED
    BY <1>3, <1>4

\* What the gate's two routes answer with.
LEMMA GateResponse ==
    ASSUME IInv, NEW carried, NEW response,
           response = Redirect("/discover")
           \/ \E page \in {Page("/"), Redirect("/discover")} :
                 response = WithCookie(page, EnsuredToken(carried), Creates(carried))
    PROVE  /\ response.location # "/age-gate"
           /\ \/ response.cookie = NoCookie
              \/ /\ response.cookie = issued + 1 /\ Creates(carried)
                 /\ carried \notin DOMAIN sessions
BY DEF Redirect, Page, WithCookie, EnsuredToken, NewToken, Creates, Held

LEMMA GatePageKeeps ==
    ASSUME IInv, NEW t \in Tabs, AgeGatePage(t)
    PROVE  IInv' /\ DecisionsKept
<1> DEFINE carried == request[t].cookie
<1>1. sessions' = Ensured(carried) /\ issued' = IF Creates(carried) THEN issued + 1 ELSE issued
    BY DEF AgeGatePage
<1>2. PICK response :
          /\ Respond(t, response)
          /\ \/ response = Redirect("/discover")
             \/ response = WithCookie(Page("/"), EnsuredToken(carried), Creates(carried))
    BY DEF AgeGatePage
<1>3. /\ response.location # "/age-gate"
      /\ \/ response.cookie = NoCookie
         \/ response.cookie \in 1 .. issued' /\ carried \notin DOMAIN sessions
    BY <1>1, <1>2, GateResponse DEF IInv
<1>4. issued' \in {issued, issued + 1} /\ request[t] # NoRequest
    BY <1>1 DEF AgeGatePage, Asks
<1>5. QED
    BY <1>1, <1>2, <1>3, <1>4, EnsuredInv, HandlerIInv DEF DecisionsKept

LEMMA AcceptKeeps ==
    ASSUME IInv, NEW t \in Tabs, AcceptAgeGate(t)
    PROVE  IInv' /\ DecisionsKept
<1> DEFINE carried == request[t].cookie
           birth == request[t].form.field
           token == EnsuredToken(carried)
           ensured == Ensured(carried)
<1>1. /\ issued' = IF Creates(carried) THEN issued + 1 ELSE issued
      /\ issued' \in {issued, issued + 1} /\ request[t] # NoRequest
    BY DEF AcceptAgeGate, Asks
<1>2. PICK response :
          /\ Respond(t, response)
          /\ response.location # "/age-gate"
          /\ \/ response.cookie = NoCookie
             \/ response.cookie \in 1 .. issued' /\ carried \notin DOMAIN sessions
    <2>1. PICK response :
              /\ Respond(t, response)
              /\ \E page \in {Page("/"), Redirect("/discover")} :
                     response = WithCookie(page, token, Creates(carried))
        BY DEF AcceptAgeGate
    <2>2. QED
        BY <1>1, <2>1, GateResponse DEF IInv
<1>3. birth \in Dates
    BY BirthDateAssumption DEF AcceptAgeGate, Asks, IInv, TabInv, Dates
<1>4. CASE ~Accepts(ensured[token], birth)
    <2>1. sessions' = ensured
        BY <1>4 DEF AcceptAgeGate
    <2>2. QED
        BY <1>1, <1>2, <2>1, EnsuredInv, HandlerIInv DEF DecisionsKept
<1>5. CASE Accepts(ensured[token], birth)
    <2>1. sessions' = [ensured EXCEPT ![token].birthDate = birth, ![token].viewer.adult = TRUE]
        BY <1>5 DEF AcceptAgeGate
    <2>2. IsAdultOn(birth, ensured[token].today)
        BY <1>5 DEF Accepts
    <2> HIDE DEF ensured, token, birth
    <2>3. token \in DOMAIN ensured /\ SessionInv(ensured[token])
        BY EnsuredInv DEF ensured, token
    <2>4. /\ DOMAIN sessions' = DOMAIN ensured
          /\ \A other \in DOMAIN ensured : other # token => sessions'[other] = ensured[other]
          /\ sessions'[token] = [ensured[token] EXCEPT !.birthDate = birth, !.viewer.adult = TRUE]
        BY <2>1, <2>3
    <2>5. /\ SessionInv(sessions'[token])
          /\ sessions'[token].viewer.decisions = ensured[token].viewer.decisions
        BY <1>3, <2>2, <2>3, <2>4 DEF SessionInv, IsViewer
    <2>6. \A other \in DOMAIN sessions' : SessionInv(sessions'[other])
        BY <2>4, <2>5, EnsuredInv DEF ensured
    <2>7. /\ DOMAIN sessions' \subseteq 1 .. issued'
          /\ DOMAIN sessions' \subseteq DOMAIN sessions \cup {issued + 1}
        BY <1>1, <2>4, EnsuredInv DEF ensured
    <2>8. DecisionsKept
        BY <2>4, <2>5, EnsuredInv DEF ensured, DecisionsKept
    <2>9. QED
        BY <1>1, <1>2, <2>6, <2>7, <2>8, HandlerIInv
<1>6. QED
    BY <1>4, <1>5

\* A route that leaves the store as it is.
LEMMA QuietKeeps ==
    ASSUME IInv, NEW t \in Tabs, NEW response, Respond(t, response), request[t] # NoRequest,
           response.location # "/age-gate", response.cookie = NoCookie, KeepSessions
    PROVE  IInv' /\ DecisionsKept
<1>1. UNCHANGED <<sessions, issued, today>>
    BY DEF KeepSessions, Respond
<1>2. DOMAIN sessions' \subseteq 1 .. issued'
    BY <1>1 DEF IInv
<1>3. QED
    BY <1>1, <1>2, HandlerIInv DEF IInv, DecisionsKept

LEMMA SucceedsKeeps ==
    ASSUME IInv, NEW t \in Tabs, NEW route, NEW outcomes, NEW location,
           Succeeds(t, route, outcomes, location), location # "/age-gate",
           \A viewer \in outcomes : IsViewer(sessions[request[t].cookie].viewer) =>
                                       Continues(sessions[request[t].cookie].viewer, viewer)
    PROVE  IInv' /\ DecisionsKept
<1> DEFINE token == request[t].cookie
<1>1. PICK viewer \in outcomes : sessions' = [sessions EXCEPT ![token].viewer = viewer]
    BY DEF Succeeds
<1>2. /\ token \in DOMAIN sessions /\ request[t] # NoRequest
      /\ Respond(t, Redirect(location)) /\ issued' = issued
    BY DEF Succeeds, HasAdultSession, Held, Asks
<1>3. SessionInv(sessions[token]) /\ Continues(sessions[token].viewer, viewer)
    BY <1>2 DEF IInv, SessionInv
<1> HIDE DEF token
<1>4. /\ DOMAIN sessions' = DOMAIN sessions
      /\ \A other \in DOMAIN sessions : other # token => sessions'[other] = sessions[other]
      /\ sessions'[token] = [sessions[token] EXCEPT !.viewer = viewer]
    BY <1>1, <1>2
<1>5. SessionInv(sessions'[token]) /\ sessions'[token].viewer = viewer
    BY <1>3, <1>4 DEF SessionInv, Continues
<1>6. \A other \in DOMAIN sessions' : SessionInv(sessions'[other])
    BY <1>4, <1>5 DEF IInv
<1>7. DOMAIN sessions' \subseteq 1 .. issued'
    BY <1>2, <1>4 DEF IInv
<1>8. Redirect(location).location # "/age-gate" /\ Redirect(location).cookie = NoCookie
    BY DEF Redirect
<1>9. DecisionsKept
    BY <1>3, <1>4, <1>5 DEF DecisionsKept, Continues
<1>10. QED
    BY <1>2, <1>4, <1>6, <1>7, <1>8, <1>9, HandlerIInv

LEMMA QuietRoutesKeep ==
    ASSUME IInv, NEW t \in Tabs, NEW route, NEW location, location # "/age-gate",
           TurnedAway(t, route) \/ Fails(t, route, location)
    PROVE  IInv' /\ DecisionsKept
<1>1. PICK page \in {"/", location} :
          Respond(t, Redirect(page)) /\ KeepSessions /\ request[t] # NoRequest
    BY DEF TurnedAway, Fails, Asks
<1>2. Redirect(page).location # "/age-gate" /\ Redirect(page).cookie = NoCookie
    BY DEF Redirect
<1>3. QED
    BY <1>1, <1>2, QuietKeeps

LEMMA ShowPageKeeps ==
    ASSUME IInv, NEW t \in Tabs, NEW page \in Pages, ShowPage(t, page)
    PROVE  IInv' /\ DecisionsKept
<1>1. PICK response \in {Page(page), Redirect("/")} :
          Respond(t, response) /\ KeepSessions /\ request[t] # NoRequest
    BY DEF ShowPage, Asks
<1>2. response.location # "/age-gate" /\ response.cookie = NoCookie
    BY DEF Redirect, Page, Pages
<1>3. QED
    BY <1>1, <1>2, QuietKeeps

LEMMA ServeKeeps ==
    ASSUME IInv, NEW t \in Tabs, Serve(t)
    PROVE  IInv' /\ DecisionsKept
<1>1. CASE PassCandidate(t)
    BY <1>1, SucceedsKeeps, QuietRoutesKeep, PassContinues DEF PassCandidate, Swiper
<1>2. CASE ExpressInterest(t)
    BY <1>2, SucceedsKeeps, QuietRoutesKeep, InterestContinues DEF ExpressInterest, Swiper
<1>3. CASE ReportCandidate(t)
    BY <1>3, SucceedsKeeps, QuietRoutesKeep, ReportContinues DEF ReportCandidate, Swiper
<1>4. CASE VoteOnCase(t)
    BY <1>4, SucceedsKeeps, QuietRoutesKeep, CasesContinue DEF VoteOnCase, Swiper
<1>5. CASE AppealCase(t)
    BY <1>5, SucceedsKeeps, QuietRoutesKeep, CasesContinue DEF AppealCase, Swiper
<1>6. CASE AdjudicateCase(t)
    BY <1>6, SucceedsKeeps, QuietRoutesKeep, CasesContinue DEF AdjudicateCase, Swiper
<1>7. QED
    BY <1>1, <1>2, <1>3, <1>4, <1>5, <1>6, GatePageKeeps, AcceptKeeps, ShowPageKeeps DEF Serve

----------------------------------------------------------------------------
(* Everything else                                                         *)

LEMMA SubmitIInv ==
    ASSUME IInv, NEW t \in Tabs, NEW form \in Forms, Submit(t, form)
    PROVE  IInv'
<1>1. cookie[BrowserOf[t]] \in Tokens
    BY BrowserAssumption DEF IInv
<1>2. form.route = "/age-gate" => form.field \in BirthDates
    BY AddressAssumption DEF Forms, Pages, SwipeRoutes, CaseRoutes
<1>3. request' = [request EXCEPT ![t] = [form |-> form, cookie |-> cookie[BrowserOf[t]]]]
    BY DEF Submit
<1>4. UNCHANGED <<cookie, answer, today, sessions, issued>> /\ answer[t] = NoAnswer
    BY DEF Submit, KeepServer, IInv, TabInv
<1>5. ASSUME NEW u \in Tabs PROVE TabInv(u)'
    BY <1>1, <1>2, <1>3, <1>4 DEF IInv, TabInv, Tokens
<1>6. QED
    BY <1>3, <1>4, <1>5 DEF IInv, SessionInv, Tokens

LEMMA ReceiveIInv ==
    ASSUME IInv, NEW t \in Tabs, Receive(t)
    PROVE  IInv'
<1> DEFINE kept == IF answer[t].cookie = NoCookie THEN cookie[BrowserOf[t]] ELSE answer[t].cookie
           next == [form |-> [route |-> answer[t].location, field |-> NoField], cookie |-> kept]
<1>1. kept \in Tokens
    BY BrowserAssumption DEF Receive, IInv, TabInv
<1>2. next.form.route # "/age-gate" /\ next.cookie = kept
    BY DEF Receive, IInv, TabInv
<1>3. /\ cookie' = [cookie EXCEPT ![BrowserOf[t]] = kept]
      /\ request' = [request EXCEPT ![t] = IF answer[t].redirect THEN next ELSE NoRequest]
      /\ answer' = [answer EXCEPT ![t] = NoAnswer]
      /\ UNCHANGED <<today, sessions, issued>>
    BY DEF Receive, KeepServer
<1> HIDE DEF kept, next
<1>4. ASSUME NEW u \in Tabs PROVE TabInv(u)'
    BY <1>1, <1>2, <1>3 DEF IInv, TabInv, Tokens
<1>5. cookie' \in [Browsers -> Tokens']
    BY <1>1, <1>3 DEF IInv, Tokens
<1>6. QED
    BY <1>3, <1>4, <1>5 DEF IInv, SessionInv

LEMMA LoseIInv ==
    ASSUME IInv, NEW t \in Tabs, Lose(t)
    PROVE  IInv'
<1>1. /\ request' = [request EXCEPT ![t] = NoRequest]
      /\ answer' = [answer EXCEPT ![t] = NoAnswer]
      /\ UNCHANGED <<today, sessions, issued, cookie>>
    BY DEF Lose, KeepServer
<1>2. ASSUME NEW u \in Tabs PROVE TabInv(u)'
    BY <1>1 DEF IInv, TabInv, Tokens
<1>3. QED
    BY <1>1, <1>2 DEF IInv, SessionInv, Tokens

LEMMA RestartIInv ==
    ASSUME IInv, Restart
    PROVE  IInv'
BY DEF Restart, IInv, TabInv, Tokens

LEMMA NextDayIInv ==
    ASSUME IInv, NextDay
    PROVE  IInv'
<1>1. /\ today' = today + 1 /\ today' \in DOMAIN Calendar
      /\ UNCHANGED <<sessions, issued, cookie, request, answer>>
    BY CalendarAssumption DEF NextDay, IInv
<1>2. 1 .. today \subseteq 1 .. today'
    BY <1>1, CalendarAssumption DEF IInv
<1>3. ASSUME NEW token \in DOMAIN sessions PROVE SessionInv(sessions[token])'
    BY <1>1, <1>2 DEF IInv, SessionInv
<1>4. QED
    BY <1>1, <1>3 DEF IInv, TabInv, Tokens

LEMMA NextKeeps ==
    ASSUME IInv, [Next]_vars
    PROVE  IInv' /\ DecisionsKept
<1>1. ASSUME UNCHANGED sessions PROVE DecisionsKept
    BY <1>1 DEF DecisionsKept
<1>2. CASE UNCHANGED vars
    BY <1>1, <1>2 DEF vars, IInv, TabInv, SessionInv, Tokens
<1>3. ASSUME NEW t \in Tabs, NEW form \in Forms, Submit(t, form) PROVE IInv' /\ DecisionsKept
    BY <1>1, <1>3, SubmitIInv DEF Submit, KeepServer
<1>4. ASSUME NEW t \in Tabs, Receive(t) PROVE IInv' /\ DecisionsKept
    BY <1>1, <1>4, ReceiveIInv DEF Receive, KeepServer
<1>5. ASSUME NEW t \in Tabs, Lose(t) PROVE IInv' /\ DecisionsKept
    BY <1>1, <1>5, LoseIInv DEF Lose, KeepServer
<1>6. CASE Restart
    <2>1. DOMAIN sessions' = {}
        BY <1>6 DEF Restart
    <2>2. QED
        BY <1>6, <2>1, RestartIInv DEF DecisionsKept
<1>7. CASE NextDay
    BY <1>1, <1>7, NextDayIInv DEF NextDay
<1>8. QED
    BY <1>2, <1>3, <1>4, <1>5, <1>6, <1>7, ServeKeeps DEF Next

LEMMA AlwaysIInv == Spec => []IInv
<1>1. IInv /\ [Next]_vars => IInv'
    BY NextKeeps
<1>2. QED
    BY <1>1, InitIInv, PTL DEF Spec

----------------------------------------------------------------------------
(* Theorems                                                                *)

\* "adults 18+ only": every session whose gate is open is that of someone who has, today, had
\* eighteen anniversaries, for any calendar, any dates of birth and any number of browsers,
\* tabs, requests and restarts.
THEOREM OnlyAdults == Spec => []AdultsOnly
<1>1. ASSUME IInv, NEW token \in DOMAIN sessions, sessions[token].viewer.adult
      PROVE  Anniversaries(sessions[token].birthDate, Calendar[today]) >= 18
    <2>1. /\ sessions[token].birthDate \in Dates
          /\ IsAdultOn(sessions[token].birthDate, sessions[token].today)
        BY <1>1 DEF IInv, SessionInv
    <2>2. PICK i \in 1 .. today : sessions[token].today = Calendar[i]
        BY <1>1 DEF IInv, SessionInv
    <2>3. i \in DOMAIN Calendar /\ today \in DOMAIN Calendar /\ i <= today
        BY <1>1, CalendarAssumption DEF IInv
    <2>4. /\ Calendar[i] \in Dates /\ Calendar[today] \in Dates
          /\ IsDate(Calendar[today]) /\ OnOrBefore(Calendar[i], Calendar[today])
        BY <2>3, CalendarAssumption DEF Dates
    <2>5. QED
        BY <2>1, <2>2, <2>4, AdultForGood
<1>2. IInv => AdultsOnly
    BY <1>1 DEF AdultsOnly
<1>3. QED
    BY <1>2, AlwaysIInv, PTL

\* No request, in whatever order, number and company it is handled, changes or takes back a
\* decision of a session that is still there after it.
THEOREM FormsDecideOnce == Spec => DecisionsStand
<1>1. ASSUME IInv, [Next]_vars PROVE [DecisionsKept]_vars
    BY <1>1, NextKeeps
<1>2. DecisionsKept <=>
          \A token \in DOMAIN sessions \cap DOMAIN sessions' :
              \A c \in DOMAIN sessions[token].viewer.decisions :
                  /\ c \in DOMAIN sessions'[token].viewer.decisions
                  /\ sessions'[token].viewer.decisions[c] = sessions[token].viewer.decisions[c]
    BY DEF DecisionsKept
<1>3. QED
    BY <1>1, <1>2, AlwaysIInv, PTL DEF Spec, DecisionsStand

\* The cookies that a step replaces although their sessions are there, as in
\* CookieLostOnlyToRaces.
LostToRace(b) ==
    cookie[b] \in DOMAIN sessions /\ cookie'[b] # cookie[b] =>
        \E t \in Tabs :
            /\ BrowserOf[t] = b
            /\ answer[t] # NoAnswer /\ answer'[t] = NoAnswer
            /\ request[t].cookie # cookie[b]

\* A browser loses a session it holds only to an answer whose request went out without it: an
\* answer brings a cookie only if its request's named no session, and no later step gives that
\* cookie a session, as tokens are not handed out again.
THEOREM SessionsLostToRaces == Spec => CookieLostOnlyToRaces
<1>1. ASSUME IInv, Next, NEW b \in Browsers, cookie[b] \in DOMAIN sessions,
             cookie'[b] # cookie[b]
      PROVE  \E t \in Tabs :
                 /\ BrowserOf[t] = b
                 /\ answer[t] # NoAnswer /\ answer'[t] = NoAnswer
                 /\ request[t].cookie # cookie[b]
    <2>1. PICK t \in Tabs : Receive(t)
        BY <1>1
        DEF Next, Submit, KeepServer, Serve, AgeGatePage, AcceptAgeGate, ShowPage, PassCandidate,
            ExpressInterest, ReportCandidate, VoteOnCase, AppealCase, AdjudicateCase,
            TurnedAway, Succeeds, Fails, Respond, Lose, Restart, NextDay
    <2>2. BrowserOf[t] = b /\ answer[t].cookie # NoCookie
        BY <1>1, <2>1 DEF Receive, IInv
    <2>3. answer[t] # NoAnswer /\ answer'[t] = NoAnswer
        BY <1>1, <2>1 DEF Receive, IInv
    <2>4. request[t].cookie \notin DOMAIN sessions
        BY <1>1, <2>2, <2>3 DEF IInv, TabInv
    <2>5. QED
        BY <1>1, <2>2, <2>3, <2>4
<1>2. ASSUME IInv, [Next]_vars PROVE [\A b \in Browsers : LostToRace(b)]_vars
    BY <1>1, <1>2 DEF LostToRace
<1>3. (\A b \in Browsers : LostToRace(b)) <=>
          \A b \in Browsers :
              cookie[b] \in DOMAIN sessions /\ cookie'[b] # cookie[b] =>
                  \E t \in Tabs :
                      /\ BrowserOf[t] = b
                      /\ answer[t] # NoAnswer /\ answer'[t] = NoAnswer
                      /\ request[t].cookie # cookie[b]
    BY DEF LostToRace
<1>4. QED
    BY <1>2, <1>3, AlwaysIInv, PTL DEF Spec, CookieLostOnlyToRaces

============================================================================
