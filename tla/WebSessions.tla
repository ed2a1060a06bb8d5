---------------------------- MODULE WebSessions ----------------------------
(***************************************************************************)
(* The web application, src/src/swipe_dating/web/app.py: browsers, the     *)
(* process-local store of their sessions, and the requests in between.     *)
(*                                                                         *)
(* A browser holds one cookie and may have several tabs, each with at most *)
(* one request under way.  A request carries the cookie the browser had    *)
(* when it was sent.  Handlers await nothing, so each is one step of the   *)
(* server; requests of different tabs are handled, and answered, in any    *)
(* order, and either may be lost on the way.  A browser follows redirects  *)
(* by itself, with the cookie it then holds.  The process may restart, and *)
(* the calendar moves on.  What a route does to a session is what          *)
(* ViewerSession promises of it.                                           *)
(***************************************************************************)
EXTENDS AdultBoundary, Sequences

CONSTANTS
    Browsers, Tabs,
    BrowserOf,       \* Tabs -> Browsers
    Calendar,        \* the days of a run, in order
    Addresses,       \* pages that users open by themselves
    BirthDates,      \* what users enter at the gate
    NoCookie, NoField, NoRequest, NoAnswer,
    Profiles, OtherIds, Reciprocal, ContainedAtOnce, Truth,
    MaxRequests,     \* bound on what users send, redirects not counted
    MaxRestarts      \* bound on the restarts of the process

Pages == {"/", "/discover", "/community", "/matches"}

ASSUME BrowserAssumption == BrowserOf \in [Tabs -> Browsers]
ASSUME CookieAssumption == NoCookie \notin Nat
ASSUME AddressAssumption == Addresses \subseteq Pages

\* What a form sends has the shape of a date; parse_date_only refuses any other text.
ASSUME BirthDateAssumption == BirthDates \subseteq Nat \X Nat \X Nat

ASSUME CalendarAssumption ==
    /\ Calendar \in Seq(Nat \X Nat \X Nat) /\ Calendar # <<>>
    /\ \A i \in DOMAIN Calendar : IsDate(Calendar[i])
    /\ \A i \in DOMAIN Calendar, j \in DOMAIN Calendar :
           i <= j => OnOrBefore(Calendar[i], Calendar[j])

VARIABLES
    today,     \* index in Calendar of the server's current day
    sessions,  \* BrowserSessionStore._sessions: token -> session
    issued,    \* tokens handed out so far: secrets.token_urlsafe does not repeat itself
    cookie,    \* browser -> the token in its cookie jar, or NoCookie
    request,   \* tab -> the request it waits for, or NoRequest
    answer,    \* tab -> the response on its way back, or NoAnswer
    sent, restarts

vars == <<today, sessions, issued, cookie, request, answer, sent, restarts>>

\* The research session held under a token.
Viewer(token) == INSTANCE ViewerSession WITH session <- sessions[token].viewer

SwipeRoutes == {"/discover/pass", "/discover/interest", "/discover/report"}
CaseRoutes == {"/community/vote", "/community/appeal", "/community/adjudicate"}

Forms ==
    [route : Addresses, field : {NoField}]
    \cup [route : {"/age-gate"}, field : BirthDates]
    \cup [route : SwipeRoutes \cup CaseRoutes, field : Profiles \cup OtherIds]

Init ==
    /\ today = 1
    /\ sessions = [token \in {} |-> NoField]
    /\ issued = 0
    /\ cookie = [b \in Browsers |-> NoCookie]
    /\ request = [t \in Tabs |-> NoRequest]
    /\ answer = [t \in Tabs |-> NoAnswer]
    /\ sent = 0
    /\ restarts = 0

----------------------------------------------------------------------------
(* Responses                                                               *)

\* What pages and redirects say (notice, error) is left out.
Page(location) == [location |-> location, redirect |-> FALSE, cookie |-> NoCookie]

Redirect(location) == [location |-> location, redirect |-> TRUE, cookie |-> NoCookie]

\* _set_session_cookie, for a session the request has just created.
WithCookie(response, token, created) ==
    IF created THEN [response EXCEPT !.cookie = token] ELSE response

----------------------------------------------------------------------------
(* The store                                                               *)

\* BrowserSessionStore.get
Held(token) == token \in DOMAIN sessions

NewToken == issued + 1

\* BrowserSessionStore.create: the session keeps the date of its creation for good.
NewSession(token) ==
    [today |-> Calendar[today], birthDate |-> NoField, viewer |-> Viewer(token)!NewSession]

\* Fault: every visit of the gate starts afresh.
AlwaysCreates(carried) == TRUE

\* _ensure_session creates one unless the cookie names one.
Creates(carried) == ~Held(carried)

EnsuredToken(carried) == IF Creates(carried) THEN NewToken ELSE carried

Ensured(carried) ==
    [token \in DOMAIN sessions \cup {EnsuredToken(carried)} |->
        IF Creates(carried) /\ token = NewToken THEN NewSession(token) ELSE sessions[token]]

\* _adult_session
HasAdultSession(carried) == Held(carried) /\ sessions[carried].viewer.adult

----------------------------------------------------------------------------
(* The gate                                                                *)

Asks(t, route) ==
    /\ request[t] # NoRequest /\ answer[t] = NoAnswer
    /\ request[t].form.route = route

Respond(t, response) ==
    /\ answer' = [answer EXCEPT ![t] = response]
    /\ UNCHANGED <<today, cookie, request, sent, restarts>>

\* Fault: any known browser is sent on, adult or not.
SentOnWhenKnown(session, created) == ~created

\* Who need not see the gate again.
SentOn(session, created) == session.viewer.adult

\* GET /
AgeGatePage(t) ==
    LET carried == request[t].cookie
        token == EnsuredToken(carried)
        created == Creates(carried)
    IN  /\ Asks(t, "/")
        /\ sessions' = Ensured(carried)
        /\ issued' = IF created THEN issued + 1 ELSE issued
        /\ Respond(t, IF SentOn(Ensured(carried)[token], created)
                      THEN Redirect("/discover")
                      ELSE WithCookie(Page("/"), token, created))

\* accept_adult_gate asks about the day the session was created on.
Accepts(session, birth) == IsDate(birth) /\ IsAdultOn(birth, session.today)

\* POST /age-gate
AcceptAgeGate(t) ==
    LET carried == request[t].cookie
        birth == request[t].form.field
        token == EnsuredToken(carried)
        created == Creates(carried)
    IN  /\ Asks(t, "/age-gate")
        /\ issued' = IF created THEN issued + 1 ELSE issued
        /\ IF Accepts(Ensured(carried)[token], birth)
           THEN /\ sessions' = [Ensured(carried) EXCEPT ![token].birthDate = birth,
                                                        ![token].viewer.adult = TRUE]
                /\ Respond(t, WithCookie(Redirect("/discover"), token, created))
           ELSE /\ sessions' = Ensured(carried)
                /\ Respond(t, WithCookie(Page("/"), token, created))

----------------------------------------------------------------------------
(* Behind the gate                                                         *)

KeepSessions == UNCHANGED <<sessions, issued>>

\* GET /discover, /community and /matches
ShowPage(t, page) ==
    /\ Asks(t, page)
    /\ Respond(t, IF HasAdultSession(request[t].cookie) THEN Page(page) ELSE Redirect("/"))
    /\ KeepSessions

\* A POST route without an adult's session leads back to the gate.
TurnedAway(t, route) ==
    /\ Asks(t, route)
    /\ ~HasAdultSession(request[t].cookie)
    /\ Respond(t, Redirect("/"))
    /\ KeepSessions

\* A POST route that leaves the session in one of outcomes, and redirects.
Succeeds(t, route, outcomes, location) ==
    /\ Asks(t, route)
    /\ HasAdultSession(request[t].cookie)
    /\ \E viewer \in outcomes : sessions' = [sessions EXCEPT ![request[t].cookie].viewer = viewer]
    /\ Respond(t, Redirect(location))
    /\ UNCHANGED issued

\* A POST route that raises DomainError, or ValueError for a reason or choice it does not know.
Fails(t, route, location) ==
    /\ Asks(t, route)
    /\ HasAdultSession(request[t].cookie)
    /\ Respond(t, Redirect(location))
    /\ KeepSessions

Swiper(t) == request[t].cookie

\* The profile a form names; a case is named by its subject.
Target(t) == request[t].form.field

PassCandidate(t) ==
    \/ TurnedAway(t, "/discover/pass")
    \/ Succeeds(t, "/discover/pass", Viewer(Swiper(t))!Passed(Target(t)), "/discover")
    \/ Fails(t, "/discover/pass", "/discover") /\ Viewer(Swiper(t))!Passed(Target(t)) = {}

ExpressInterest(t) ==
    LET matched == Target(t) \in Reciprocal
    IN  \/ TurnedAway(t, "/discover/interest")
        \/ Succeeds(t, "/discover/interest", Viewer(Swiper(t))!Interested(Target(t)),
                    IF matched THEN "/matches" ELSE "/discover")
        \/ /\ Fails(t, "/discover/interest", "/discover")
           /\ Viewer(Swiper(t))!Interested(Target(t)) = {}

\* A report also fails beyond the report limit, and the routes of a case whenever its status
\* or the chosen reviewer does not allow it.
ReportCandidate(t) ==
    \/ TurnedAway(t, "/discover/report")
    \/ Succeeds(t, "/discover/report", Viewer(Swiper(t))!Reported(Target(t)), "/community")
    \/ Fails(t, "/discover/report", "/discover")

VoteOnCase(t) ==
    \/ TurnedAway(t, "/community/vote")
    \/ Succeeds(t, "/community/vote", Viewer(Swiper(t))!Voted(Target(t)), "/community")
    \/ Fails(t, "/community/vote", "/community")

AppealCase(t) ==
    \/ TurnedAway(t, "/community/appeal")
    \/ Succeeds(t, "/community/appeal", Viewer(Swiper(t))!Appealed(Target(t)), "/community")
    \/ Fails(t, "/community/appeal", "/community")

AdjudicateCase(t) ==
    \/ TurnedAway(t, "/community/adjudicate")
    \/ Succeeds(t, "/community/adjudicate", Viewer(Swiper(t))!Adjudicated(Target(t)),
                "/community")
    \/ Fails(t, "/community/adjudicate", "/community")

Serve(t) ==
    \/ AgeGatePage(t) \/ AcceptAgeGate(t)
    \/ \E page \in Pages \ {"/"} : ShowPage(t, page)
    \/ PassCandidate(t) \/ ExpressInterest(t) \/ ReportCandidate(t)
    \/ VoteOnCase(t) \/ AppealCase(t) \/ AdjudicateCase(t)

----------------------------------------------------------------------------
(* Browsers, the network, the process and the calendar                     *)

KeepServer == UNCHANGED <<today, sessions, issued, restarts>>

Submit(t, form) ==
    /\ request[t] = NoRequest
    /\ sent < MaxRequests
    /\ sent' = sent + 1
    /\ request' = [request EXCEPT ![t] = [form |-> form, cookie |-> cookie[BrowserOf[t]]]]
    /\ UNCHANGED <<cookie, answer>> /\ KeepServer

\* The response arrives: its cookie is kept, its redirect followed, its page shown.
Receive(t) ==
    LET b == BrowserOf[t]
        kept == IF answer[t].cookie = NoCookie THEN cookie[b] ELSE answer[t].cookie
        next == [form |-> [route |-> answer[t].location, field |-> NoField], cookie |-> kept]
    IN  /\ answer[t] # NoAnswer
        /\ cookie' = [cookie EXCEPT ![b] = kept]
        /\ request' = [request EXCEPT ![t] = IF answer[t].redirect THEN next ELSE NoRequest]
        /\ answer' = [answer EXCEPT ![t] = NoAnswer]
        /\ UNCHANGED sent /\ KeepServer

\* The request, or the response after the handler has run, is lost; the tab shows an error.
Lose(t) ==
    /\ request[t] # NoRequest
    /\ request' = [request EXCEPT ![t] = NoRequest]
    /\ answer' = [answer EXCEPT ![t] = NoAnswer]
    /\ UNCHANGED <<cookie, sent>> /\ KeepServer

\* The store is a dictionary in the process.
Restart ==
    /\ restarts < MaxRestarts
    /\ restarts' = restarts + 1
    /\ sessions' = [token \in {} |-> NoField]
    /\ UNCHANGED <<today, issued, cookie, request, answer, sent>>

NextDay ==
    /\ today < Len(Calendar)
    /\ today' = today + 1
    /\ UNCHANGED <<sessions, issued, cookie, request, answer, sent, restarts>>

Next ==
    \/ \E t \in Tabs, form \in Forms : Submit(t, form)
    \/ \E t \in Tabs : Serve(t) \/ Receive(t) \/ Lose(t)
    \/ Restart
    \/ NextDay

\* The server's loop gets to every request and a browser to every response; users, losses,
\* restarts and the calendar owe nothing.
Fairness == \A t \in Tabs : WF_vars(Serve(t) \/ Receive(t))

Spec == Init /\ [][Next]_vars /\ Fairness

----------------------------------------------------------------------------
(* Properties                                                              *)

\* "adults 18+ only" (MISSION.md): the birth date behind every accepted gate is, today, that of
\* someone who has had eighteen anniversaries, February 29 being marked on the last of February,
\* whichever process, day and tab the gate was passed in.
Anniversaries(birth, day) ==
    LET marked == IF birth[2] = 2 /\ birth[3] = 29 THEN DaysIn(day[1], 2) ELSE birth[3]
        reached == day[2] > birth[2] \/ (day[2] = birth[2] /\ day[3] >= marked)
    IN  (day[1] - birth[1]) - (IF reached THEN 0 ELSE 1)

AdultsOnly ==
    \A token \in DOMAIN sessions :
        sessions[token].viewer.adult =>
            Anniversaries(sessions[token].birthDate, Calendar[today]) >= 18

\* A browser loses the session it holds, with all that was decided in it, only when an answer
\* comes in to a request that was sent before it had that session's cookie.
CookieLostOnlyToRaces ==
    [][\A b \in Browsers :
          cookie[b] \in DOMAIN sessions /\ cookie'[b] # cookie[b] =>
              \E t \in Tabs :
                  /\ BrowserOf[t] = b
                  /\ answer[t] # NoAnswer /\ answer'[t] = NoAnswer
                  /\ request[t].cookie # cookie[b]]_vars

\* A form sent twice, from two tabs or again after its answer was lost, does not change what the
\* first one decided: no route takes a decision back.
DecisionsStand ==
    [][\A token \in DOMAIN sessions \cap DOMAIN sessions' :
          \A c \in DOMAIN sessions[token].viewer.decisions :
              /\ c \in DOMAIN sessions'[token].viewer.decisions
              /\ sessions'[token].viewer.decisions[c] = sessions[token].viewer.decisions[c]]_vars

\* Every request ends in a page or an error: the gate and the pages behind it, which redirect
\* to each other, never send a browser in circles, whatever its cookie has become.
RequestsEnd == \A t \in Tabs : (request[t] # NoRequest) ~> (request[t] = NoRequest)

\* "exact calendar-date behavior" (MISSION.md): whoever is 18 on the day of the request is let in,
\* not told "You must be at least 18 years old to continue."  The code asks about the day the
\* session was created on.
AdultsAreLetIn ==
    [][\A t \in Tabs :
          /\ answer[t] = NoAnswer /\ answer'[t] # NoAnswer
          /\ request[t].form.route = "/age-gate"
          /\ IsAdultOn(request[t].form.field, Calendar[today])
          => answer'[t].location = "/discover"]_vars

============================================================================
