------------------------------- MODULE Session -------------------------------
(* The session of the web interface: ui/src/utils/restreamer.js (calls of the
   API, access and refresh token, Validate, Login, Logout), utils/api.js (the
   cache of answers) and RestreamerUI.js (which view is shown).
   JavaScript runs one piece of code at a time, from one await to the next. Every
   asynchronous function that is waiting for an answer is a task; an action is
   what runs when the answer of a task arrives. Answers arrive in any order, or
   fail. What the server says to a request is settled when it is sent.
   The state of the page is one record, which the functions of the code map to
   another one. Auth0 is left out (its client answers without the network), and
   the Core has a version the page is compatible with. *)
EXTENDS Naturals, FiniteSets

CONSTANTS
    Polls,    \* calls of the API the views make side by side
    Logouts,  \* bound: executions of handleLogout at the same time
    MaxBusy,  \* bound: tasks under way when another one is started
    Keys,     \* cache keys (path and options) that are asked for again in time
    KeyOf,    \* KeyOf[t][fn]: the key of a method of API that task t calls
    Failures  \* how a request fails: "network" or "failed" (an HTTP error)

ASSUME FailureAssumption == Failures \subseteq {"network", "failed"}
\* notify begins a logout while another one may be under way
ASSUME LogoutsAssumption == Logouts # {} /\ \A l \in Logouts : Logouts \ {l} # {}

VARIABLES
    auth, \* the Core requires a login
    page  \* the page: memory, local storage, view and tasks

vars == <<auth, page>>

Tasks == Polls \cup Logouts \cup {"timer", "mount", "login"}
Credentials == {"none", "live", "dead"}
Errors == {"unauthorized", "network", "failed"}
Answers == {"ok", "anonymous"} \cup Errors

ASSUME NamesAssumption == /\ Polls \cap Logouts = {}
                          /\ {"timer", "mount", "login"} \cap (Polls \cup Logouts) = {}
\* only answers of GET are kept (api.js:20-42), and a login is a POST
ASSUME KeysAssumption == \A t \in Tasks : KeyOf[t]["login"] \notin Keys

Fns == {"idle", "call", "login", "about", "refresh"}
Phases == {"first", "refresh", "retry"}

\* fn: the method of API that is called; phase: where _call is; sent: the
\* credential of the request, or its answer if the cache has it; had: there was
\* a refresh token when Validate began
Idle == [fn |-> "idle", phase |-> "first", sent |-> "none", had |-> FALSE]
NewClient == [valid |-> FALSE, requiresLogin |-> TRUE, connected |-> FALSE]
NewView == [initialized |-> FALSE, valid |-> FALSE, connected |-> FALSE]
NoCache == [k \in Keys |-> "none"]

Task == [fn : Fns, phase : Phases, sent : Credentials \cup Answers, had : BOOLEAN]
Page == [access : Credentials, refresh : Credentials, armed : BOOLEAN, ignoring : BOOLEAN,
         client : [valid : BOOLEAN, requiresLogin : BOOLEAN, connected : BOOLEAN],
         view : [initialized : BOOLEAN, valid : BOOLEAN, connected : BOOLEAN],
         cache : [Keys -> Answers \cup {"none"}], task : [Tasks -> Task]]

\* Every part of the page keeps its type (restreamer.js:89-107, RestreamerUI.js:41-72).
TypeOK == auth \in BOOLEAN /\ page \in Page

-----------------------------------------------------------------------------
(* Functions on the page *)

\* what a request carries: a GET that was answered less than 950 ms ago has that answer
Carries(p, t, fn) ==
    CASE fn = "login" -> "none"
      [] KeyOf[t][fn] \in Keys /\ p.cache[KeyOf[t][fn]] # "none" -> p.cache[KeyOf[t][fn]]
      [] fn = "refresh" -> p.refresh
      [] OTHER -> p.access

WithTask(p, t, task) == [p EXCEPT !.task = [p.task EXCEPT ![t] = task]]

Send(p, t, fn, phase) ==
    WithTask(p, t, [fn |-> IF phase = "refresh" THEN p.task[t].fn ELSE fn, phase |-> phase,
                    sent |-> Carries(p, t, fn), had |-> p.task[t].had])

Done(p, t) == WithTask(p, t, Idle)

\* mutant: SetToken does not empty the cache
SetAccessToken_KeepsCache(p, token) ==
    [p EXCEPT !.access = token, !.armed = IF token = "none" THEN @ ELSE TRUE]

SetAccessToken(p, token) ==
    [p EXCEPT !.access = token, !.cache = NoCache,
              !.armed = IF token = "none" THEN p.armed ELSE TRUE]

\* mutant: the refresh token is emptied, not removed
Logout_EmptyToken(p) == [SetAccessToken(p, "none") EXCEPT !.armed = FALSE, !.refresh = ""]

Logout(p) == [SetAccessToken(p, "none") EXCEPT !.armed = FALSE, !.refresh = "none"]

Reset(p) == [p EXCEPT !.client = NewClient, !.ignoring = FALSE]

IsConnected(p) == p.client.valid /\ (~p.client.requiresLogin \/ p.client.connected)

\* handleLogout up to the answer of About
HandleLogout(p, l) ==
    Send([Reset(Logout(p)) EXCEPT !.view = NewView], l, "about", "first")

\* one that is not running; beyond the bound one under way begins again
Slot(p, t) ==
    IF \E l \in Logouts : p.task[l] = Idle THEN CHOOSE l \in Logouts : p.task[l] = Idle
    ELSE CHOOSE l \in Logouts \ {t} : TRUE

\* the listener has the state of the first rendering
NetworkEvent(p) == [p EXCEPT !.view = [NewView EXCEPT !.initialized = TRUE]]
AuthEvent(p, t) == HandleLogout(p, Slot(p, t))

\* RefreshToken reports that it failed, after _call reported a refusal (its report of
\* a network error is undone by the logout).
RefreshFailed(p, t, answer) ==
    AuthEvent(IF answer = "unauthorized" /\ ~p.ignoring THEN AuthEvent(p, t) ELSE p, t)
\* and once more the call that asked for the refresh
CallRefused(p, t, answer) ==
    LET q == RefreshFailed(p, t, answer) IN IF p.task[t].fn = "login" THEN q ELSE AuthEvent(q, t)

\* mutant: initialized is not set again
ShowValidated_Hidden(p, t, valid) ==
    Done([p EXCEPT !.view.valid = valid, !.view.connected = IsConnected(p)], t)

\* the last setState of handleMount, handleLogout and handleLogin
ShowValidated(p, t, valid) ==
    Done([p EXCEPT !.view = [initialized |-> TRUE, valid |-> valid,
                             connected |-> IsConnected(p)]], t)
ShowLoggedIn(p, connected) ==
    Done([p EXCEPT !.view = [initialized |-> TRUE, valid |-> TRUE,
                             connected |-> connected]], "login")

\* Validate and Login after the answer of About; _init is one call
Validated(p, t, answer) ==
    LET q == [p EXCEPT !.client =
                 [valid |-> TRUE,
                  requiresLogin |-> ~(answer = "ok" /\ ~p.task[t].had),
                  connected |-> p.client.connected \/ (answer = "ok" /\ p.task[t].had)]]
    IN CASE answer \in Errors -> ShowValidated(p, t, FALSE)
         [] answer \notin Errors /\ IsConnected(q) -> Send(q, t, "call", "first")
         [] OTHER -> ShowValidated(q, t, TRUE)

LoggedIn(p, answer) ==
    IF answer = "ok" THEN Send([p EXCEPT !.client = [p.client EXCEPT !.connected = TRUE]], "login", "call", "first")
    ELSE ShowLoggedIn(p, FALSE)

\* what follows the call of a task that returned
Continue(p, t, ok) ==
    CASE t \in Polls \cup {"timer"} -> Done(p, t)
      [] t \in Logouts \cup {"mount"} -> ShowValidated(p, t, TRUE)
      [] t = "login" /\ p.task[t].fn = "call" -> ShowLoggedIn(p, TRUE)
      [] t = "login" /\ p.task[t].fn = "login" /\ ok ->
           Send([SetAccessToken(p, "live") EXCEPT !.refresh = "live"], t, "about", "first")
      [] OTHER -> ShowLoggedIn(p, FALSE)

\* the answer is stored unless it comes from the cache
Store(p, t, fn, answer) ==
    IF KeyOf[t][fn] \in Keys /\ p.task[t].sent \notin Answers
    THEN [p EXCEPT !.cache = [p.cache EXCEPT ![KeyOf[t][fn]] = answer]] ELSE p

-----------------------------------------------------------------------------
(* Answers *)

Possible(fn, sent) ==
    IF sent \in Answers THEN {sent}
    ELSE Failures \cup
         CASE fn = "about" -> IF sent = "live" \/ ~auth THEN {"ok"} ELSE {"anonymous"}
           [] fn = "login" -> {"ok", "unauthorized"}
           [] OTHER -> IF sent = "live" \/ ~auth THEN {"ok"} ELSE {"unauthorized"}

Waiting(t, fn, phase) == page.task[t].fn = fn /\ page.task[t].phase = phase

\* the answer of the first attempt of a call
CallAnswered(t, fn) ==
    /\ Waiting(t, fn, "first")
    /\ \E answer \in Possible(fn, page.task[t].sent) :
        LET p == Store(page, t, fn, answer) IN
        \/ answer = "ok" /\ page' = Continue(p, t, TRUE)
        \/ /\ answer = "failed" \/ (answer \in Errors /\ page.ignoring)
           /\ page' = Continue(p, t, FALSE)
        \/ /\ answer = "network" /\ ~page.ignoring
           /\ page' = Continue(NetworkEvent(p), t, FALSE)
        \/ /\ answer = "unauthorized" /\ ~page.ignoring
           /\ \/ page.client.requiresLogin /\ page.refresh # "none"
                 /\ page' = Send(p, t, "refresh", "refresh")
              \/ ~page.client.requiresLogin /\ page' = Send(p, t, fn, "retry")
              \/ /\ page.client.requiresLogin /\ page.refresh = "none"
                 /\ \/ fn = "login" /\ page' = Continue(p, t, FALSE)
                    \/ fn # "login" /\ page' = Continue(AuthEvent(p, t), t, FALSE)
    /\ UNCHANGED auth

\* mutant: a refresh that failed is not reported
RefreshedForCall_Silent(t) ==
    /\ page.task[t].phase = "refresh"
    /\ \E answer \in Possible("refresh", page.task[t].sent) :
        LET p == Store(page, t, "refresh", answer) IN
        \/ /\ answer = "ok"
           /\ page' = Send(SetAccessToken(p, "live"), t, page.task[t].fn, "retry")
        \/ answer # "ok" /\ page' = Continue(p, t, FALSE)
    /\ UNCHANGED auth

\* mutant: the second attempt is sent with the old token
RefreshedForCall_OldToken(t) ==
    /\ page.task[t].phase = "refresh"
    /\ \E answer \in Possible("refresh", page.task[t].sent) :
        LET p == Store(page, t, "refresh", answer) IN
        \/ /\ answer = "ok"
           /\ page' = SetAccessToken(Send(p, t, page.task[t].fn, "retry"), "live")
        \/ answer # "ok" /\ page' = Continue(CallRefused(p, t, answer), t, FALSE)
    /\ UNCHANGED auth

\* RefreshToken within _call returned
RefreshedForCall(t) ==
    /\ page.task[t].phase = "refresh"
    /\ \E answer \in Possible("refresh", page.task[t].sent) :
        LET p == Store(page, t, "refresh", answer) IN
        \/ /\ answer = "ok"
           /\ page' = Send(SetAccessToken(p, "live"), t, page.task[t].fn, "retry")
        \/ answer # "ok" /\ page' = Continue(CallRefused(p, t, answer), t, FALSE)
    /\ UNCHANGED auth

\* the second attempt; it looks for a field "status" the errors do not have, so
\* only 401 is dispatched
RetryAnswered(t) ==
    /\ page.task[t].phase = "retry"
    /\ \E answer \in Possible(page.task[t].fn, page.task[t].sent) :
        LET p == Store(page, t, page.task[t].fn, answer) IN
        \/ answer # "unauthorized" /\ page' = Continue(p, t, answer = "ok")
        \/ answer = "unauthorized" /\ page' = Continue(AuthEvent(p, t), t, FALSE)
    /\ UNCHANGED auth

\* RefreshToken of the timer and of Validate
RefreshAnswered(t) ==
    /\ Waiting(t, "refresh", "first")
    /\ \E answer \in Possible("refresh", page.task[t].sent) :
        LET p == Store(page, t, "refresh", answer)
            Then(q) == IF t = "timer" THEN Done(q, t) ELSE Send(q, t, "about", "first")
        IN \/ answer = "ok" /\ page' = Then(SetAccessToken(p, "live"))
           \/ answer # "ok" /\ page' = Then(RefreshFailed(p, t, answer))
    /\ UNCHANGED auth

AboutAnswered(t) ==
    /\ Waiting(t, "about", "first")
    /\ \E answer \in Possible("about", page.task[t].sent) :
        LET s == Store(page, t, "about", answer)
            p == IF answer = "network" /\ ~page.ignoring THEN NetworkEvent(s) ELSE s
        IN page' = IF t = "login" THEN LoggedIn(p, answer) ELSE Validated(p, t, answer)
    /\ UNCHANGED auth

-----------------------------------------------------------------------------
(* The user, timers and the server *)

Routed(p) == p.view.initialized /\ p.view.valid /\ p.view.connected
LoginShown(p) == p.view.initialized /\ p.view.valid /\ ~p.view.connected

Room == Cardinality({t \in Tasks : page.task[t] # Idle}) < MaxBusy

\* a view or an interval calls the API
Poll(t) ==
    /\ Routed(page) /\ page.task[t] = Idle /\ Room
    /\ page' = Send(page, t, "call", "first")
    /\ UNCHANGED auth

\* the timer of _setTokenRefresh
RefreshTimer ==
    /\ page.armed /\ page.task["timer"] = Idle /\ Room
    /\ LET p == [page EXCEPT !.armed = FALSE] IN
       page' = IF page.client.requiresLogin /\ page.refresh # "none"
               THEN Send(p, "timer", "refresh", "first") ELSE p
    /\ UNCHANGED auth

UserLogin ==
    /\ LoginShown(page) /\ page.task["login"] = Idle /\ Room
    /\ page' = Send(page, "login", IF page.client.requiresLogin THEN "login" ELSE "call", "first")
    /\ UNCHANGED auth

UserLogout ==
    /\ Routed(page) /\ Room
    /\ page' = HandleLogout(page, Slot(page, "login"))
    /\ UNCHANGED auth

Mount(p) ==
    [access |-> "none", refresh |-> p.refresh, armed |-> FALSE, ignoring |-> FALSE,
     client |-> NewClient, view |-> NewView, cache |-> NoCache,
     task |-> [[t \in Tasks |-> Idle] EXCEPT !["mount"] =
                 [fn |-> IF p.refresh = "none" THEN "about" ELSE "refresh",
                  phase |-> "first", sent |-> p.refresh, had |-> p.refresh # "none"]]]

\* the page is loaded again: only the local storage is left
Reload == page' = Mount(page) /\ UNCHANGED auth

\* InstallLatestUpdate ignores errors of the API while it waits, which it begins
\* after two calls that succeeded
UpdateBegin == Routed(page) /\ ~page.ignoring /\ (auth => page.access = "live")
               /\ page' = [page EXCEPT !.ignoring = TRUE] /\ UNCHANGED auth
UpdateEnd == page.ignoring /\ page' = [page EXCEPT !.ignoring = FALSE] /\ UNCHANGED auth

\* an entry of the cache is older than 950 ms
CacheAges(k) ==
    /\ page.cache[k] # "none"
    /\ page' = [page EXCEPT !.cache = [page.cache EXCEPT ![k] = "none"]] /\ UNCHANGED auth

AccessExpires == page.access = "live"
                 /\ page' = [page EXCEPT !.access = "dead"] /\ UNCHANGED auth
RefreshExpires == page.refresh = "live"
                  /\ page' = [page EXCEPT !.refresh = "dead"] /\ UNCHANGED auth

Init ==
    /\ auth \in BOOLEAN
    /\ \E stored \in Credentials : page = Mount([refresh |-> stored])

Answered(t) ==
    \/ \E fn \in {"call", "login"} : CallAnswered(t, fn)
    \/ RefreshedForCall(t) \/ RetryAnswered(t) \/ RefreshAnswered(t) \/ AboutAnswered(t)

Next ==
    \/ \E t \in Tasks : Answered(t)
    \/ \E t \in Polls : Poll(t)
    \/ RefreshTimer \/ UserLogin \/ UserLogout \/ Reload
    \/ UpdateBegin \/ UpdateEnd
    \/ \E k \in Keys : CacheAges(k)
    \/ AccessExpires \/ RefreshExpires

Spec == Init /\ [][Next]_vars

\* Requests are answered or fail, the views poll as long as they are shown,
\* InstallLatestUpdate gives up after 900 s and answers in the cache grow old.
Fairness ==
    /\ \A t \in Tasks : WF_vars(Answered(t))
    /\ \A t \in Polls : SF_vars(Poll(t))
    /\ \A k \in Keys : WF_vars(CacheAges(k))
    /\ WF_vars(UpdateEnd)

FairSpec == Spec /\ Fairness

-----------------------------------------------------------------------------
(* Properties *)

\* restreamer.js:331-338: a page never takes a Core that requires a login for an
\* open one (it would not refresh tokens any more), although answers of About
\* and of refreshes from before a logout arrive after it.
RequiresLoginKept == auth => page.client.requiresLogin

\* restreamer.js:265-291: a session the Core still accepts is given up only when
\* the user says so or a refresh of the token or a login failed, never for calls
\* that were refused with the access token before.
StaysLoggedIn ==
    [][page.refresh = "live" /\ page'.refresh = "none" =>
        \/ \E t \in Tasks : /\ page'.task[t] # page.task[t]
                            /\ \/ "refresh" \in {page.task[t].fn, page.task[t].phase}
                               \/ page.task[t].fn = "login"
        \/ UserLogout]_vars

\* RestreamerUI.js:89-103: a page without a session does not go on showing the
\* views that need one.
LeavesRouter ==
    (Routed(page) /\ auth /\ page.access # "live" /\ page.refresh # "live")
      ~> (~Routed(page) \/ page.access = "live" \/ page.refresh = "live")

\* RestreamerUI.js:267-291: every start and every logout, also one that errors
\* begin, leads to a view the user can act in, unless the page is loaded again
\* and again.
ShowsAView == []<>page.view.initialized \/ []<><<Reload>>_vars
=============================================================================
