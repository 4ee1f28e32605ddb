---------------------------- MODULE Session_proof ----------------------------
(* Theorems about Session, for every number of views that poll and of logouts
   under way, for every choice of what the cache keeps and of what fails. *)
EXTENDS Session, TLAPS

-----------------------------------------------------------------------------
(* The invariant *)

\* A task: About is asked once; only calls and logins are tried again; whoever
\* refreshes in Validate had a token; a second attempt carries the token the
\* refresh has just brought; About of a page without a session carries none.
GoodTasks(t) ==
    {task \in Task :
        /\ task.fn = "about" => task.phase = "first"
        /\ task.phase = "refresh" => task.fn \in {"call", "login"}
        /\ task.fn = "refresh" /\ t # "timer" => task.had = TRUE
        /\ task.phase = "retry" /\ task.fn # "login" =>
              IF auth THEN task.sent = "live" ELSE task.sent # "unauthorized"
        /\ auth /\ t # "login" /\ task.fn = "about" /\ task.had = FALSE => task.sent = "none"}

\* The page: a Core that requires a login is known to, and no answer of one that
\* does not is a refusal.
GoodPages ==
    {p \in Page :
        /\ auth => p.client.requiresLogin = TRUE
        /\ ~auth => \A k \in Keys : p.cache[k] # "unauthorized"
        /\ \A t \in Tasks : p.task[t] \in GoodTasks(t)}

Inv == auth \in BOOLEAN /\ page \in GoodPages

-----------------------------------------------------------------------------
(* What the functions on the page keep *)

Client == [valid : BOOLEAN, requiresLogin : BOOLEAN, connected : BOOLEAN]
View == [initialized : BOOLEAN, valid : BOOLEAN, connected : BOOLEAN]

LEMMA SameTasks ==
    ASSUME NEW p \in GoodPages, NEW q \in Page,
           q.task = p.task, q.client = p.client \/ q.client.requiresLogin = TRUE,
           q.cache = p.cache \/ q.cache = NoCache
    PROVE  q \in GoodPages
BY DEF GoodPages, NoCache

LEMMA WithTaskKeeps ==
    ASSUME NEW p \in GoodPages, NEW t \in Tasks, NEW task \in GoodTasks(t)
    PROVE  /\ WithTask(p, t, task) \in GoodPages
           /\ WithTask(p, t, task).task[t] = task
           /\ WithTask(p, t, task).refresh = p.refresh
<1>1. p \in Page /\ task \in Task
  BY DEF GoodPages, GoodTasks
<1>2. /\ WithTask(p, t, task) \in Page
      /\ WithTask(p, t, task).task = [p.task EXCEPT ![t] = task]
      /\ WithTask(p, t, task).refresh = p.refresh
      /\ WithTask(p, t, task).client = p.client
      /\ WithTask(p, t, task).cache = p.cache
  BY <1>1 DEF WithTask, Page
<1>3. p.task \in [Tasks -> Task]
  BY <1>1 DEF Page
<1>4. WithTask(p, t, task) \in GoodPages
  BY <1>2, <1>3 DEF GoodPages
<1> QED
  BY <1>2, <1>3, <1>4

LEMMA IdleGood == \A t : Idle \in GoodTasks(t)
BY DEF Idle, Task, Fns, Phases, Credentials, GoodTasks

LEMMA DoneKeeps ==
    ASSUME NEW p \in GoodPages, NEW t \in Tasks
    PROVE  /\ Done(p, t) \in GoodPages
           /\ Done(p, t).task[t] = Idle
           /\ Done(p, t).refresh = p.refresh
BY WithTaskKeeps, IdleGood DEF Done

LEMMA CarriesTyped ==
    ASSUME NEW p \in Page, NEW t, NEW fn
    PROVE  Carries(p, t, fn) \in Credentials \cup Answers
BY DEF Carries, Page, Credentials

Sent(p, t, fn, phase) ==
    [fn |-> IF phase = "refresh" THEN p.task[t].fn ELSE fn, phase |-> phase,
     sent |-> Carries(p, t, fn), had |-> p.task[t].had]

LEMMA SentTyped ==
    ASSUME NEW p \in Page, NEW t \in Tasks, NEW fn \in Fns, NEW phase \in Phases
    PROVE  Sent(p, t, fn, phase) \in Task
<1>1. p.task[t].fn \in Fns /\ p.task[t].had \in BOOLEAN
  BY DEF Page, Task
<1> QED
  BY <1>1, CarriesTyped DEF Sent, Task

LEMMA SendKeeps ==
    ASSUME NEW p \in GoodPages, NEW t \in Tasks, NEW fn, NEW phase,
           Sent(p, t, fn, phase) \in GoodTasks(t)
    PROVE  /\ Send(p, t, fn, phase) \in GoodPages
           /\ Send(p, t, fn, phase).task[t] = Sent(p, t, fn, phase)
           /\ Send(p, t, fn, phase).refresh = p.refresh
<1>1. Send(p, t, fn, phase) = WithTask(p, t, Sent(p, t, fn, phase))
  BY DEF Send, Sent
<1> QED
  BY <1>1, WithTaskKeeps

\* The first attempt of a call or a login may carry anything.
LEMMA SendsCall ==
    ASSUME NEW p \in GoodPages, NEW t \in Tasks, NEW fn \in {"call", "login"}
    PROVE  /\ Send(p, t, fn, "first") \in GoodPages
           /\ Send(p, t, fn, "first").refresh = p.refresh
<1>1. p \in Page /\ fn \in Fns /\ "first" \in Phases
  BY DEF GoodPages, Fns, Phases
<1>2. Sent(p, t, fn, "first") \in Task
  BY <1>1, SentTyped
<1>3. Sent(p, t, fn, "first") \in GoodTasks(t)
  BY <1>2 DEF GoodTasks, Sent
<1> QED
  BY <1>3, SendKeeps

LEMMA SetAccessTokenKeeps ==
    ASSUME NEW p \in GoodPages, NEW token \in Credentials
    PROVE  /\ SetAccessToken(p, token) \in GoodPages
           /\ SetAccessToken(p, token).task = p.task
           /\ SetAccessToken(p, token).access = token
           /\ SetAccessToken(p, token).refresh = p.refresh
           /\ SetAccessToken(p, token).cache = NoCache
<1>1. NoCache \in [Keys -> Answers \cup {"none"}]
  BY DEF NoCache
<1>2. p \in Page
  BY DEF GoodPages
<1>3. (IF token = "none" THEN p.armed ELSE TRUE) \in BOOLEAN
  BY <1>2 DEF Page
<1>4. /\ SetAccessToken(p, token) \in Page
      /\ SetAccessToken(p, token).task = p.task
      /\ SetAccessToken(p, token).access = token
      /\ SetAccessToken(p, token).refresh = p.refresh
      /\ SetAccessToken(p, token).cache = NoCache
      /\ SetAccessToken(p, token).client = p.client
  BY <1>1, <1>2, <1>3 DEF SetAccessToken, Page
<1> QED
  BY <1>4, SameTasks

\* What handleLogout does before it asks for About.
Fresh(p) == [Reset(Logout(p)) EXCEPT !.view = NewView]

LEMMA FreshKeeps ==
    ASSUME NEW p \in GoodPages
    PROVE  /\ Fresh(p) \in GoodPages
           /\ Fresh(p).task = p.task
           /\ Fresh(p).access = "none"
           /\ Fresh(p).cache = NoCache
<1> DEFINE a == SetAccessToken(p, "none")
           q == [a EXCEPT !.armed = FALSE, !.refresh = "none"]
           r == [q EXCEPT !.client = NewClient, !.ignoring = FALSE]
<1>1. /\ a \in GoodPages /\ a.task = p.task /\ a.access = "none" /\ a.cache = NoCache
  BY SetAccessTokenKeeps DEF Credentials
<1>2. a \in Page
  BY <1>1 DEF GoodPages
<1>3. NewClient \in Client /\ NewClient.requiresLogin = TRUE /\ NewView \in View
  BY DEF NewClient, NewView, Client, View
<1>4. Fresh(p) = [r EXCEPT !.view = NewView]
  BY DEF Fresh, Reset, Logout
<1> HIDE DEF a
<1>5. q \in Page /\ q.task = a.task /\ q.access = a.access /\ q.cache = a.cache
  BY <1>2 DEF Page, Credentials
<1> HIDE DEF q
<1>6. /\ r \in Page /\ r.task = q.task /\ r.access = q.access /\ r.cache = q.cache
      /\ r.client = NewClient
  BY <1>3, <1>5 DEF Page, Client
<1> HIDE DEF r
<1>7. /\ Fresh(p) \in Page /\ Fresh(p).task = r.task /\ Fresh(p).access = r.access
      /\ Fresh(p).cache = r.cache /\ Fresh(p).client = r.client
  BY <1>3, <1>4, <1>6 DEF Page, View
<1>8. /\ Fresh(p).task = p.task /\ Fresh(p).access = "none" /\ Fresh(p).cache = NoCache
      /\ Fresh(p).client.requiresLogin = TRUE
  BY <1>1, <1>3, <1>5, <1>6, <1>7
<1> QED
  BY <1>7, <1>8, SameTasks

\* A logout empties the cache and the token before it asks, so it asks without any.
LEMMA HandleLogoutKeeps ==
    ASSUME NEW p \in GoodPages, NEW l \in Logouts
    PROVE  /\ HandleLogout(p, l) \in GoodPages
           /\ \A t \in Tasks \ {l} : HandleLogout(p, l).task[t] = p.task[t]
<1> DEFINE q == Fresh(p)
           new == Send(q, l, "about", "first")
<1>1. q \in GoodPages /\ q.task = p.task /\ q.access = "none" /\ q.cache = NoCache
  BY FreshKeeps
<1>2. HandleLogout(p, l) = new
  BY DEF HandleLogout, Fresh
<1>3. l \in Tasks
  BY DEF Tasks
<1> HIDE DEF q
<1>4. Carries(q, l, "about") = "none"
  BY <1>1 DEF Carries, NoCache
<1>5. q \in Page /\ "about" \in Fns /\ "first" \in Phases
  BY <1>1 DEF GoodPages, Fns, Phases
<1>6. Sent(q, l, "about", "first") \in Task
  BY <1>3, <1>5, SentTyped
<1>7. Sent(q, l, "about", "first") \in GoodTasks(l)
  BY <1>4, <1>6 DEF GoodTasks, Sent
<1>8. new \in GoodPages
  BY <1>1, <1>3, <1>7, SendKeeps
<1>9. new.task = [q.task EXCEPT ![l] = Sent(q, l, "about", "first")]
  BY <1>5 DEF Send, Sent, WithTask, Page
<1>10. q.task \in [Tasks -> Task]
  BY <1>5 DEF Page
<1> HIDE DEF new
<1>11. \A t \in Tasks \ {l} : new.task[t] = p.task[t]
  BY <1>1, <1>9, <1>10
<1> QED
  BY <1>2, <1>8, <1>11

LEMMA AuthEventKeeps ==
    ASSUME NEW p \in GoodPages, NEW t \in Tasks, p.task[t] # Idle
    PROVE  /\ AuthEvent(p, t) \in GoodPages
           /\ AuthEvent(p, t).task[t] = p.task[t]
<1>1. Slot(p, t) \in Logouts /\ Slot(p, t) # t
  BY LogoutsAssumption DEF Slot
<1> QED
  BY <1>1, HandleLogoutKeeps DEF AuthEvent

\* Several of them, as after a refusal
LEMMA RefusalKeeps ==
    ASSUME NEW p \in GoodPages, NEW t \in Tasks, p.task[t] # Idle, NEW answer
    PROVE  /\ RefreshFailed(p, t, answer) \in GoodPages
           /\ RefreshFailed(p, t, answer).task[t] = p.task[t]
           /\ CallRefused(p, t, answer) \in GoodPages
           /\ CallRefused(p, t, answer).task[t] = p.task[t]
<1> DEFINE q == IF answer = "unauthorized" /\ ~p.ignoring THEN AuthEvent(p, t) ELSE p
           r == AuthEvent(q, t)
           s == AuthEvent(r, t)
<1>1. q \in GoodPages /\ q.task[t] = p.task[t]
  BY AuthEventKeeps
<1> HIDE DEF q
<1>2. r \in GoodPages /\ r.task[t] = p.task[t]
  BY <1>1, AuthEventKeeps
<1> HIDE DEF r
<1>3. s \in GoodPages /\ s.task[t] = p.task[t]
  BY <1>2, AuthEventKeeps
<1> HIDE DEF s
<1>4. RefreshFailed(p, t, answer) = r
  BY Zenon DEF RefreshFailed, r, q
<1>5. CallRefused(p, t, answer) = IF p.task[t].fn = "login" THEN r ELSE s
  BY <1>4, Zenon DEF CallRefused, s
<1> QED
  BY <1>2, <1>3, <1>4, <1>5

LEMMA NetworkEventKeeps ==
    ASSUME NEW p \in GoodPages
    PROVE  /\ NetworkEvent(p) \in GoodPages
           /\ NetworkEvent(p).task = p.task
           /\ NetworkEvent(p).refresh = p.refresh
<1>1. p \in Page
  BY DEF GoodPages
<1>2. /\ NetworkEvent(p) \in Page /\ NetworkEvent(p).task = p.task
      /\ NetworkEvent(p).refresh = p.refresh
      /\ NetworkEvent(p).client = p.client /\ NetworkEvent(p).cache = p.cache
  BY <1>1 DEF NetworkEvent, NewView, Page
<1> QED
  BY <1>2, SameTasks

\* What ends a task with a view.
LEMMA ViewKeeps ==
    ASSUME NEW p \in GoodPages, NEW t \in Tasks, NEW view \in View,
           NEW q, q = [p EXCEPT !.view = view]
    PROVE  /\ Done(q, t) \in GoodPages
           /\ Done(q, t).task[t] = Idle
           /\ Done(q, t).refresh = p.refresh
<1>1. p \in Page
  BY DEF GoodPages
<1>2. /\ q \in Page /\ q.task = p.task /\ q.refresh = p.refresh
      /\ q.client = p.client /\ q.cache = p.cache
  BY <1>1 DEF Page, View
<1>3. q \in GoodPages
  BY <1>2, SameTasks
<1> QED
  BY <1>2, <1>3, DoneKeeps

LEMMA Connectedness ==
    ASSUME NEW p \in Page
    PROVE  IsConnected(p) \in BOOLEAN
BY DEF IsConnected

LEMMA ShowValidatedKeeps ==
    ASSUME NEW p \in GoodPages, NEW t \in Tasks, NEW b \in BOOLEAN
    PROVE  /\ ShowValidated(p, t, b) \in GoodPages
           /\ ShowValidated(p, t, b).task[t] = Idle
           /\ ShowValidated(p, t, b).refresh = p.refresh
<1> DEFINE v == [initialized |-> TRUE, valid |-> b, connected |-> IsConnected(p)]
           q == [p EXCEPT !.view = v]
<1>1. p \in Page
  BY DEF GoodPages
<1>2. v \in View
  BY <1>1, Connectedness DEF View
<1>3. ShowValidated(p, t, b) = Done(q, t)
  BY DEF ShowValidated
<1>4. q = [p EXCEPT !.view = v]
  OBVIOUS
<1> HIDE DEF v, q
<1>5. /\ Done(q, t) \in GoodPages /\ Done(q, t).task[t] = Idle
      /\ Done(q, t).refresh = p.refresh
  BY <1>2, <1>4, ViewKeeps
<1> QED
  BY <1>3, <1>5

LEMMA ShowLoggedInKeeps ==
    ASSUME NEW p \in GoodPages, NEW b \in BOOLEAN
    PROVE  /\ ShowLoggedIn(p, b) \in GoodPages
           /\ ShowLoggedIn(p, b).task["login"] = Idle
           /\ ShowLoggedIn(p, b).refresh = p.refresh
<1> DEFINE v == [initialized |-> TRUE, valid |-> TRUE, connected |-> b]
           q == [p EXCEPT !.view = v]
<1>1. v \in View
  BY DEF View
<1>2. ShowLoggedIn(p, b) = Done(q, "login")
  BY DEF ShowLoggedIn
<1>3. q = [p EXCEPT !.view = v] /\ "login" \in Tasks
  BY DEF Tasks
<1> HIDE DEF v, q
<1>4. /\ Done(q, "login") \in GoodPages /\ Done(q, "login").task["login"] = Idle
      /\ Done(q, "login").refresh = p.refresh
  BY <1>1, <1>3, ViewKeeps
<1> QED
  BY <1>2, <1>4

\* About after a login, whatever the task carries.
LEMMA SendsAbout ==
    ASSUME NEW p \in GoodPages, NEW t \in Tasks, t = "login" \/ p.task[t].had = TRUE
    PROVE  /\ Send(p, t, "about", "first") \in GoodPages
           /\ Send(p, t, "about", "first").task[t].fn = "about"
           /\ Send(p, t, "about", "first").refresh = p.refresh
<1>1. p \in Page /\ "about" \in Fns /\ "first" \in Phases
  BY DEF GoodPages, Fns, Phases
<1>2. Sent(p, t, "about", "first") \in Task
  BY <1>1, SentTyped
<1>3. Sent(p, t, "about", "first") \in GoodTasks(t)
  BY <1>2 DEF GoodTasks, Sent
<1>4. Sent(p, t, "about", "first").fn = "about"
  BY DEF Sent
<1> QED
  BY <1>3, <1>4, SendKeeps

\* Validate believes that no login is required only when About was asked without
\* a token and told everything, which a Core that requires one does not do.
LEMMA ValidatedKeeps ==
    ASSUME NEW p \in GoodPages, NEW t \in Tasks, NEW answer \in Answers,
           auth /\ p.task[t].had = FALSE => answer # "ok"
    PROVE  /\ Validated(p, t, answer) \in GoodPages
           /\ Validated(p, t, answer).refresh = p.refresh
<1> DEFINE c == [valid |-> TRUE,
                 requiresLogin |-> ~(answer = "ok" /\ ~p.task[t].had),
                 connected |-> p.client.connected \/ (answer = "ok" /\ p.task[t].had)]
           q == [p EXCEPT !.client = c]
<1>1. p \in Page
  BY DEF GoodPages
<1>2. p.task[t].had \in BOOLEAN /\ p.client.connected \in BOOLEAN
  BY <1>1 DEF Page, Task
<1>3. c \in Client
  BY <1>2 DEF Client
<1>4. auth => c.requiresLogin = TRUE
  BY <1>2
<1>5. Validated(p, t, answer) =
          CASE answer \in Errors -> ShowValidated(p, t, FALSE)
            [] answer \notin Errors /\ IsConnected(q) -> Send(q, t, "call", "first")
            [] OTHER -> ShowValidated(q, t, TRUE)
  BY DEF Validated
<1>6. q = [p EXCEPT !.client = c]
  OBVIOUS
<1> HIDE DEF c, q
<1>7. /\ q \in Page /\ q.task = p.task /\ q.refresh = p.refresh
      /\ q.client = c /\ q.cache = p.cache
  BY <1>1, <1>3, <1>6 DEF Page, Client
<1>8. q \in GoodPages
  BY <1>4, <1>7 DEF GoodPages
<1>9. /\ ShowValidated(p, t, FALSE) \in GoodPages
      /\ ShowValidated(p, t, FALSE).refresh = p.refresh
  BY ShowValidatedKeeps
<1>10. /\ ShowValidated(q, t, TRUE) \in GoodPages
       /\ ShowValidated(q, t, TRUE).refresh = p.refresh
  BY <1>7, <1>8, ShowValidatedKeeps
<1>11. /\ Send(q, t, "call", "first") \in GoodPages
       /\ Send(q, t, "call", "first").refresh = p.refresh
  BY <1>7, <1>8, SendsCall
<1> QED
  BY <1>5, <1>9, <1>10, <1>11

LEMMA LoggedInKeeps ==
    ASSUME NEW p \in GoodPages, NEW answer
    PROVE  /\ LoggedIn(p, answer) \in GoodPages
           /\ LoggedIn(p, answer).refresh = p.refresh
<1> DEFINE c == [p.client EXCEPT !.connected = TRUE]
           q == [p EXCEPT !.client = c]
<1>1. p \in Page /\ "login" \in Tasks
  BY DEF GoodPages, Tasks
<1>2. c \in Client /\ c.requiresLogin = p.client.requiresLogin
  BY <1>1 DEF Client, Page
<1>3. LoggedIn(p, answer) =
          IF answer = "ok" THEN Send(q, "login", "call", "first") ELSE ShowLoggedIn(p, FALSE)
  BY DEF LoggedIn
<1>4. q = [p EXCEPT !.client = c]
  OBVIOUS
<1> HIDE DEF c, q
<1>5. /\ q \in Page /\ q.task = p.task /\ q.refresh = p.refresh
      /\ q.client = c /\ q.cache = p.cache
  BY <1>1, <1>2, <1>4 DEF Page, Client
<1>6. q \in GoodPages
  BY <1>2, <1>5 DEF GoodPages
<1>7. /\ Send(q, "login", "call", "first") \in GoodPages
      /\ Send(q, "login", "call", "first").refresh = p.refresh
  BY <1>1, <1>5, <1>6, SendsCall
<1>8. /\ ShowLoggedIn(p, FALSE) \in GoodPages
      /\ ShowLoggedIn(p, FALSE).refresh = p.refresh
  BY ShowLoggedInKeeps
<1> QED
  BY <1>3, <1>7, <1>8

\* A call that returns ends its task or goes on with another one, and takes no
\* session away.
LEMMA ContinueKeeps ==
    ASSUME NEW p \in GoodPages, NEW t \in Tasks, NEW ok \in BOOLEAN
    PROVE  /\ Continue(p, t, ok) \in GoodPages
           /\ p.task[t].fn # "idle" => Continue(p, t, ok).task[t] # p.task[t]
           /\ Continue(p, t, ok).refresh \in {p.refresh, "live"}
<1> DEFINE a == SetAccessToken(p, "live")
           q == [a EXCEPT !.refresh = "live"]
<1>1. a \in GoodPages
  BY SetAccessTokenKeeps DEF Credentials
<1>2. a \in Page
  BY <1>1 DEF GoodPages
<1> HIDE DEF a
<1>3. /\ q \in Page /\ q.task = a.task /\ q.client = a.client
      /\ q.cache = a.cache /\ q.refresh = "live"
  BY <1>2 DEF Page, Credentials
<1> HIDE DEF q
<1>4. q \in GoodPages
  BY <1>1, <1>3, SameTasks
<1>5. "login" \in Tasks
  BY DEF Tasks
<1>6. Idle.fn = "idle"
  BY DEF Idle
<1>7. CASE t \in Polls \cup {"timer"}
  <2>1. Continue(p, t, ok) = Done(p, t)
    BY <1>7, NamesAssumption DEF Continue
  <2> QED
    BY <1>6, <2>1, DoneKeeps
<1>8. CASE t \notin Polls \cup {"timer"} /\ t \in Logouts \cup {"mount"}
  <2>1. Continue(p, t, ok) = ShowValidated(p, t, TRUE)
    BY <1>8, NamesAssumption DEF Continue
  <2> QED
    BY <1>6, <2>1, ShowValidatedKeeps
<1>9. CASE t \notin Polls \cup {"timer"} /\ t \notin Logouts \cup {"mount"}
  <2>1. t = "login"
    BY <1>9 DEF Tasks
  <2>2. CASE p.task[t].fn = "call"
    <3>1. Continue(p, t, ok) = ShowLoggedIn(p, TRUE)
      BY <1>9, <2>1, <2>2 DEF Continue
    <3> QED
      BY <1>6, <2>1, <3>1, ShowLoggedInKeeps
  <2>3. CASE p.task[t].fn = "login" /\ ok
    <3>1. Continue(p, t, ok) = Send(q, "login", "about", "first")
      BY <1>9, <2>1, <2>3 DEF Continue, a, q
    <3>2. /\ Send(q, "login", "about", "first") \in GoodPages
          /\ Send(q, "login", "about", "first").task["login"].fn = "about"
          /\ Send(q, "login", "about", "first").refresh = "live"
      BY <1>3, <1>4, <1>5, SendsAbout
    <3>3. p.task[t].fn = "login"
      BY <2>3
    <3> QED
      BY <2>1, <3>1, <3>2, <3>3
  <2>4. CASE ~(p.task[t].fn = "call") /\ ~(p.task[t].fn = "login" /\ ok)
    <3>1. Continue(p, t, ok) = ShowLoggedIn(p, FALSE)
      BY <1>9, <2>1, <2>4 DEF Continue
    <3> QED
      BY <1>6, <2>1, <3>1, ShowLoggedInKeeps
  <2> QED
    BY <2>2, <2>3, <2>4
<1> HIDE DEF q
<1> QED
  BY <1>7, <1>8, <1>9

LEMMA AnswersTyped ==
    ASSUME NEW fn, NEW sent
    PROVE  Possible(fn, sent) \subseteq Answers
BY FailureAssumption DEF Possible, Answers, Errors

\* A Core that requires no login refuses nothing but a login.
LEMMA NothingRefused ==
    ASSUME NEW fn, NEW sent, ~auth, fn # "login", sent # "unauthorized"
    PROVE  "unauthorized" \notin Possible(fn, sent)
BY FailureAssumption DEF Possible, Answers, Errors

LEMMA StoreKeeps ==
    ASSUME NEW p \in GoodPages, NEW t \in Tasks, NEW fn \in Fns,
           NEW answer \in Possible(fn, p.task[t].sent)
    PROVE  /\ Store(p, t, fn, answer) \in GoodPages
           /\ Store(p, t, fn, answer).task = p.task
           /\ Store(p, t, fn, answer).refresh = p.refresh
<1>1. p \in Page
  BY DEF GoodPages
<1> DEFINE c == [p.cache EXCEPT ![KeyOf[t][fn]] = answer]
           q == [p EXCEPT !.cache = c]
<1>2. CASE KeyOf[t][fn] \in Keys /\ p.task[t].sent \notin Answers
  <2>1. Store(p, t, fn, answer) = q
    BY <1>2 DEF Store
  <2>2. answer \in Answers
    BY AnswersTyped
  <2>3. fn # "login" /\ p.task[t].sent # "unauthorized"
    BY <1>2, KeysAssumption DEF Answers, Errors
  <2>4. ~auth => answer # "unauthorized"
    BY <2>3, NothingRefused
  <2>5. c \in [Keys -> Answers \cup {"none"}]
    BY <1>1, <2>2 DEF Page
  <2>6. ~auth => \A k \in Keys : c[k] # "unauthorized"
    BY <1>1, <2>4 DEF GoodPages, Page
  <2>7. q = [p EXCEPT !.cache = c]
    OBVIOUS
  <2> HIDE DEF c, q
  <2>8. /\ q \in Page /\ q.task = p.task /\ q.client = p.client
        /\ q.cache = c /\ q.refresh = p.refresh
    BY <1>1, <2>5, <2>7 DEF Page
  <2>9. q \in GoodPages
    BY <2>6, <2>8 DEF GoodPages
  <2> QED
    BY <2>1, <2>8, <2>9
<1>3. CASE ~(KeyOf[t][fn] \in Keys /\ p.task[t].sent \notin Answers)
  BY <1>3 DEF Store
<1> QED
  BY <1>2, <1>3

-----------------------------------------------------------------------------
(* What each action keeps *)

\* No session is given up by the step.
KeepsSession == page.refresh = "live" => page'.refresh # "none"

\* A second attempt: with the token the refresh brought, or without need of one.
LEMMA SendsRetry ==
    ASSUME NEW p \in GoodPages, NEW t \in Tasks, NEW fn \in {"call", "login"},
           auth => p.access = "live" /\ p.cache = NoCache
    PROVE  /\ Send(p, t, fn, "retry") \in GoodPages
           /\ Send(p, t, fn, "retry").refresh = p.refresh
<1>1. p \in Page /\ fn \in Fns /\ "retry" \in Phases
  BY DEF GoodPages, Fns, Phases
<1>2. Sent(p, t, fn, "retry") \in Task
  BY <1>1, SentTyped
<1>3. CASE fn = "login"
  <2>1. Sent(p, t, fn, "retry") \in GoodTasks(t)
    BY <1>2, <1>3 DEF GoodTasks, Sent
  <2> QED
    BY <2>1, SendKeeps
<1>4. CASE fn = "call" /\ auth
  <2>1. p.access = "live" /\ p.cache = NoCache
    BY <1>4
  <2>2. Carries(p, t, fn) = "live"
    BY <1>4, <2>1 DEF Carries, NoCache
  <2>3. Sent(p, t, fn, "retry") \in GoodTasks(t)
    BY <1>2, <1>4, <2>2 DEF GoodTasks, Sent
  <2> QED
    BY <2>3, SendKeeps
<1>5. CASE fn = "call" /\ ~auth
  <2>1. \A k \in Keys : p.cache[k] # "unauthorized"
    BY <1>5 DEF GoodPages
  <2>2. Carries(p, t, fn) # "unauthorized"
    BY <1>1, <1>5, <2>1 DEF Carries, Page, Credentials
  <2>3. Sent(p, t, fn, "retry") \in GoodTasks(t)
    BY <1>2, <1>5, <2>2 DEF GoodTasks, Sent
  <2> QED
    BY <2>3, SendKeeps
<1> QED
  BY <1>3, <1>4, <1>5

LEMMA CallAnsweredKeeps ==
    ASSUME page \in GoodPages, NEW t \in Tasks, NEW fn \in {"call", "login"},
           CallAnswered(t, fn)
    PROVE  page' \in GoodPages /\ KeepsSession
<1>1. page.task[t].fn = fn /\ fn \in Fns
  BY DEF CallAnswered, Waiting, Fns
<1>2. PICK answer \in Possible(fn, page.task[t].sent) :
        LET p == Store(page, t, fn, answer) IN
        \/ page' = Continue(p, t, TRUE)
        \/ page' = Continue(p, t, FALSE)
        \/ page' = Continue(NetworkEvent(p), t, FALSE)
        \/ page' = Send(p, t, "refresh", "refresh")
        \/ ~page.client.requiresLogin /\ page' = Send(p, t, fn, "retry")
        \/ page.refresh = "none" /\ page' = Continue(AuthEvent(p, t), t, FALSE)
  BY DEF CallAnswered
<1> DEFINE p == Store(page, t, fn, answer)
<1>3. \/ page' = Continue(p, t, TRUE)
      \/ page' = Continue(p, t, FALSE)
      \/ page' = Continue(NetworkEvent(p), t, FALSE)
      \/ page' = Send(p, t, "refresh", "refresh")
      \/ ~page.client.requiresLogin /\ page' = Send(p, t, fn, "retry")
      \/ page.refresh = "none" /\ page' = Continue(AuthEvent(p, t), t, FALSE)
  BY <1>2
<1>4. p \in GoodPages /\ p.task = page.task /\ p.refresh = page.refresh
  BY <1>1, StoreKeeps
<1> HIDE DEF p
<1>5. p.task[t] # Idle
  BY <1>1, <1>4 DEF Idle
<1>6. ASSUME NEW ok \in BOOLEAN, page' = Continue(p, t, ok)
      PROVE  page' \in GoodPages /\ KeepsSession
  <2>1. Continue(p, t, ok) \in GoodPages /\ Continue(p, t, ok).refresh \in {p.refresh, "live"}
    BY <1>4, ContinueKeeps
  <2> QED
    BY <1>4, <1>6, <2>1 DEF KeepsSession
<1>7. ASSUME page' = Continue(NetworkEvent(p), t, FALSE)
      PROVE  page' \in GoodPages /\ KeepsSession
  <2> DEFINE q == NetworkEvent(p)
  <2>1. q \in GoodPages /\ q.refresh = p.refresh
    BY <1>4, NetworkEventKeeps
  <2>2. page' = Continue(q, t, FALSE)
    BY <1>7
  <2> HIDE DEF q
  <2> QED
    BY <1>4, <2>1, <2>2, ContinueKeeps DEF KeepsSession
<1>8. ASSUME page' = Send(p, t, "refresh", "refresh")
      PROVE  page' \in GoodPages /\ KeepsSession
  <2>1. p \in Page /\ "refresh" \in Fns /\ "refresh" \in Phases
    BY <1>4 DEF GoodPages, Fns, Phases
  <2>2. Sent(p, t, "refresh", "refresh") \in Task
    BY <2>1, SentTyped
  <2>3. Sent(p, t, "refresh", "refresh").fn = fn
    BY <1>1, <1>4 DEF Sent
  <2>4. Sent(p, t, "refresh", "refresh").phase = "refresh"
    BY DEF Sent
  <2>5. Sent(p, t, "refresh", "refresh") \in GoodTasks(t)
    BY <2>2, <2>3, <2>4 DEF GoodTasks
  <2> QED
    BY <1>4, <1>8, <2>5, SendKeeps DEF KeepsSession
<1>9. ASSUME ~page.client.requiresLogin, page' = Send(p, t, fn, "retry")
      PROVE  page' \in GoodPages /\ KeepsSession
  <2>1. ~auth
    BY <1>9 DEF GoodPages
  <2> QED
    BY <1>4, <1>9, <2>1, SendsRetry DEF KeepsSession
<1>10. ASSUME page.refresh = "none", page' = Continue(AuthEvent(p, t), t, FALSE)
       PROVE  page' \in GoodPages /\ KeepsSession
  <2> DEFINE q == AuthEvent(p, t)
  <2>1. q \in GoodPages
    BY <1>4, <1>5, AuthEventKeeps
  <2>2. page' = Continue(q, t, FALSE)
    BY <1>10
  <2> HIDE DEF q
  <2> QED
    BY <1>10, <2>1, <2>2, ContinueKeeps DEF KeepsSession
<1> QED
  BY <1>3, <1>6, <1>7, <1>8, <1>9, <1>10

LEMMA RefreshedForCallKeeps ==
    ASSUME page \in GoodPages, NEW t \in Tasks, RefreshedForCall(t)
    PROVE  /\ page' \in GoodPages
           /\ KeepsSession \/ page'.task[t] # page.task[t]
<1>1. page.task[t] \in GoodTasks(t)
  BY DEF GoodPages
<1>2. page.task[t].phase = "refresh"
  BY DEF RefreshedForCall
<1>3. page.task[t].fn \in {"call", "login"} /\ "refresh" \in Fns
  BY <1>1, <1>2 DEF GoodTasks, Fns
<1>4. PICK answer \in Possible("refresh", page.task[t].sent) :
        LET p == Store(page, t, "refresh", answer) IN
        \/ page' = Send(SetAccessToken(p, "live"), t, page.task[t].fn, "retry")
        \/ page' = Continue(CallRefused(p, t, answer), t, FALSE)
  BY DEF RefreshedForCall
<1> DEFINE p == Store(page, t, "refresh", answer)
<1>5. \/ page' = Send(SetAccessToken(p, "live"), t, page.task[t].fn, "retry")
      \/ page' = Continue(CallRefused(p, t, answer), t, FALSE)
  BY <1>4
<1>6. p \in GoodPages /\ p.task = page.task /\ p.refresh = page.refresh
  BY <1>3, StoreKeeps
<1> HIDE DEF p
<1>7. ASSUME page' = Send(SetAccessToken(p, "live"), t, page.task[t].fn, "retry")
      PROVE  page' \in GoodPages /\ KeepsSession
  <2> DEFINE q == SetAccessToken(p, "live")
  <2>1. /\ q \in GoodPages /\ q.access = "live" /\ q.cache = NoCache
        /\ q.refresh = p.refresh
    BY <1>6, SetAccessTokenKeeps DEF Credentials
  <2>2. page' = Send(q, t, page.task[t].fn, "retry")
    BY <1>7
  <2> HIDE DEF q
  <2> QED
    BY <1>3, <1>6, <2>1, <2>2, SendsRetry DEF KeepsSession
<1>8. ASSUME page' = Continue(CallRefused(p, t, answer), t, FALSE)
      PROVE  page' \in GoodPages /\ page'.task[t] # page.task[t]
  <2> DEFINE q == CallRefused(p, t, answer)
  <2>1. p.task[t] # Idle
    BY <1>2, <1>6 DEF Idle
  <2>2. q \in GoodPages /\ q.task[t] = page.task[t]
    BY <1>6, <2>1, RefusalKeeps
  <2>3. page' = Continue(q, t, FALSE)
    BY <1>8
  <2> HIDE DEF q
  <2> QED
    <3>1. q.task[t].fn # "idle"
      BY <1>3, <2>2
    <3>2. Continue(q, t, FALSE) \in GoodPages /\ Continue(q, t, FALSE).task[t] # q.task[t]
      BY <2>2, <3>1, ContinueKeeps
    <3> QED
      BY <2>2, <2>3, <3>2
<1> QED
  BY <1>5, <1>7, <1>8

LEMMA RetryAnsweredKeeps ==
    ASSUME page \in GoodPages, NEW t \in Tasks, RetryAnswered(t)
    PROVE  /\ page' \in GoodPages
           /\ KeepsSession \/ (page.task[t].fn = "login" /\ page'.task[t] # page.task[t])
<1>1. page.task[t] \in GoodTasks(t)
  BY DEF GoodPages
<1>2. page.task[t].phase = "retry"
  BY DEF RetryAnswered
<1>3. page.task[t].fn \in Fns
  BY <1>1 DEF GoodTasks, Task
<1>4. PICK answer \in Possible(page.task[t].fn, page.task[t].sent) :
        LET p == Store(page, t, page.task[t].fn, answer) IN
        \/ page' = Continue(p, t, answer = "ok")
        \/ answer = "unauthorized" /\ page' = Continue(AuthEvent(p, t), t, FALSE)
  BY DEF RetryAnswered
<1> DEFINE p == Store(page, t, page.task[t].fn, answer)
<1>5. \/ page' = Continue(p, t, answer = "ok")
      \/ answer = "unauthorized" /\ page' = Continue(AuthEvent(p, t), t, FALSE)
  BY <1>4
<1>6. p \in GoodPages /\ p.task = page.task /\ p.refresh = page.refresh
  BY <1>3, StoreKeeps
<1> HIDE DEF p
<1>7. ASSUME NEW ok \in BOOLEAN, page' = Continue(p, t, ok)
      PROVE  page' \in GoodPages /\ KeepsSession
  <2>1. Continue(p, t, ok) \in GoodPages /\ Continue(p, t, ok).refresh \in {p.refresh, "live"}
    BY <1>6, ContinueKeeps
  <2> QED
    BY <1>6, <1>7, <2>1 DEF KeepsSession
<1>8. ASSUME answer = "unauthorized", page' = Continue(AuthEvent(p, t), t, FALSE)
      PROVE  /\ page' \in GoodPages
             /\ page.task[t].fn = "login" /\ page'.task[t] # page.task[t]
  <2> DEFINE q == AuthEvent(p, t)
  <2>1. page.task[t].fn = "login"
    <3> SUFFICES ASSUME page.task[t].fn # "login" PROVE FALSE
      OBVIOUS
    <3>1. CASE auth
      <4>1. page.task[t].sent = "live"
        BY <1>1, <1>2, <3>1 DEF GoodTasks
      <4>2. "unauthorized" \notin Possible(page.task[t].fn, "live")
        BY <3>1, FailureAssumption DEF Possible, Answers, Errors
      <4> QED
        BY <1>8, <4>1, <4>2
    <3>2. CASE ~auth
      <4>1. page.task[t].sent # "unauthorized"
        BY <1>1, <1>2, <3>2 DEF GoodTasks
      <4> QED
        BY <1>8, <3>2, <4>1, NothingRefused
    <3> QED
      BY <3>1, <3>2
  <2>2. p.task[t] # Idle
    BY <1>2, <1>6 DEF Idle
  <2>3. q \in GoodPages /\ q.task[t] = page.task[t]
    BY <1>6, <2>2, AuthEventKeeps
  <2>4. page' = Continue(q, t, FALSE)
    BY <1>8
  <2> HIDE DEF q
  <2> QED
    <3>1. q.task[t].fn # "idle"
      BY <2>1, <2>3
    <3>2. Continue(q, t, FALSE) \in GoodPages /\ Continue(q, t, FALSE).task[t] # q.task[t]
      BY <2>3, <3>1, ContinueKeeps
    <3> QED
      BY <2>1, <2>3, <2>4, <3>2
<1>9. (answer = "ok") \in BOOLEAN
  OBVIOUS
<1> QED
  BY <1>5, <1>7, <1>8, <1>9

LEMMA RefreshAnsweredKeeps ==
    ASSUME page \in GoodPages, NEW t \in Tasks, RefreshAnswered(t)
    PROVE  /\ page' \in GoodPages
           /\ KeepsSession \/ page'.task[t] # page.task[t]
<1>1. page.task[t].fn = "refresh" /\ "refresh" \in Fns
  BY DEF RefreshAnswered, Waiting, Fns
<1>2. t = "timer" \/ page.task[t].had = TRUE
  BY <1>1 DEF GoodPages, GoodTasks
<1> DEFINE Then(q) == IF t = "timer" THEN Done(q, t) ELSE Send(q, t, "about", "first")
<1>3. PICK answer \in Possible("refresh", page.task[t].sent) :
        LET p == Store(page, t, "refresh", answer) IN
        page' = Then(SetAccessToken(p, "live")) \/ page' = Then(RefreshFailed(p, t, answer))
  BY DEF RefreshAnswered
<1> DEFINE p == Store(page, t, "refresh", answer)
<1>4. page' = Then(SetAccessToken(p, "live")) \/ page' = Then(RefreshFailed(p, t, answer))
  BY <1>3
<1>5. p \in GoodPages /\ p.task = page.task /\ p.refresh = page.refresh
  BY <1>1, StoreKeeps
<1> HIDE DEF p
<1>6. ASSUME NEW q \in GoodPages, q.task[t] = page.task[t]
      PROVE  /\ Then(q) \in GoodPages /\ Then(q).refresh = q.refresh
             /\ Then(q).task[t] # page.task[t]
  <2>1. CASE t = "timer"
    BY <1>1, <2>1, DoneKeeps DEF Idle
  <2>2. CASE t # "timer"
    BY <1>1, <1>2, <1>6, <2>2, SendsAbout
  <2> QED
    BY <2>1, <2>2
<1> HIDE DEF Then
<1>7. ASSUME page' = Then(SetAccessToken(p, "live"))
      PROVE  page' \in GoodPages /\ KeepsSession
  <2> DEFINE q == SetAccessToken(p, "live")
  <2>1. q \in GoodPages /\ q.task[t] = page.task[t] /\ q.refresh = page.refresh
    BY <1>5, SetAccessTokenKeeps DEF Credentials
  <2>2. page' = Then(q)
    BY <1>7
  <2> HIDE DEF q
  <2> QED
    BY <1>6, <2>1, <2>2 DEF KeepsSession
<1>8. ASSUME page' = Then(RefreshFailed(p, t, answer))
      PROVE  page' \in GoodPages /\ page'.task[t] # page.task[t]
  <2> DEFINE q == RefreshFailed(p, t, answer)
  <2>1. p.task[t] # Idle
    BY <1>1, <1>5 DEF Idle
  <2>2. q \in GoodPages /\ q.task[t] = page.task[t]
    BY <1>5, <2>1, RefusalKeeps
  <2>3. page' = Then(q)
    BY <1>8
  <2> HIDE DEF q
  <2> QED
    BY <1>6, <2>2, <2>3
<1> QED
  BY <1>4, <1>7, <1>8

LEMMA AboutAnsweredKeeps ==
    ASSUME page \in GoodPages, NEW t \in Tasks, AboutAnswered(t)
    PROVE  page' \in GoodPages /\ KeepsSession
<1>1. page.task[t].fn = "about" /\ "about" \in Fns
  BY DEF AboutAnswered, Waiting, Fns
<1>2. PICK answer \in Possible("about", page.task[t].sent) :
        LET s == Store(page, t, "about", answer)
            p == IF answer = "network" /\ ~page.ignoring THEN NetworkEvent(s) ELSE s
        IN page' = IF t = "login" THEN LoggedIn(p, answer) ELSE Validated(p, t, answer)
  BY DEF AboutAnswered
<1> DEFINE s == Store(page, t, "about", answer)
           p == IF answer = "network" /\ ~page.ignoring THEN NetworkEvent(s) ELSE s
<1>3. page' = IF t = "login" THEN LoggedIn(p, answer) ELSE Validated(p, t, answer)
  BY <1>2
<1>4. s \in GoodPages /\ s.task = page.task /\ s.refresh = page.refresh
  BY <1>1, StoreKeeps
<1>5. p = s \/ p = NetworkEvent(s)
  OBVIOUS
<1> HIDE DEF s, p
<1>6. p \in GoodPages /\ p.task = page.task /\ p.refresh = page.refresh
  BY <1>4, <1>5, NetworkEventKeeps
<1>7. CASE t = "login"
  <2>1. page' = LoggedIn(p, answer)
    BY <1>3, <1>7
  <2> QED
    BY <1>6, <2>1, LoggedInKeeps DEF KeepsSession
<1>8. CASE t # "login"
  <2>1. page' = Validated(p, t, answer)
    BY <1>3, <1>8
  <2>2. ASSUME auth, page.task[t].had = FALSE PROVE answer # "ok"
    <3>1. page.task[t].sent = "none"
      BY <1>1, <1>8, <2>2 DEF GoodPages, GoodTasks
    <3>2. "ok" \notin Possible("about", "none")
      BY <2>2, FailureAssumption DEF Possible, Answers, Errors
    <3> QED
      BY <3>1, <3>2
  <2>3. auth /\ p.task[t].had = FALSE => answer # "ok"
    BY <1>6, <2>2
  <2>4. answer \in Answers
    BY AnswersTyped
  <2>5. /\ Validated(p, t, answer) \in GoodPages
        /\ Validated(p, t, answer).refresh = p.refresh
    BY <1>6, <2>3, <2>4, ValidatedKeeps
  <2> QED
    BY <1>6, <2>1, <2>5 DEF KeepsSession
<1> QED
  BY <1>7, <1>8

LEMMA UserKeeps ==
    ASSUME page \in GoodPages
    PROVE  /\ \A t \in Polls : Poll(t) => page' \in GoodPages /\ KeepsSession
           /\ UserLogin => page' \in GoodPages /\ KeepsSession
           /\ UserLogout => page' \in GoodPages
<1>1. ASSUME NEW t \in Polls, Poll(t)
      PROVE  page' \in GoodPages /\ KeepsSession
  <2>1. t \in Tasks /\ page' = Send(page, t, "call", "first")
    BY <1>1 DEF Poll, Tasks
  <2> QED
    BY <2>1, SendsCall DEF KeepsSession
<1>2. ASSUME UserLogin
      PROVE  page' \in GoodPages /\ KeepsSession
  <2>1. PICK fn \in {"call", "login"} : page' = Send(page, "login", fn, "first")
    BY <1>2 DEF UserLogin
  <2>2. "login" \in Tasks
    BY DEF Tasks
  <2> QED
    BY <2>1, <2>2, SendsCall DEF KeepsSession
<1>3. ASSUME UserLogout
      PROVE  page' \in GoodPages
  <2>1. Slot(page, "login") \in Logouts
    BY LogoutsAssumption DEF Slot
  <2> QED
    BY <1>3, <2>1, HandleLogoutKeeps DEF UserLogout
<1> QED
  BY <1>1, <1>2, <1>3

LEMMA RefreshTimerKeeps ==
    ASSUME page \in GoodPages, RefreshTimer
    PROVE  page' \in GoodPages /\ KeepsSession
<1> DEFINE p == [page EXCEPT !.armed = FALSE]
<1>1. page' = Send(p, "timer", "refresh", "first") \/ page' = p
  BY DEF RefreshTimer
<1>2. page \in Page
  BY DEF GoodPages
<1>3. /\ p \in Page /\ p.task = page.task /\ p.client = page.client
      /\ p.cache = page.cache /\ p.refresh = page.refresh
  BY <1>2 DEF Page
<1> HIDE DEF p
<1>4. p \in GoodPages
  BY <1>3, SameTasks
<1>5. "timer" \in Tasks /\ "refresh" \in Fns /\ "first" \in Phases
  BY DEF Tasks, Fns, Phases
<1>6. Sent(p, "timer", "refresh", "first") \in Task
  BY <1>3, <1>5, SentTyped
<1>7. Sent(p, "timer", "refresh", "first") \in GoodTasks("timer")
  BY <1>6 DEF GoodTasks, Sent
<1>8. /\ Send(p, "timer", "refresh", "first") \in GoodPages
      /\ Send(p, "timer", "refresh", "first").refresh = p.refresh
  BY <1>4, <1>5, <1>7, SendKeeps
<1> QED
  BY <1>1, <1>3, <1>4, <1>8 DEF KeepsSession

LEMMA MountGood ==
    ASSUME NEW p, p.refresh \in Credentials
    PROVE  Mount(p) \in GoodPages /\ Mount(p).refresh = p.refresh
<1> DEFINE first == [fn |-> IF p.refresh = "none" THEN "about" ELSE "refresh",
                     phase |-> "first", sent |-> p.refresh, had |-> p.refresh # "none"]
           tasks == [[t \in Tasks |-> Idle] EXCEPT !["mount"] = first]
<1>1. first \in Task
  BY DEF Task, Fns, Phases
<1>2. first \in GoodTasks("mount")
  BY <1>1 DEF GoodTasks
<1>3. /\ Mount(p).task = tasks /\ Mount(p).refresh = p.refresh
      /\ Mount(p).client = NewClient /\ Mount(p).cache = NoCache
  BY DEF Mount
<1> HIDE DEF first
<1>4. \A t \in Tasks : tasks[t] \in GoodTasks(t)
  BY <1>2, IdleGood
<1>5. tasks \in [Tasks -> Task]
  BY <1>1, IdleGood DEF GoodTasks
<1>6. /\ NewClient \in Client /\ NewView \in View
      /\ NoCache \in [Keys -> Answers \cup {"none"}]
  BY DEF NewClient, NewView, NoCache, Client, View
<1>7. Mount(p) = [access |-> "none", refresh |-> p.refresh, armed |-> FALSE,
                  ignoring |-> FALSE, client |-> NewClient, view |-> NewView,
                  cache |-> NoCache, task |-> tasks]
  BY DEF Mount, first
<1> HIDE DEF tasks
<1>8. Mount(p) \in Page
  BY <1>5, <1>6, <1>7 DEF Page, Client, View, Credentials
<1>9. NewClient.requiresLogin = TRUE
  BY DEF NewClient
<1>10. \A k \in Keys : NoCache[k] # "unauthorized"
  BY DEF NoCache
<1> QED
  BY <1>3, <1>4, <1>8, <1>9, <1>10 DEF GoodPages

LEMMA OthersKeep ==
    ASSUME page \in GoodPages,
           \/ Reload \/ UpdateBegin \/ UpdateEnd
           \/ \E k \in Keys : CacheAges(k)
           \/ AccessExpires \/ RefreshExpires
    PROVE  page' \in GoodPages /\ KeepsSession
<1>1. page \in Page
  BY DEF GoodPages
<1>2. CASE Reload
  <2>1. page.refresh \in Credentials
    BY <1>1 DEF Page
  <2> QED
    BY <1>2, <2>1, MountGood DEF Reload, KeepsSession
<1>3. CASE UpdateBegin \/ UpdateEnd
  <2>1. \E b \in BOOLEAN : page' = [page EXCEPT !.ignoring = b]
    BY <1>3 DEF UpdateBegin, UpdateEnd
  <2>2. /\ page' \in Page /\ page'.task = page.task /\ page'.client = page.client
        /\ page'.cache = page.cache /\ page'.refresh = page.refresh
    BY <1>1, <2>1 DEF Page
  <2> QED
    BY <2>2, SameTasks DEF KeepsSession
<1>4. CASE \E k \in Keys : CacheAges(k)
  <2>1. PICK k \in Keys : CacheAges(k)
    BY <1>4
  <2> DEFINE c == [page.cache EXCEPT ![k] = "none"]
  <2>2. page' = [page EXCEPT !.cache = c]
    BY <2>1 DEF CacheAges
  <2>3. c \in [Keys -> Answers \cup {"none"}]
    BY <1>1 DEF Page
  <2>4. ~auth => \A j \in Keys : c[j] # "unauthorized"
    BY <1>1 DEF GoodPages, Page
  <2> HIDE DEF c
  <2>5. /\ page' \in Page /\ page'.task = page.task /\ page'.client = page.client
        /\ page'.cache = c /\ page'.refresh = page.refresh
    BY <1>1, <2>2, <2>3 DEF Page
  <2> QED
    BY <2>4, <2>5 DEF GoodPages, KeepsSession
<1>5. CASE AccessExpires
  <2>1. /\ page' \in Page /\ page'.task = page.task /\ page'.client = page.client
        /\ page'.cache = page.cache /\ page'.refresh = page.refresh
    BY <1>1, <1>5 DEF AccessExpires, Page, Credentials
  <2> QED
    BY <2>1, SameTasks DEF KeepsSession
<1>6. CASE RefreshExpires
  <2>1. /\ page' \in Page /\ page'.task = page.task /\ page'.client = page.client
        /\ page'.cache = page.cache /\ page'.refresh = "dead"
    BY <1>1, <1>6 DEF RefreshExpires, Page, Credentials
  <2> QED
    BY <2>1, SameTasks DEF KeepsSession
<1> QED
  BY <1>2, <1>3, <1>4, <1>5, <1>6

-----------------------------------------------------------------------------
(* The theorems *)

\* Who may give a session up (the property StaysLoggedIn, for one step).
GivenUp ==
    page.refresh = "live" /\ page'.refresh = "none" =>
        \/ \E t \in Tasks : /\ page'.task[t] # page.task[t]
                            /\ \/ "refresh" \in {page.task[t].fn, page.task[t].phase}
                               \/ page.task[t].fn = "login"
        \/ UserLogout

LEMMA NextKeeps ==
    ASSUME Inv, Next
    PROVE  Inv' /\ GivenUp
<1> USE DEF Inv
<1>1. ASSUME NEW t \in Tasks, Answered(t)
      PROVE  page' \in GoodPages /\ GivenUp
  <2>1. ASSUME NEW fn \in {"call", "login"}, CallAnswered(t, fn)
        PROVE  page' \in GoodPages /\ GivenUp
    BY <2>1, CallAnsweredKeeps DEF GivenUp, KeepsSession
  <2>2. CASE RefreshedForCall(t)
    <3>1. page.task[t].phase = "refresh"
      BY <2>2 DEF RefreshedForCall
    <3> QED
      BY <2>2, <3>1, RefreshedForCallKeeps DEF GivenUp, KeepsSession
  <2>3. CASE RetryAnswered(t)
    BY <2>3, RetryAnsweredKeeps DEF GivenUp, KeepsSession
  <2>4. CASE RefreshAnswered(t)
    <3>1. page.task[t].fn = "refresh"
      BY <2>4 DEF RefreshAnswered, Waiting
    <3> QED
      BY <2>4, <3>1, RefreshAnsweredKeeps DEF GivenUp, KeepsSession
  <2>5. CASE AboutAnswered(t)
    BY <2>5, AboutAnsweredKeeps DEF GivenUp, KeepsSession
  <2> QED
    BY <1>1, <2>1, <2>2, <2>3, <2>4, <2>5 DEF Answered
<1>2. ASSUME \/ \E t \in Polls : Poll(t)
             \/ UserLogin
      PROVE  page' \in GoodPages /\ GivenUp
  BY <1>2, UserKeeps DEF GivenUp, KeepsSession
<1>3. ASSUME UserLogout
      PROVE  page' \in GoodPages /\ GivenUp
  BY <1>3, UserKeeps DEF GivenUp
<1>4. ASSUME RefreshTimer
      PROVE  page' \in GoodPages /\ GivenUp
  BY <1>4, RefreshTimerKeeps DEF GivenUp, KeepsSession
<1>5. ASSUME \/ Reload \/ UpdateBegin \/ UpdateEnd
             \/ \E k \in Keys : CacheAges(k)
             \/ AccessExpires \/ RefreshExpires
      PROVE  page' \in GoodPages /\ GivenUp
  BY <1>5, OthersKeep DEF GivenUp, KeepsSession
<1>6. page' \in GoodPages /\ GivenUp
  BY <1>1, <1>2, <1>3, <1>4, <1>5 DEF Next
<1>7. auth' = auth
  BY DEF Next, Answered, CallAnswered, RefreshedForCall, RetryAnswered, RefreshAnswered,
         AboutAnswered, Poll, RefreshTimer, UserLogin, UserLogout, Reload, UpdateBegin,
         UpdateEnd, CacheAges, AccessExpires, RefreshExpires
<1>8. Inv'
  BY <1>6, <1>7 DEF GoodPages, GoodTasks
<1> QED
  BY <1>6, <1>8

LEMMA Safe == Spec => []Inv
<1>1. Init => Inv
  <2> SUFFICES ASSUME Init PROVE Inv
    OBVIOUS
  <2>1. PICK stored \in Credentials : page = Mount([refresh |-> stored])
    BY DEF Init
  <2>2. page \in GoodPages
    BY <2>1, MountGood
  <2> QED
    BY <2>2 DEF Init, Inv
<1>2. Inv /\ UNCHANGED vars => Inv'
  BY DEF vars, Inv, GoodPages, GoodTasks
<1>3. Inv /\ [Next]_vars => Inv'
  BY <1>2, NextKeeps
<1> QED
  BY <1>1, <1>3, PTL DEF Spec

\* Every part of the page keeps its type, whatever is answered when.
THEOREM TypeCorrect == Spec => []TypeOK
<1>1. Inv => TypeOK
  BY DEF Inv, TypeOK, GoodPages
<1> QED
  BY <1>1, Safe, PTL

\* A page never takes a Core that requires a login for an open one.
THEOREM LoginStaysRequired == Spec => []RequiresLoginKept
<1>1. Inv => RequiresLoginKept
  BY DEF Inv, RequiresLoginKept, GoodPages
<1> QED
  BY <1>1, Safe, PTL

\* A session the Core accepts is given up by the user, or after a refresh or a
\* login that failed, never for the answers of other calls.
THEOREM SessionIsKept == Spec => StaysLoggedIn
<1>1. Inv /\ [Next]_vars => [GivenUp]_vars
  BY NextKeeps
<1>2. Spec => [][GivenUp]_vars
  BY <1>1, Safe, PTL DEF Spec
<1> QED
  BY <1>2 DEF StaysLoggedIn, GivenUp
=============================================================================
