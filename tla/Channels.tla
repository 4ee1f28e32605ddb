------------------------------- MODULE Channels -------------------------------
(* The channels of the web interface: the table a window keeps of them and the
   processes the Core runs for them (ui/src/utils/restreamer.js), with the jobs a
   user starts on the pages of a channel, those the pages start by themselves, and
   the removal of the recordings of channels, which a window asks of the manager
   (bundle/livechasing-manager.py) with files.
   A job is a sequence of calls; between two of them everything else may happen:
   another job of the same window, another window, the manager, the end of a process
   that was stopped. A call may fail, and its answer may be lost after it had its
   effect. A call and what is done with its answer are one step.
   others, failed and listed of a job are history: what somebody else touched since
   the job began, the calls that failed, and the publications the table had when it
   began. *)
EXTENDS Naturals, Sequences, FiniteSets, Functions, SequencesExt

CONSTANTS
    Windows,    \* browser windows
    Slots,      \* the jobs of a window that may be under way at the same time (bound)
    Channels,   \* ids of channels; those not in use are what uuidv4 may return
    Egresses,   \* ids of publications
    StopTries,  \* how often a window looks whether a channel has stopped (60)
    PurgeTries, \* and for the answer of the manager (40)
    Starts      \* [env, process]: jobs that may happen, processes we begin with

\* An id of a publication is a string that is not empty.
ASSUME EgressesAssumption == IsFiniteSet(Egresses) /\ "" \notin Egresses

VARIABLES
    env,      \* jobs: those that may be begun; number: how many (bound); tasks: those
              \* that are used; autostart: kinds of processes that start when they are
              \* added; recorded: the channels with DVR enabled;
              \* failures: how many calls may fail (bound)
    process,  \* the Core: [order, running] of the processes it has
    control,  \* files of the control directory: requests, responses
    manager,  \* request: the one it serves, left: channels to clear
    windows,  \* [open, table, selected, onConnect, jobs]
    job,      \* of each task: what it is doing
    failures  \* so far

vars == <<env, process, control, manager, windows, job, failures>>

\* What goes on in a window: t[1] is the window of the task t.
Tasks == Windows \X Slots

\* Processes. A publication refers to its channel.
Ingest(c) == <<"ingest", c, "">>
Snapshot(c) == <<"snapshot", c, "">>
Preview(c) == <<"h264", c, "">>
Egress(c, e) == <<"egress", c, e>>
Processes == DOMAIN process
\* The table of a window, among the things jobs touch
Listing(w) == <<"table", w, "">>

NoJob == [type |-> "none"]
\* type: what it does; step: where it is; channel, egress: what it is for;
\* calls: those to come, of which the first is on its way; number: of its request;
\* channels, left, stopped, tries: of a removal.
Job(type, step, channel, egress, channels, number) ==
    [type |-> type, step |-> step, channel |-> channel, egress |-> egress, calls |-> <<>>,
     number |-> number, channels |-> channels, left |-> channels, stopped |-> {}, tries |-> 0,
     listed |-> {}, others |-> {}, failed |-> {}]
Entry(egresses, available) == [egresses |-> egresses, available |-> available]

-----------------------------------------------------------------------------
(* The Core *)

With(id, order, running) ==
    [p \in Processes \cup {id} |-> IF p = id THEN [order |-> order, running |-> running] ELSE process[p]]

\* A process that is updated keeps its order and is started anew if it has to run; a
\* new one starts by itself if its settings say so.
CoreAfter(call) ==
    LET id == call.id
        starts == process[id].order = "start"
        autostart == id[1] \in env.autostart
    IN  CASE call.do = "delete" -> Restrict(process, Processes \ {id})
          [] call.do = "start" -> IF id \in Processes THEN With(id, "start", TRUE) ELSE process
          [] call.do = "stop" ->
                IF id \in Processes THEN With(id, "stop", process[id].running) ELSE process
          [] OTHER -> IF id \in Processes THEN With(id, process[id].order, starts)
                      ELSE With(id, IF autostart THEN "start" ELSE "stop", autostart)

\* The Core answers a command for a process it does not have with an error; a
\* deletion of it is none (_deleteProcess).
Answer(call, outcome) ==
    outcome = "ok" /\ (call.do \in {"delete", "upsert"} \/ call.id \in Processes)

\* A process that was stopped ends.
Ends(id) ==
    /\ process[id].order = "stop" /\ process[id].running
    /\ process' = With(id, "stop", FALSE)
    /\ UNCHANGED <<env, control, manager, windows, job, failures>>

\* A call fails on its way there or on its way back.
Outcome(outcome) ==
    /\ outcome # "ok" => failures < env.failures
    /\ failures' = IF outcome = "ok" THEN failures ELSE failures + 1
Arrives(outcome) == outcome # "failed"

-----------------------------------------------------------------------------
(* The table of a window *)

\* _discoverChannels; a list that could not be read is empty.
Discovered(outcome) ==
    LET known == IF outcome = "ok" THEN { c \in Channels : Ingest(c) \in Processes } ELSE {}
    IN  [c \in known |-> Entry({ e \in Egresses : Egress(c, e) \in Processes }, TRUE)]

\* An id nobody uses: uuidv4
Fresh ==
    Channels \ UNION ({ DOMAIN windows[w].table : w \in Windows } \cup { {p[2]} : p \in Processes }
                      \cup { {job[t].channel} \cup job[t].channels : t \in { u \in Tasks : job[u] # NoJob } })

\* CreateChannel
Created(table, c) == [d \in DOMAIN table \cup {c} |-> IF d = c THEN Entry({}, FALSE) ELSE table[d]]
\* A table is never empty.
Filled(table) == IF DOMAIN table # {} THEN {table} ELSE { Created(table, c) : c \in Fresh }

Open(w, outcome) ==
    /\ w \in { t[1] : t \in env.tasks } /\ ~windows[w].open /\ Outcome(outcome)
    /\ \E table \in Filled(Discovered(outcome)) : \E c \in DOMAIN table :
          windows' = [windows EXCEPT ![w] = [@ EXCEPT !.open = TRUE, !.table = table, !.selected = c]]
    /\ UNCHANGED <<env, process, control, manager, job>>

\* The window is closed or reloaded, whatever it is doing.
Close(w) ==
    /\ windows[w].open
    /\ windows' = [windows EXCEPT ![w] =
                      [@ EXCEPT !.open = FALSE, !.table = <<>>, !.selected = "", !.onConnect = FALSE]]
    /\ job' = [t \in Tasks |-> IF t[1] = w THEN NoJob ELSE job[t]]
    /\ UNCHANGED <<env, process, control, manager, failures>>

Table(w) == windows[w].table
EgressesOf(w, c) == Table(w)[c].egresses

\* Every job but that of t notices what was touched.
Noticed(t, ids) ==
    [u \in Tasks |-> IF u # t /\ job[u] # NoJob
                     THEN [job[u] EXCEPT !.others = job[u].others \cup ids] ELSE job[u]]

\* SelectChannel: the pages of a channel select it when they are opened. What a page
\* left before remembers is gone.
Select(w, c) ==
    /\ windows[w].open /\ c \in DOMAIN Table(w)
    /\ c # windows[w].selected \/ windows[w].onConnect
    /\ windows' = [windows EXCEPT ![w] = [@ EXCEPT !.selected = c, !.onConnect = FALSE]]
    /\ job' = IF c = windows[w].selected THEN job ELSE Noticed(<<>>, {Listing(w)})
    /\ UNCHANGED <<env, process, control, manager, failures>>

\* handleAddChannel
AddChannel(w) ==
    /\ windows[w].open /\ "add" \in env.jobs
    /\ \E c \in Fresh :
          windows' = [windows EXCEPT ![w] =
                        [@ EXCEPT !.table = Created(Table(w), c), !.selected = c, !.onConnect = FALSE]]
    /\ job' = Noticed(<<>>, {Listing(w)})
    /\ UNCHANGED <<env, process, control, manager, failures>>

-----------------------------------------------------------------------------
(* Jobs *)

Start(id) == [do |-> "start", id |-> id]
Stop(id) == [do |-> "stop", id |-> id]
Delete(id) == [do |-> "delete", id |-> id]
Upsert(id) == [do |-> "upsert", id |-> id]
\* A call that is replaced by those of StopAllEgresses when its turn comes
StopAll(c) == [do |-> "stopall", id |-> Egress(c, "")]

\* The publications of a channel in the order of its table
Listed(table, c) == SetToSeq(table[c].egresses)
StopAllEgresses(table, c) == [i \in DOMAIN Listed(table, c) |-> Stop(Egress(c, Listed(table, c)[i]))]

Connect(c) == <<Start(Ingest(c)), Start(Snapshot(c))>>
\* mutant: publications go on
Disconnect_KeepsEgresses(c) == <<Stop(Snapshot(c)), Stop(Ingest(c))>>
Disconnect(c) == <<Stop(Snapshot(c)), Stop(Ingest(c)), StopAll(c)>>
DeleteChannel(table, c) ==
    StopAllEgresses(table, c) \o <<Delete(Ingest(c)), Delete(Snapshot(c))>>
    \o [i \in DOMAIN Listed(table, c) |-> Delete(Egress(c, Listed(table, c)[i]))]
\* handleDone of the page of a channel
SaveIngest(c) == <<Upsert(Ingest(c)), Upsert(Snapshot(c)), Upsert(Preview(c))>>
\* handleDone of the wizard
SaveWizard(c) == <<Upsert(Ingest(c)), Upsert(Snapshot(c))>>
\* handleSourceEditDialogDone: a channel is stopped before its sources are edited.
EditSource(c) == <<Stop(Ingest(c)), Stop(Snapshot(c))>>
\* onConnect: the picture is made anew.
Refresh(c) == <<Stop(Snapshot(c)), Start(Snapshot(c))>>

Calls(table, type, c, e) ==
    CASE type = "connect" -> Connect(c)
      [] type = "disconnect" -> Disconnect(c)
      [] type = "reconnect" -> Disconnect(c) \o Connect(c)
      [] type = "refresh" -> Refresh(c)
      [] type = "delete" -> DeleteChannel(table, c)
      [] type = "save" -> SaveIngest(c)
      [] type = "wizard" -> SaveWizard(c)
      [] type = "edit" -> EditSource(c)
      [] type \in {"publish", "update"} -> <<Upsert(Egress(c, e))>>
      [] type = "unpublish" -> <<Delete(Egress(c, e))>>
      [] type = "start egress" -> <<Start(Egress(c, e))>>
      [] type = "stop egress" -> <<Stop(Egress(c, e))>>
      [] type \in {"restart egress", "reconnect egress"} -> <<Stop(Egress(c, e)), Start(Egress(c, e))>>

\* GetChannel and its list of publications: what the table does not have is not asked
\* for, apart from what StopAllEgresses has read before.
Known(table, type, call) ==
    \/ /\ call.id[2] \in DOMAIN table
       /\ call.id[3] # "" => call.id[3] \in table[call.id[2]].egresses
    \/ call.do = "stop" /\ call.id[3] # "" /\ type \in {"disconnect", "reconnect", "delete"}

\* The job goes on with these calls, of which the first is made now if it is known.
GoesOn(j, table, calls) ==
    LET c == j.channel
        all == calls # <<>> /\ Head(calls).do = "stopall" /\ c \in DOMAIN table
        come == IF all THEN StopAllEgresses(table, c) \o Tail(calls) ELSE calls
    IN  [j EXCEPT !.calls = come,
                  !.step = IF come = <<>> THEN "done"
                           ELSE IF Known(table, j.type, Head(come)) THEN "calls" ELSE "skip"]

\* connect() sets onConnect before its first call.
Connects(j) == /\ j.type \in {"connect", "reconnect"}
               /\ j.calls # <<>> /\ Head(j.calls) = Start(Ingest(j.channel))
Shown(window, j) ==
    [window EXCEPT !.onConnect = @ \/ (Connects(j) /\ window.selected = j.channel)]

Begin(t, next, table) ==
    LET w == t[1]
    IN  /\ t \in env.tasks /\ next.type \in env.jobs
        /\ windows[w].open /\ job[t] = NoJob /\ windows[w].jobs < env.number
        /\ windows' = [windows EXCEPT ![w] =
                          Shown([@ EXCEPT !.jobs = windows[w].jobs + 1, !.table = table], next)]
        /\ job' = [job EXCEPT ![t] = next]
        /\ UNCHANGED <<env, process, control, manager, failures>>

NewJob(w, type, step, c, e, channels) == Job(type, step, c, e, channels, windows[w].jobs + 1)

\* On the pages of the selected channel, which for some jobs has to exist
BeginOn(t, type) ==
    LET w == t[1]
        c == windows[w].selected
        new == [NewJob(w, type, "calls", c, "", {}) EXCEPT !.listed = EgressesOf(w, c)]
    IN  /\ windows[w].open
        /\ type \in {"connect", "disconnect", "reconnect", "delete", "save", "wizard", "edit"}
        /\ type \in {"connect", "disconnect", "reconnect"} => Table(w)[c].available
        /\ Begin(t, GoesOn(new, Table(w), Calls(Table(w), type, c, "")), Table(w))

\* CreateEgress: the table has the publication before the Core has.
Announced(table, c, e) == [table EXCEPT ![c] = Entry(@.egresses \cup {e}, @.available)]
Publish(t, e) ==
    LET w == t[1]
        c == windows[w].selected
        table == Announced(Table(w), c, e)
    IN  /\ windows[w].open /\ Table(w)[c].available
        /\ \A v \in Windows, d \in Channels :
              /\ Egress(d, e) \notin Processes
              /\ d \in DOMAIN Table(v) => e \notin EgressesOf(v, d)
        /\ \A u \in Tasks : job[u] # NoJob => job[u].egress # e /\ e \notin job[u].listed
        /\ Begin(t, GoesOn(NewJob(w, "publish", "calls", c, e, {}), table, Calls(table, "publish", c, e)), table)

\* UpdateEgress, DeleteEgress; handleOrderChange and handleServiceAction
OnEgress(t, type, e) ==
    LET w == t[1]
        c == windows[w].selected
    IN  /\ type \in {"update", "unpublish", "start egress", "stop egress", "restart egress", "reconnect egress"}
        /\ windows[w].open /\ e \in EgressesOf(w, c)
        /\ Begin(t, GoesOn(NewJob(w, type, "calls", c, e, {}), Table(w), Calls(Table(w), type, c, e)), Table(w))

\* The page of the selected channel looks once a second how it is.
Delivers(w) ==
    LET id == Ingest(windows[w].selected)
    IN  /\ windows[w].open /\ windows[w].selected \in DOMAIN Table(w)
        /\ id \in Processes /\ process[id].order = "start" /\ process[id].running

\* It is seen connecting: it has no picture yet.
SeesConnecting(w) ==
    /\ "refresh" \in env.jobs /\ Delivers(w) /\ ~windows[w].onConnect
    /\ windows' = [windows EXCEPT ![w] = [@ EXCEPT !.onConnect = TRUE]]
    /\ UNCHANGED <<env, process, control, manager, job, failures>>
\* It is seen connected: onConnect is due in a tenth of a second.
SeesConnected(t) ==
    LET w == t[1]
    IN  /\ t \in env.tasks /\ job[t] = NoJob /\ Delivers(w) /\ windows[w].onConnect
        /\ windows' = [windows EXCEPT ![w] = [@ EXCEPT !.onConnect = FALSE]]
        /\ job' = [job EXCEPT ![t] = Job("refresh", "timer", windows[w].selected, "", {}, 0)]
        /\ UNCHANGED <<env, process, control, manager, failures>>
OnConnect(t) ==
    LET j == job[t]
    IN  /\ j # NoJob /\ j.step = "timer"
        /\ job' = [job EXCEPT ![t] = GoesOn(j, Table(t[1]), Calls(Table(t[1]), j.type, j.channel, ""))]
        /\ UNCHANGED <<env, process, control, manager, windows, failures>>

Withdrawn(table, c, e) ==
    IF c \in DOMAIN table THEN [table EXCEPT ![c] = Entry(@.egresses \ {e}, @.available)] ELSE table
Stored(table, c) == IF c \in DOMAIN table THEN [table EXCEPT ![c] = Entry(@.egresses, TRUE)] ELSE table

\* What the table is after a call: DeleteEgress looks the publication up in the
\* channel and removes it from the selected one.
TableAfter(w, type, call, ok) ==
    LET c == call.id[2]
        e == call.id[3]
    IN  CASE call.do = "delete" /\ e # "" /\ ok -> Withdrawn(Table(w), windows[w].selected, e)
          [] type = "publish" /\ ~ok -> Withdrawn(Table(w), c, e)
          [] call = Upsert(Ingest(c)) /\ ok -> Stored(Table(w), c)
          [] OTHER -> Table(w)

\* Whether the calls after one that failed are made
Persists(type, call) ==
    /\ call.do = "upsert" => call.id[1] # "ingest"
    /\ type \notin {"edit", "restart egress"}

\* What a job is after a call
After(j, table, ok) ==
    LET rest == Tail(j.calls)
        on == ok \/ Persists(j.type, Head(j.calls))
    IN  GoesOn([j EXCEPT !.failed = j.failed \cup (IF ok THEN {} ELSE {Head(j.calls)})],
               table, IF on THEN rest ELSE <<>>)

Deleted(j) == j.type = "delete" /\ j.step = "done"
\* mutant: the window stays with the channel that was deleted
Ended_KeepsSelected(window, ended) ==
    IF ~Deleted(ended) THEN {Shown(window, ended)}
    ELSE { [window EXCEPT !.table = table] :
           table \in Filled(Restrict(window.table, DOMAIN window.table \ {ended.channel})) }
\* The end of a deletion removes the channel from the table.
Ended(window, ended) ==
    IF ~Deleted(ended) THEN {Shown(window, ended)}
    ELSE UNION { { [window EXCEPT !.table = table, !.selected = c, !.onConnect = FALSE] : c \in DOMAIN table } :
                 table \in Filled(Restrict(window.table, DOMAIN window.table \ {ended.channel})) }

\* The window goes on with the next call of a job.
Goes(t, next, table, touched) ==
    LET w == t[1]
    IN  /\ \E window \in Ended([windows[w] EXCEPT !.table = table], next) :
              windows' = [windows EXCEPT ![w] = window]
        /\ job' = [Noticed(t, touched \cup (IF Deleted(next) THEN {Listing(w)} ELSE {})) EXCEPT ![t] = next]

Call(t, outcome) ==
    LET j == job[t]
        call == Head(j.calls)
        ok == Answer(call, outcome)
        table == TableAfter(t[1], j.type, call, ok)
    IN  /\ j # NoJob /\ j.step = "calls" /\ Outcome(outcome)
        /\ process' = IF Arrives(outcome) THEN CoreAfter(call) ELSE process
        /\ Goes(t, After(j, table, ok), table, IF Arrives(outcome) THEN {call.id} ELSE {})
        /\ UNCHANGED <<env, control, manager>>

\* A call for something unknown is not made and counts as one that failed.
Skip(t) ==
    /\ job[t] # NoJob /\ job[t].step = "skip"
    /\ Goes(t, After(job[t], Table(t[1]), FALSE), Table(t[1]), {})
    /\ UNCHANGED <<env, process, control, manager, failures>>

\* The page shows how it went and goes on.
Leave(t) ==
    /\ job[t] # NoJob /\ job[t].step = "done"
    /\ job' = [job EXCEPT ![t] = NoJob]
    /\ UNCHANGED <<env, process, control, manager, windows, failures>>

-----------------------------------------------------------------------------
(* PurgeDVRChannels: stop the channels, ask the manager, start them again *)

RequestOf(t) == <<t[1], job[t].number>>
Purging(t, step) == job[t] # NoJob /\ job[t].type = "purge" /\ job[t].step = step
JobIs(t, next) == job' = [job EXCEPT ![t] = next] /\ UNCHANGED windows
\* A job goes on after it touched a process.
Touched(t, id, outcome, next) ==
    job' = [Noticed(t, IF Arrives(outcome) THEN {id} ELSE {}) EXCEPT ![t] = next]

\* PurgeDVR: on the page of the channel; PurgeAllDVR: all that are recorded
Purge(t, channels) ==
    /\ channels # {}
    /\ Begin(t, NewJob(t[1], "purge", "look", "", "", channels), Table(t[1]))
PurgeOne(t) ==
    LET w == t[1]
    IN  windows[w].open /\ Table(w)[windows[w].selected].available /\ Purge(t, {windows[w].selected})
PurgeAll(t) == Purge(t, DOMAIN Table(t[1]) \cap env.recorded)

\* GetIngestProgress: a channel the table does not have, a process that is not found, or
\* a call that fails, is a channel that does not run.
Seen(w, c, outcome) == c \in DOMAIN Table(w) /\ outcome = "ok"
Order(w, c, outcome) ==
    IF Seen(w, c, outcome) /\ Ingest(c) \in Processes THEN process[Ingest(c)].order ELSE "stop"
\* mutant: a process that was told to stop is taken for one that has stopped
AtRest_Ordered(w, c, outcome) == Order(w, c, outcome) = "stop"
AtRest(w, c, outcome) ==
    \/ ~Seen(w, c, outcome) \/ Ingest(c) \notin Processes
    \/ process[Ingest(c)].order # "start" /\ ~process[Ingest(c)].running
\* history: nothing is known of a channel whose state could not be read.
Unseen(w, c, outcome) == IF Seen(w, c, outcome) THEN {} ELSE {Stop(Ingest(c))}

Look(t, c, outcome) ==
    LET j == job[t]
        w == t[1]
    IN  /\ Purging(t, "look") /\ c \in j.left /\ Outcome(outcome)
        /\ JobIs(t, IF Order(w, c, outcome) = "start" THEN [j EXCEPT !.step = "stop", !.channel = c]
                    ELSE [j EXCEPT !.left = j.left \ {c}, !.failed = j.failed \cup Unseen(w, c, outcome)])
        /\ UNCHANGED <<env, process, control, manager>>

Asked(t) ==
    /\ Purging(t, "look") /\ job[t].left = {}
    /\ JobIs(t, [job[t] EXCEPT !.step = "wait", !.left = job[t].stopped])
    /\ UNCHANGED <<env, process, control, manager, failures>>

\* preparationError: no request is made, what was stopped is started.
Unprepared(j) == [j EXCEPT !.step = "restart", !.left = j.stopped]

StopIngest(t, outcome) ==
    LET j == job[t]
        call == Stop(Ingest(j.channel))
    IN  /\ Purging(t, "stop") /\ Outcome(outcome)
        /\ process' = IF Arrives(outcome) THEN CoreAfter(call) ELSE process
        /\ Touched(t, call.id, outcome,
               IF Answer(call, outcome)
               THEN [j EXCEPT !.step = "look", !.left = j.left \ {j.channel},
                              !.stopped = j.stopped \cup {j.channel}]
               ELSE Unprepared([j EXCEPT !.failed = j.failed \cup {call}]))
        /\ UNCHANGED <<env, control, manager, windows>>

\* _waitForIngestStopped
Wait(t, c, outcome) ==
    LET j == job[t]
        w == t[1]
    IN  /\ Purging(t, "wait") /\ c \in j.left /\ Outcome(outcome)
        /\ JobIs(t, IF AtRest(w, c, outcome)
                    THEN [j EXCEPT !.left = j.left \ {c}, !.tries = 0,
                                   !.failed = j.failed \cup Unseen(w, c, outcome)]
                    ELSE IF j.tries + 1 < StopTries THEN [j EXCEPT !.tries = j.tries + 1]
                    ELSE Unprepared(j))
        /\ UNCHANGED <<env, process, control, manager>>

\* _requestDVRPurge. A request that arrived although its call failed is left there.
PutRequest(t, outcome) ==
    LET j == job[t]
    IN  /\ Purging(t, "wait") /\ j.left = {} /\ Outcome(outcome)
        /\ control' = IF Arrives(outcome) THEN [control EXCEPT !.requests = @ @@ (RequestOf(t) :> j.channels)]
                      ELSE control
        /\ JobIs(t, IF outcome = "ok" THEN [j EXCEPT !.step = "answer", !.tries = 0]
                    ELSE Unprepared(j))
        /\ UNCHANGED <<env, process, manager>>

\* The answer is there and is read, or a call fails, or there is none in time.
LookForAnswer(t, outcome) ==
    LET j == job[t]
        over == [j EXCEPT !.step = "request"]
    IN  /\ Purging(t, "answer") /\ Outcome(outcome)
        /\ JobIs(t, IF RequestOf(t) \in control.responses \/ outcome # "ok" THEN over
                    ELSE IF j.tries + 1 < PurgeTries THEN [j EXCEPT !.tries = j.tries + 1]
                    ELSE over)
        /\ UNCHANGED <<env, process, control, manager>>

\* finally: both files are deleted.
DeleteRequest(t, outcome) ==
    /\ Purging(t, "request") /\ Outcome(outcome)
    /\ control' = IF Arrives(outcome) THEN [control EXCEPT !.requests =
                                              Restrict(@, DOMAIN @ \ {RequestOf(t)})] ELSE control
    /\ JobIs(t, [job[t] EXCEPT !.step = "response"])
    /\ UNCHANGED <<env, process, manager>>
DeleteResponse(t, outcome) ==
    /\ Purging(t, "response") /\ Outcome(outcome)
    /\ control' = IF Arrives(outcome) THEN [control EXCEPT !.responses = @ \ {RequestOf(t)}] ELSE control
    /\ JobIs(t, Unprepared(job[t]))
    /\ UNCHANGED <<env, process, manager>>

\* StartIngest makes no call for a channel the table does not have any more.
StartAgain(t, c, outcome) ==
    LET j == job[t]
        call == Start(Ingest(c))
        known == c \in DOMAIN Table(t[1])
        done == known /\ Answer(call, outcome)
    IN  /\ Purging(t, "restart") /\ c \in j.left
        /\ (known /\ Outcome(outcome)) \/ (~known /\ outcome = "failed" /\ UNCHANGED failures)
        /\ process' = IF Arrives(outcome) THEN CoreAfter(call) ELSE process
        /\ Touched(t, call.id, outcome,
               [j EXCEPT !.left = j.left \ {c}, !.failed = j.failed \cup (IF done THEN {} ELSE {call})])
        /\ UNCHANGED <<env, control, manager, windows>>
Purged(t) ==
    /\ Purging(t, "restart") /\ job[t].left = {}
    /\ JobIs(t, [job[t] EXCEPT !.step = "done"])
    /\ UNCHANGED <<env, process, control, manager, failures>>

-----------------------------------------------------------------------------
(* The manager: process_control_requests *)

Resting == [request |-> <<>>, left |-> {}]

ReadRequest(id) ==
    /\ manager = Resting /\ id \in DOMAIN control.requests
    /\ LET channels == control.requests[id]
           known == { c \in Channels : Ingest(c) \in Processes }
       IN  manager' = [request |-> id, left |-> IF channels \subseteq known THEN channels ELSE {}]
    /\ UNCHANGED <<env, process, control, windows, job, failures>>

\* purge_dvr_content: the files of a channel; an error ends it.
Clear(c, fails) ==
    /\ c \in manager.left
    /\ fails => failures < env.failures
    /\ failures' = IF fails THEN failures + 1 ELSE failures
    /\ manager' = [manager EXCEPT !.left = IF fails THEN {} ELSE @ \ {c}]
    /\ UNCHANGED <<env, process, control, windows, job>>

WriteAnswer ==
    /\ manager # Resting /\ manager.left = {}
    /\ control' = [requests |-> Restrict(control.requests, DOMAIN control.requests \ {manager.request}),
                   responses |-> control.responses \cup {manager.request}]
    /\ manager' = Resting
    /\ UNCHANGED <<env, process, windows, job, failures>>

-----------------------------------------------------------------------------
Outcomes == {"ok", "failed", "lost"}
NewWindow == [open |-> FALSE, table |-> <<>>, selected |-> "", onConnect |-> FALSE, jobs |-> 0]

Init == /\ \E start \in Starts : env = start.env /\ process = start.process
        /\ control = [requests |-> <<>>, responses |-> {}]
        /\ manager = Resting
        /\ windows = [w \in Windows |-> NewWindow]
        /\ job = [t \in Tasks |-> NoJob]
        /\ failures = 0

PurgeSteps(t) ==
    \/ Asked(t) \/ Purged(t)
    \/ \E outcome \in Outcomes :
        \/ \E c \in Channels : \/ Look(t, c, outcome)
                             \/ Wait(t, c, outcome)
                             \/ StartAgain(t, c, outcome)
        \/ StopIngest(t, outcome) \/ PutRequest(t, outcome) \/ LookForAnswer(t, outcome)
        \/ DeleteRequest(t, outcome) \/ DeleteResponse(t, outcome)

Next ==
    \/ \E id \in Processes : Ends(id)
    \/ \E w \in Windows :
        \/ \E outcome \in Outcomes : Open(w, outcome)
        \/ Close(w) \/ AddChannel(w) \/ SeesConnecting(w)
        \/ \E c \in Channels : Select(w, c)
    \/ \E t \in Tasks :
        \/ \E outcome \in Outcomes : Call(t, outcome)
        \/ Skip(t) \/ Leave(t) \/ SeesConnected(t) \/ OnConnect(t)
        \/ \E type \in env.jobs : BeginOn(t, type) \/ \E e \in Egresses : OnEgress(t, type, e)
        \/ \E e \in Egresses : Publish(t, e)
        \/ PurgeOne(t) \/ PurgeAll(t)
        \/ PurgeSteps(t)
    \/ \E id \in DOMAIN control.requests : ReadRequest(id)
    \/ \E c \in Channels, fails \in BOOLEAN : Clear(c, fails)
    \/ WriteAnswer

Spec == Init /\ [][Next]_vars

-----------------------------------------------------------------------------
(* What a job is for *)

Has(id) == id \in Processes
Runs(id) == Has(id) /\ process[id].order = "start"

\* The publications of a channel a job began with that its table still has
There(j, table) ==
    IF j.channel \in DOMAIN table THEN j.listed \cap table[j.channel].egresses ELSE {}

\* The last thing a job does with each of the processes it is for, if the call before
\* it depends on did not fail
Promised(j, table) ==
    LET c == j.channel
        own == Egress(c, j.egress)
        main == {Ingest(c), Snapshot(c)}
        listed == { Egress(c, e) : e \in j.listed }
        there == { Egress(c, e) : e \in There(j, table) }
        need(call, calls) == IF call \in j.failed THEN {} ELSE calls
    IN  CASE j.type = "delete" -> { Delete(id) : id \in main \cup listed }
          [] j.type = "disconnect" -> { Stop(id) : id \in main \cup there }
          [] j.type = "reconnect" -> { Start(id) : id \in main } \cup { Stop(id) : id \in there }
          [] j.type = "connect" -> { Start(id) : id \in main }
          [] j.type = "refresh" -> {Start(Snapshot(c))}
          [] j.type = "edit" -> need(Stop(Ingest(c)), { Stop(id) : id \in main })
          [] j.type = "save" -> need(Upsert(Ingest(c)), { Upsert(id) : id \in main \cup {Preview(c)} })
          [] j.type = "wizard" -> need(Upsert(Ingest(c)), { Upsert(id) : id \in main })
          [] j.type \in {"publish", "update"} -> {Upsert(own)}
          [] j.type = "unpublish" -> {Delete(own)}
          [] j.type = "stop egress" -> {Stop(own)}
          [] j.type = "restart egress" -> need(Stop(own), {Start(own)})
          [] j.type \in {"start egress", "reconnect egress"} -> {Start(own)}
          [] j.type = "purge" -> { Start(Ingest(d)) : d \in j.stopped }
\* What a call is made for
Reached(call) ==
    CASE call.do = "delete" -> ~Has(call.id)
      [] call.do = "stop" -> ~Runs(call.id)
      [] call.do = "start" -> Runs(call.id)
      [] call.do = "upsert" -> Has(call.id)

(* The recordings of a channel are only removed while it does not record: it  *)
(* was stopped, has ended, and is started after the manager answered          *)
(* (PurgeDVRChannels, _waitForIngestStopped, _requestDVRPurge, README.md on    *)
(* the removal of recordings). Left out are a channel that another job or     *)
(* window touched, one whose state could not be read, and one that was told   *)
(* to stop before; and what a window left behind that gave up waiting for the *)
(* answer.                                                                    *)
PurgedAtRest ==
    \A t \in Tasks, c \in manager.left :
        /\ Purging(t, "answer") /\ manager.request = RequestOf(t)
        /\ c \in job[t].stopped /\ Ingest(c) \notin job[t].others /\ Stop(Ingest(c)) \notin job[t].failed
        /\ Has(Ingest(c))
        => ~process[Ingest(c)].running

(* While the manager removes the recordings of a channel it does not record:  *)
(* README.md:276-278, a running channel is stopped for a short time, its      *)
(* directory is cleared, and afterwards ("anschliessend") it is started.      *)
(* The window starts it also when there was no answer in time (restreamer.js  *)
(* 1400-1416, 1464-1478).                                                     *)
PurgedStopped ==
    \A c \in manager.left : Has(Ingest(c)) => ~process[Ingest(c)].running

(* When a job is over, every process it is for is as the job wanted it,       *)
(* whatever became of its other calls: nothing is left of a deleted channel   *)
(* but its preview, nothing runs of one that was disconnected but its         *)
(* preview, and a channel that was stopped for a removal runs again. Left out *)
(* are the processes whose own last call failed, or was not made, and those   *)
(* that another job or window touched meanwhile: also the page itself, which  *)
(* makes the picture of a channel anew when it sees it connected (onConnect). *)
(* (DeleteChannel, connect, disconnect, onConnect, PurgeDVRChannels,          *)
(* handleDone, handleOrderChange, handleServiceAction.)                       *)
JobsDone ==
    \A t \in Tasks :
        job[t] # NoJob /\ job[t].step = "done" =>
            \A call \in Promised(job[t], Table(t[1])) \ job[t].failed :
                call.id \notin job[t].others => Reached(call)

(* When a job is over the table of its window says what the Core has: a       *)
(* deleted channel is not in it, whatever failed, and there is always one to  *)
(* select; a channel that was saved exists, and a publication is in the table *)
(* when the Core has it. Left out for the latter are calls that failed and    *)
(* windows that selected another channel meanwhile, as DeleteEgress removes   *)
(* from the selected one (CreateEgress, DeleteEgress, SetChannel,             *)
(* DeleteChannel).                                                            *)
TableKept ==
    \A t \in Tasks :
        LET j == job[t]
            table == Table(t[1])
        IN  j # NoJob /\ j.step = "done" =>
            /\ windows[t[1]].selected \in DOMAIN table
            /\ j.type = "delete" => j.channel \notin DOMAIN table
            /\ j.failed = {} /\ Listing(t[1]) \notin j.others =>
                /\ j.type \in {"save", "wizard"} => table[j.channel].available
                /\ j.egress # "" /\ Egress(j.channel, j.egress) \notin j.others =>
                      (j.egress \in table[j.channel].egresses) = Has(Egress(j.channel, j.egress))
=============================================================================
