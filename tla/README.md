# Verification of Restreamer

TLA+ models of the parts of this repository that carry the program's own logic: in the Core
(`core/`, Go) the supervision of ffmpeg, the table of processes and the pool of ports; in the web
interface (`ui/`, JavaScript) the session, the pages that set up a channel, publish it and manage
channels, down to what ffmpeg is told. They are model-checked with TLC on small instances and, where
it matters most, proved with TLAPS for every value of the constants. `PROJECT.json` lists
components, runs, mutants, the lines every definition stands for, the hazards of the code and the
theorems.

Contents: 1 the system, 2 modules and their code, 3 runs, 4 bounds, 5 fairness, 6 proofs,
7 disagreements and faults seen, 8 what is not modelled, 9 what could come next.

## 1. The system

Restreamer is a Go program, the Core, that runs, supervises and publishes ffmpeg processes, and a web
interface that decides what these processes do: it probes sources, builds ffmpeg's command lines and
stores them in the Core together with its own data. Around them are a manager script in the
container that records and prunes the DVR (`bundle/livechasing-manager.py`), and an agent on the host
that installs updates (`scripts/nkl-update-agent.sh`). Page, manager and agent speak to each other
through request and response files.

| component | state it keeps | operations | talks to |
|---|---|---|---|
| process supervision, `core/process` | state and order of one program, its `exec.Cmd`, reconnect timer, kill timer, `onExit` | Start, Stop, Kill; callbacks of two timers, limiter, stale watcher, reader and waiter | operating system; called by `core/restream` |
| process table, `core/restream` | table of tasks, number of running processes, store | Start, Stop, Add, Update, Delete, Start/Stop/Restart/ReloadProcess, metadata, Probe, observer of the disk | process supervision, port pool, clean-up rules, `db.json` |
| port pool, `core/net/port.go` | flags of used ports, index of the first free one | Get, Put | the table |
| session of a page, `ui` `RestreamerUI.js`, `utils/api.js`, `utils/restreamer.js` | tokens, timer, cache of answers, what is known of the Core, which view is shown | every call of the API with its retry, Validate, Login, Logout, refresh timer, polls | the Core over HTTP, local storage |
| set-up of a channel, `ui` `views/Edit` with wizard, sources, `misc` coders and filters, `utils/metadata.js`, `utils/restreamer.js` | metadata of the channel: sources, profile, streams, control; page and wizard copies of it | probe, choose source, stream, coder, filters, controls; save | the Core: ingest, snapshot and preview processes |
| publication, `ui` `views/Publication` | settings, profile and outputs of a publication | add, edit, save, delete; 42 services | the Core: egress processes |
| channels, `ui` `utils/restreamer.js`, `views/Main` | table of channels of a window | connect, disconnect, save, delete, publish, purge recordings | the Core, the manager, other windows |
| DVR control and retention | request files, recorded segments, playlists | purge, retention, disk reserve | the page, the channels through the API, ffmpeg's files |
| update agent | lock directory, request and response, `.env`, container | one run per request, by a systemd path unit | the page, docker |
| sessions, `core/session` | pending and active sessions, counters, timers, history | Register, Activate, Ingress, Egress, Close, Stop | HLS and HTTP middleware, RTMP, SRT |
| clean-up rules, `core/restream/fs` | rules per process | SetCleanup, UnsetCleanup, periodic deletion | the table, the file systems |
| file systems, `core/io/fs` | files and sizes | write, append, rename, remove, purge | HTTP server, clean-up |
| HTTP cache, `core/http/cache` | LRU list, sizes | get, put, delete, expire | HTTP middleware |
| session middleware, RTMP, SRT | channels, subscribers, HLS sessions | publish, play, collect | sessions |
| ffmpeg wrapper and parser | progress and log of one ffmpeg | Parse, Stop | process supervision |
| api life cycle, `core/app/api` | which servers run | start, stop, reload | everything |
| HTTP interface, authentication, configuration, metrics, import, service and update check, settings and player pages, container start | see section 8 | | |

What is hard about it:

* **Supervision** is done by many goroutines that share the fields of `process` under several
  locks. The order lock orders Start, Stop, Kill, the reconnect callback and the end of the
  waiter; the kill timer, the stale watcher and most of the waiter run without it. Correct means:
  one live program at most, one restart per exit, a restart whenever one is due, none after Stop,
  every call answered, no goroutine that panics, a program that ignores SIGINT killed, and no other.
* **The table** is kept by hand in four places: the map, the counter of running processes, the
  pool of ports and the JSON store; ffmpeg has its own copy of the order. Each request changes several
  of them and can fail between any two. Correct means: a running ffmpeg owns its ports, a crash
  forgets nothing, the counter counts, the limit holds, the rules in force are those of the table.
* **The port pool** keeps an index beside its flags. Correct means that the index is right after
  exhaustion and double Puts.
* **The session of a page** is many asynchronous calls at once, each of which may find its token
  refused, refresh it and try again, while a timer refreshes too, answers come from a cache and the
  user logs in and out. Correct means: a session the Core accepts is not given up, one it does not
  accept is, a Core that asks for a login is never taken for an open one, no page stays blank.
* **Setting up a channel** spreads one decision (which stream, coded how, filtered how) over source
  inputs, stream numbers, coder settings, mappings and filter graphs, each kept by another component
  and handed back when that component is shown. Correct means: after any sequence of choices ffmpeg
  is told what the last ones say, and the clean-up rules fit the playlist.
* **A publication** has outputs made by its service, an encoding made by coders and a stored copy
  of the channel's streams, which change on different occasions. Correct means: the three agree,
  and codecs, container and protocol fit each other and the service.
* **Jobs on channels** are sequences of calls to the Core, of which each may fail or lose its answer,
  next to other windows, to the manager, and to jobs the page begins by itself. Correct means: when a job is
  over, processes and table are as it promises; recordings are removed of channels that do not record.
* **Core sessions** close from timers, from the callers and from Stop, and their objects are used
  again. **Retention and update** are programs that may be killed between any two commands. **File
  systems and cache** keep sizes beside files. These are not modelled (section 8).

`hazards` in `PROJECT.json` lists them at their lines; those without a property have a note.

## 2. Modules and the code they model

| module | models | theorems |
|---|---|---|
| `Process` | `core/process/process.go`, the use of `limits.go` | `Process_proof` |
| `Restream` | `core/restream/restream.go`, `store/json.go` | `Restream_proof` |
| `PortPool` | what the interface `Portranger` promises | |
| `Portrange` | `core/net/port.go`, implements `PortPool` | `Portrange_proof` |
| `Session` | `RestreamerUI.js`, `utils/api.js`, calls and tokens of `utils/restreamer.js` | `Session_proof` |
| `Coders` | `misc/coders/**` | `Coders_proof` (lemmas) |
| `Filters` | `misc/filters/**`, `misc/FilterSelect.js` | |
| `Metadata` | `utils/metadata.js` | |
| `EncodingSelect` | `misc/EncodingSelect.js` | |
| `Sources` | `views/Edit/Sources/**` | |
| `Ingest` | `utils/restreamer.js`: UpsertIngest, UpsertIngestSnapshot, UpsertIngestPreview; `misc/controls` | |
| `Editor` | `views/Edit/index.js`, `Profile.js`, `SourceSelect.js`, `StreamSelect.js` | `Editor_proof`, on the lemmas of `Coders_proof` |
| `Wizard` | `views/Edit/Wizard/**` | (as part of `Editor`) `Editor_proof` |
| `Services` | `views/Publication/Services/**` | (as part of `Publication`) `Publication_proof` |
| `Publication` | `views/Publication/Add.js`, `Edit.js`, `helper.js`, egress calls of `utils/restreamer.js` | `Publication_proof`, on the lemmas of `Coders_proof` |
| `Channels` | the table of channels and the jobs on them in `utils/restreamer.js`, `views/Main`; `process_control_requests` and `purge_dvr_content` of the manager | `Channels_proof` |
| `MC*` | instances for TLC | |

The modules of the web interface build on each other:

    Coders, Filters -> Metadata -> EncodingSelect -> Editor (with Sources, Ingest) -> Wizard
    Coders -> Services;  EncodingSelect, Services -> Publication

`Coders`, `Filters`, `Metadata`, `EncodingSelect`, `Sources`, `Ingest` and `Services` are pure: they
say what settings stand for. `Editor`, `Wizard` and `Publication` are the state machines that use them,
`Session` and `Channels` stand for themselves. `Wizard` and `Editor` share one Core and one channel,
so that what the wizard stores is what the page loads. `Portrange` implements `PortPool`, which is what
`Restream` assumes of its pool.

Definitions whose comment begins with "mutant:" are broken versions of the definition that follows
them. No specification uses them; they stand for bugs the properties would find.

### Process

An *actor* is a goroutine that can be inside Start, Stop, Kill or `start`: the callers, the goroutines
the limiter starts, of which several may be under way (`Limiters`), the callback of the reconnect timer
(`Timer`) and the stale watcher of a run (`Staler(r)`). `pc`, `op` and `wg` say where an actor is, in which method, and which WaitGroup it
waits for. A *run* is one `exec.Cmd`; beside the actors every run has a reader and waiter (`wpc`,
`wid`) and the goroutine that calls its `onExit` (`cb`). `owner` holds the order lock.

A method is split at every point where another goroutine can tell the difference: every access to
state that is not protected by the order lock is a step. So `Kill` is `Call` (reads the state
without the lock), `LockKill`, `Check`, `Get`, `Mark`, `Signal`, `Arm`, `Await`; the end of a
program is `Exit`, `Read`, `Wait`, `SetExit`, `StopLimits`, `Cleanup`, `LockReconnect`. `Read` may end before
the program does, as a scanner may, and `start` lets the reader go (`Run`) before it notes how to stop the stale
watcher (`Watcher`). `setState`
is the table `Transitions`; like its callers the model goes on when it refuses. `p.cmd` may be
another run than the one a waiter or kill timer was started for; `wid` and `KillProcess` keep this.
What `Wait`, `Signal` and `Kill` of package os do for a process that is alive, a zombie, collected
or not there is external and part of the respective actions. A panic sets `crashed` and ends the
server.

Numbers of runs and WaitGroups are used again when nothing refers to them, so behaviours are
unbounded while the state space is finite.

Abstracted: output, arguments, times, CPU and memory values (the limiter may call Kill whenever a
process is attached and running), exit codes (`SetExit` picks any outcome).

### Restream

One action is one critical section of `r.lock`. Two methods let go of it half way and are split:
`AddProcess` (`AddBegin`, `AddPort`, `AddNoPort` under the read lock, next to other calls,
`AddInsert` under the write lock) and `observe` (`Tick`, `Observe`). The helpers `startProcess`,
`stopProcess`, `Refused` bear the names of the code; they work on a pair of table and counter. A
task records validity, order, configuration, the order its ffmpeg was given last, the ports it holds
(`playout`) and the ports in the arguments of its ffmpeg (`command`). `stored` is `db.json`.
`Load`, `LoadTask` (in any order, as a Go map is ranged over) and `Loaded` are `New`; `Start` and
`Stop` the service; `Down` is the end of the program at any moment, after which only `stored`
remains. Every error path that changes state has an action (`AddNoPort`, `UpdateFails`,
`ReloadFails`, the branches of `AddInsert` and of `LoadTask`).

`Window` lets requests in before Start and after Stop: `core/app/api` starts its HTTP servers
before it calls `restream.Start` and closes them after `restream.Stop`. `Again` starts an instance
again after Stop.

Abstracted: ffmpeg is seen through `Status().Order` only, which Start and Stop set (that they do so
is what `Process` models); a configuration is its id, the process it refers to, the number of
playout inputs and three flags; addresses resolve when the other process exists; the pool returns
any free port, which is what `PortPool` says. A playout port range is configured. A request that
fails in static validation changes nothing and is no step. Writing the store succeeds (a hazard:
the code ignores the error).

### Portrange and PortPool

`Portrange` has an action per method on the array of flags and the index, with the clamping of
`NewPortrange`. `PortPool` is the promise of the interface: a port of the range that nobody has, an
error only when all are handed out. `Portrange` implements it with the ports flagged used as the
ports handed out, so what `Restream` assumes of its pool is what the code provides.

### Session

JavaScript runs one piece of code from one `await` to the next. Every asynchronous function that is
waiting is a *task*: the polls of the views (`Polls`), the executions of `handleLogout` (`Logouts`), the
refresh timer, the start of the page (`mount`) and the login. A task records which method of the API
it called (`fn`), where `_call` is in it (`phase`: first attempt, refresh, second attempt) and what the
request carried (`sent`). An action is what runs when the answer arrives: `CallAnswered`,
`RefreshedForCall`, `RetryAnswered` are the three parts of `_call`; `RefreshAnswered` and `AboutAnswered`
those of `Validate` and `_initWithToken`. Answers arrive in any order; the server settles them when it gets
the request. The state of the page is one record which the functions of the code (`Send`, `Done`,
`SetAccessToken`, `AuthEvent`, `Logout`...) map to another.

A refused refresh dispatches the event that begins a logout more than once: in `_call`, where it was asked for, and
for what the call itself was answered (`CallRefused`, `RefreshFailed`).

A credential is none, live or dead. The cache of `api.js` gives the answer of the second before, errors
too; which requests share a key is a constant. `ignoring` is `IgnoreAPIErrors` during
`InstallLatestUpdate`. `Reload` keeps the local storage, which holds the refresh token only.

### Coders, Filters, Metadata, EncodingSelect

One definition for each file of a coder or filter: for which codecs it is, the settings it begins with,
the options (`createMapping`) or graph (`createGraph`) it makes of settings, stream and version of
ffmpeg. Options are pairs of name and value; those nothing depends on (bit rate, preset, tune) are left
out. `Metadata` has the default data, the repair of data of earlier versions (`InitProfile`, `InitIngestMetadata`),
`PreselectProfile`, `CleanupProfile`, `CreateInputsOutputs` with the numbering of `-map`, and
`CreateOutputStreams`. `EncodingSelect` is the choice of coder with its fall-backs and
what a mounted component hands back.

### Sources, Ingest

`CreateInputs` of every source: address and options as pairs. `Ingest` has the files of a channel, its
playlist and the clean-up rules (`max_files`, `max_age`, purge on delete) that UpsertIngest, UpsertIngestSnapshot
and UpsertIngestPreview make of the controls. A source that reads the channel's own stream from the Core's RTMP or
SRT server keeps that stream from being written as well (`ReadsItself`).

### Editor, Wizard

`env` says what ffmpeg has, what probes may find and which choices are offered; `core` is the channel
in the Core; `page` the page; `count` bounds the user's changes. A probe covers the page until its answer
is there, so it is one action. Components of coders and filters hand their settings back when they are
mounted; this is done by `Rendered` at the end of every action, never as an action of its own. Each
choice of the user is an action named after its handler; `Save` goes through
handleDone: its argument says which of the calls after the first (metadata, snapshot, preview) reach the
Core, `SaveFails` is the first one failing, `SaveThrows` the exception that leaves the page covered.
In `Wizard` the steps are those of `index.js`; the sources of the wizard have
a step of their own. The pages have code for a source "hls" which is not registered (`Wizard/Sources/index.js`), so
no button leads there.

### Services, Publication

`ServiceOf` gives for each service what it requires of ffmpeg, its first settings and the outputs its
`createOutput` makes. `Publication` has the pages Add and Edit with their tabs, the preselection of a profile, the conflation of
a service's skills with ffmpeg's, CreateEgress, UpdateEgress, SetEgressMetadata and DeleteEgress with
failures; the streams of the channel change at any time, and the publication may be deleted elsewhere. Flags of
low delay and the options of limits are left out: nothing depends on them.
Components of a tab report in one rendering with the settings it was rendered with, so the last one
wins (`Rendered`).

### Channels

`process` is what the Core runs: order and whether the program runs, for ingest, snapshot, preview and
publications; one that was told to stop takes its time to end (`Ends`). `windows` have a table, the selected channel,
and whether the page is waiting to see it connected (`onConnect`). A window may have several jobs under way, one in each
of its `Slots`; a *task* is a window and a slot, `job` what it is doing. What the page begins by itself is a job like
any other: when it sees its channel connecting (`SeesConnecting`, or in `connect` itself) and then connected
(`SeesConnected`) it stops and starts the snapshot a tenth of a second later (`OnConnect`, then the calls of
`Refresh`), whatever else the window is doing by then. The others are what a user starts: connect, disconnect, reconnect,
save, the wizard, editing the sources, delete; adding, updating, deleting, starting, stopping and restarting a publication; a
purge.

A job other than a purge is a sequence of calls taken one by one by `Call`: the effect in the Core and what the page does
with the answer are one step, and between two calls everything else may happen. `Persists` says after which
error the rest is made all the same, `Skip` is a call that is not made since the table does not know what it is for.
StopAllEgresses reads the table when its turn comes (`GoesOn`). A purge goes
through the steps look (`GetIngestProgress`), stop, wait (`_waitForIngestStopped`), answer
(`_requestDVRPurge`), request and response (removal of the files), restart. A call may fail before it
has an effect or lose its answer after it. `Close` is a window closed or reloaded at any moment. `control`
are the files between window and manager; `ReadRequest`, `Clear`, `WriteAnswer` are the manager.

Of each job, `others` records what somebody else touched since it began, be it another job of the window, `failed` the calls
that failed or were not made, `listed` the publications its table had when it began. They are history: only the properties
read them.

## 3. Runs

| run | instance | shows |
|---|---|---|
| `process_restart` | one caller, Start and Kill(true), Reconnect, stale watcher | while nobody calls Stop: one live program at most, and the armed timer, the fired callback, the goroutine in `start` and the unfinished waiter exclude each other; `RestartInv` is the invariant of the proof |
| `process_oneshot` | Start and Kill, no Reconnect, stale watcher, two goroutines of the limiter, fair | a live program always counts as running, nothing panics, only a program asked to finish is killed; a stale or finishing program ends, every call returns |
| `process_ordered` | two callers of Start and Stop, Reconnect | while the order is stop only a restart scheduled before starts the program, and when none is left nothing comes back |
| `process_retry` | two callers of Start, Reconnect, fair | while the order is start the program runs again and again, also when it cannot be started for a while |
| `restream_ports` | three ids, playout inputs, a reference, disk output, clean-up rules, limit 2, two AddProcess calls, Window, Again | playout ports of a running ffmpeg are its own, a crash forgets nothing, the rules in force are those of the table |
| `restream_limit` | three plain processes, limit 2, no Window | the counter counts the running processes and the limit holds |
| `portrange` | seven ports, minimum clamped | index right, `PortPool` implemented |
| `session` | two views, two logouts, fair | `RequiresLoginKept`, `StaysLoggedIn`: a page keeps a session the Core accepts; `LeavesRouter`, `ShowsAView`: it gives up one that is over, and always comes back to a view |
| `editor` | every encoder, decoder, source, pair of filters, the controls, streams, wizard, data of an old version | `AudioAsChosen`, `EncodesAsListed`, `InputsCurrent`, `FiltersAsSet`, `FilesKept`: what is saved is what was chosen last |
| `publication` | every service; decoders and filters; failures and another window; an older ffmpeg; old data | `CodecsAllowed`, `OutputsCurrent`, `MuxerFits`: what a service is sent has its codecs, is what the settings say, and goes in a format that carries it |
| `channels` | every job one after the other; two jobs of a window at a time; calls that fail; two windows; the manager | `PurgedAtRest`: recordings are removed at rest; `JobsDone`: a job that is over did what it promises; `TableKept`: then the table says what the Core has |
| `wizard_v_silence` | the wizard | violated: the silence it recommends is saved as the video stream |

Most runs also carry the type invariant of their module; `restream_ports` also the parts of the
inductive invariants (`TasksOK`, `PortsApart`) that section 6 proves.

Beside the runs there are configurations in which TLC finds a sentence of the repository's own documentation violated
(section 7). They are the other side of the runs, whose usage leaves out what breaks these sentences; run them as
`tlc -config MCProcess_v_stop.cfg MCProcess`:

| configuration | instance | violated |
|---|---|---|
| `MCProcess_v_stop.cfg` | one caller, Start and Stop(true), Reconnect | `StopNoRestart` |
| `MCProcess_v_kill.cfg` | Start and Kill, Reconnect | `RestartsWhileOrdered` |
| `MCProcess_v_wait.cfg` | Start and Kill(true), Reconnect | `CallsReturn` |
| `MCProcess_v_running.cfg` | Start and Stop(true) | `RunningWhileAlive` |
| `MCProcess_v_killed.cfg` | Start and Stop(true) | `KillOnlyFinishing` |
| `MCProcess_v_ends.cfg` | Start and Stop(true) | `FinishingEnds` |
| `MCRestream_v_limit.cfg` | two processes, one refers to the other, limit 1 | `MaxRespected` |
| `MCRestream_v_update.cfg` | an update of a process that load left invalid | `UpdateKeeps` |
| `MCChannels_v_purge.cfg` | one purge, no call fails | `PurgedStopped` |

The small usage of some runs is a statement about the code, not a convenience:

* `process_restart` leaves out Stop: with Stop and Start in the time between `cmd.Wait` and the
  waiter's `setState`, the old waiter overwrites the state of the new run (`MCProcess_v_running.cfg`), and then a
  second program can be started. It sets `CHECK_DEADLOCK FALSE` because two calls of Kill(true) really can end in
  the state of `MCProcess_v_wait.cfg`, where nothing can move once the program is gone.
* `process_oneshot` leaves out Stop and Reconnect: a late kill timer hits the next run
  (`MCProcess_v_killed.cfg`), the old waiter stops the kill timer of the next one (`MCProcess_v_ends.cfg`).
* `process_ordered` has the usual setting, Reconnect, and Stop. That nothing at all starts after Stop is false
  (`MCProcess_v_stop.cfg`); what is left of the promise is `OnlyLateRestarts`.
* `process_retry` leaves out Kill, which may lose the restart (`MCProcess_v_kill.cfg`).
* `restream_limit` has no references between processes, no observer and no requests outside Start
  and Stop: each of these changes the order or the running of a process in a way the counter misses
  (section 7).
* In `restream_ports` configurations with clean-up rules do not start by themselves: a refused
  start leaves the rules of a process that is not in the table.
* `session`, `publication` and `channels` set `CHECK_DEADLOCK FALSE`: a page may rest, a page covered
  by an exception stays so, and a window has a bounded number of jobs.
* What the properties of the page leave out is named in their comments, each with the reason: the
  source was probed again since the choice (`past.asked = "other"`), an abandoned edit, a save that did
  not reach the Core completely, streams that changed before the publication was opened, a channel
  somebody else touched, the page's own restart of the snapshot included, a call that failed. These are the
  faults of section 7.

## 4. Bounds

* `MaxRuns = 2`: a run that is ending and the next one. A third number would be needed only when two
  old runs are still referred to; steps that need a new number wait until one is free (guards with
  `FreeRuns`). `process_oneshot` has 1: its order stays start, so its process has one life, and 2 gives the same
  states. The same holds for `MaxWaits` and `FreeWaits`; `MCProcess_v_wait.cfg` needs 2.
* `MaxPending = 1`: timer callbacks that fired and did not run. One late callback is what the races
  need; `RestartTokens` shows that under the usage of `process_restart` a second reconnect callback
  never comes up (proved without the bound, section 6).
* `MaxLimits`, the goroutines of the limiter under way at once: 2 in `process_oneshot`, so that one finds what
  another did.
* Callers: one caller together with timers, limiter, stale watcher, reader and waiter gives all pairs
  of goroutines; two callers in `process_retry` and `process_ordered`, for calls that wait for each other's lock.
* `Ids` has three members in `restream_ports` and `restream_limit`: a process, one that refers to
  it, and one in competition for ports or for a place under the limit. Four ports are fewer than the
  five all configurations together ask for, so exhaustion occurs on every path that takes ports.
  `MaxProc = 2` is below the three processes. Two `Adders` compete for ports and for an id.
* `nProc` needs no bound, the tables are finite and it never leaves a finite range.
* `portrange`: seven ports, every set of used ports is reached.
* `session`: two views that poll, so that one is refused while the other refreshes; two logouts, since
  errors of the Validate of one begin another. `MaxBusy = 2`: nothing new is begun while two tasks are
  under way, but what these begin themselves is not bounded. Cached are About and the path of the polls,
  the two that are asked for again within 950 ms. Requests fail by the network; an HTTP error other than
  a refusal takes the same path through `_call` without the connection flag, and the theorems cover it.
* `editor`: one start for each encoder, each video decoder, each source, pairs of filters, the
  controls, several streams, the wizard with four sources, and page and wizard together; up to four changes
  and two saves. A change is one choice of the user; to leave something behind takes one, to come back one,
  and the probe in between one. Coders, filters and sources do not know each other, so one at a time
  beside the usual ones (copy, none, libx264, aac) gives their combinations.
* `publication`: every service on its own with three changes, two or three values for each of its settings;
  four changes with decoders and filters. Services share no state.
* `channels`: two windows, three ids, two publications, nine starts: two jobs of a window one after the other or at
  the same time, with what the page does by itself (`Slots` has two members, so two jobs overlap), one each for
  two windows; one failing call. A job that meets another one in every state of both is what the properties need; a third would
  only be noticed the same way. `StopTries` and `PurgeTries` are 2 instead of 60 and 40: one try that finds
  nothing and the last one. The theorems cover every number.

Symmetry is used on ports and on AddProcess calls: no definition tells them apart, and the
configurations do not contain them. It is not used with liveness.

## 5. Fairness

`Process!Fairness` is weak fairness for every goroutine that can run and for timers, which expire.
Steps that take the order lock are strongly fair: Go's mutex hands the lock to a waiter that has
starved for a millisecond, so no waiter is passed over for ever. The program itself is fair only in
that it exits after SIGKILL; it may ignore SIGINT and may never exit by itself. Nothing makes a
caller call, a limit be exceeded or an output fall silent, and an attempt to start the program may
fail any number of times: `process_retry` claims that it is *tried* again (the state is `starting`
again and again), not that it succeeds.

`Restream` has no liveness properties: its methods run to the end under one lock.

`Session!Fairness`: a request is answered or fails (the browser gives up), weakly fair; a view polls
as long as it is shown, on a timer that is set again after every answer, strongly fair because it is disabled
while the answer is on its way; answers in the cache grow old; the wait of `InstallLatestUpdate` ends
after 900 s. The user need not do anything. `ShowsAView` lets the user reload the page for ever.

`Editor`, `Publication` and `Channels` have no liveness properties: what a user must do next is not for
the code to say, and the waits of a purge are bounded by counters.

## 6. Proofs

All theorems hold for every value of the constants that satisfies the named assumptions of the
modules (`BoundsAssumption`, `ConfigAssumption`, `CallersAssumption`; `ConfigsAssumption`,
`IdsAssumption`, `LimitsAssumption`, `UsageAssumption`; `RangeAssumption`; `FailureAssumption`,
`LogoutsAssumption`, `NamesAssumption`, `KeysAssumption`; `StartsAssumption`, `SourcesAssumption`, `ChoicesAssumption`;
`EgressesAssumption`). These say that bounds are
positive, flags are Booleans, names differ and sets are finite; `RangeAssumption`
(`0 <= min < max <= Top`) is what validation of the configuration lets through
(`core/config/value/network.go:186`, `core/config/config.go:408`); `KeysAssumption` that a login, a POST,
is never answered by the cache (`api.js:20-42`). `StartsAssumption` of `Editor` is about what the Core has stored of a
channel when a page is opened: no process of it yet, controls as earlier pages stored them, and a profile
whose video and audio are read from one of the two sources, as every version of the editor wrote it; of sources,
streams, coders and filters stored it says nothing, since `initProfile` and `initIngestMetadata` fill
what is missing. `SourcesAssumption` is about the same channel, for `InputsCurrent` only: its video source has no inputs or
those its settings make with the ffmpeg there is (behind options of decoders), so has the audio source if the sound is its
own; its decoders, if any are stored, are registered. Data an earlier ffmpeg left behind, or written by hand, is
out of it: such inputs are only made anew by the next probe. Every start of the runs satisfies it, and TLC evaluates it. `StartsAssumption` of `Publication` is about what there is when we begin: a channel makes at most one
stream of a type, each of a codec (`createOutputStreams`), and a publication that is already there was left by these pages
with the ffmpeg there is: an encoding whose coders have their own options, outputs its service makes, and the three properties of the run. `ChoicesAssumption` is
about what a user gives a service, and needed for `MuxerFits` only: the protocol he types or chooses is one the service is for
(`SettingsFit`). The forms ask for it, but save something else as well: Kick marks a
URL without `rtmps://` as wrong (`Kick.js:91-92`) and sends flv to it all the same. `EgressesAssumption` says that there are finitely many ids of publications and that none is empty.

A theorem about a narrower usage states that usage as its hypothesis (`"Stop" \notin Ops`, `~Reconnect`,
`~Window`...). Section 3 says why the code needs it, mostly with a run that shows the property violated
without it.

**Process_proof.** `TypeCorrect`: every variable keeps its type. `RestartInvariant`,
`RestartsAreUnique` and `OneRestartPerExit`: while nobody calls Stop, `RestartInv`, `AtMostOneAlive` and
`RestartTokens` hold. `AtMostOneAlive` is not inductive: it says nothing of who may start a program next.
`RestartInv` adds that: who is
in `start` has the lock and is alone (`StartersHaveLock`, `StartersAlone`), an armed timer or a fired
callback excludes any waiter and each other (`TimerAlone`, `FiredAlone`), the unfinished waiter is
that of `p.cmd` (`WaiterAlone`), a live program is `p.cmd`'s and its reader is there or about to be
(`AliveWatched`), and before the first Start there is none of them (`StoppedBefore`). The step lemma
takes the actions one by one; the steps that hand the right to start on are `ExecFails` and
`LockReconnect` (to the timer), `TimerFire`, `LockTimer`, `Run` (to the waiter). Bounds on runs and
pending callbacks are parameters, so the proof covers every number of them.

`StopMeetsOnlyLateRestarts` (`OnlyLateRestarts`), for every configuration, with `Reconnect`, and every mix of Start, Stop and
Kill, rests on `StarterInv`: whoever is in `start` has the lock, and if it is not the reconnect callback it has
set the order to start, so that Stop, which needs the lock, cannot have come between. Under the order stop the
timer is armed by a start that fails only, since the waiter looks at the order (`LockReconnect`); so once nothing is
scheduled, fired or in `start`, nothing comes back. The documentation promises more, which is false (section 7).

`RunningIsSeen` (`RunningWhileAlive`), `NeverPanics` (`NoPanic`) and `KillsOnlyFinishing`
(`KillOnlyFinishing`) are about a process without `Reconnect` that is killed by callers, limiter and stale
watcher at once but not stopped (`Once`). None of them is inductive; `OnceInv` follows the one life such a
process has: before it (`Before`), in `start` (`During`), after it, when state, live process, kill timer
and reader belong together (`After`) and the chain of `onExit` wrappers has every WaitGroup that is waited for
exactly once (`Callback`).

**Restream_proof.** `TypeCorrect` and `TasksKeepShape`: `TypeOK` and `TasksOK`. Neither is inductive
alone: types of ports and
orders depend on the shape of the tasks, the shape on the configuration's type. The lemmas say what
the helpers keep (`StartKeeps`, `StopKeeps`, `WithKeeps`, ...); each action is a use of one of the
frame lemmas.

`CrashForgetsNothing`: `Durable`, inductive on top of the types; actions
that save establish it from the store written, the others keep table and store or only take orders
away. `PortsHaveOneHolder`: `PortsApart`, inductive on top of `TasksOK`; ports a call or task gets come out of
`Free` and so from nobody, and what reload, update and delete give back was the task's own.
`RunningPortsExclusive`: `PlayoutPortsExclusive` is not inductive, since reload gives ports back
while the old ffmpeg is running; it follows from `PortsApart` and the part of `TasksOK` that says
the arguments of an ffmpeg are the ports its task holds.

`CounterCounts` (`CountsRunning`) and `LimitRespected` (`MaxRespected`), while requests
come between Start and Stop of an instance that is started once, and, where there is a limit, for
processes that load can always complete; section 7 has what happens otherwise. The counter is not inductive by
itself: during Start it is compared with tasks that are ordered and not yet running, and a crash carries the orders
of the store into the next count. `LimitInv` therefore follows the orders in table and store (`Fits`: they are
never more than the limit admits; `Untouched`: before Start nothing runs) and treats the helpers as functions of
table and counter, with one lemma each. `RulesFollowTable`
(`RulesMatch`), for requests at any time: `RulesInv` adds that before Start and after Stop rules may be missing
but are never wrong, and that an AddProcess call belongs to an instance (`CallsOfInstance`).

**Portrange_proof.** `FlagsTyped`: `TypeOK`. `IndexRight`: `FirstUnused`. `Implements`:
`Spec => PoolSpec`, each step maps to the step of the same name.

**Session_proof.** `TypeCorrect`, `LoginStaysRequired` (`RequiresLoginKept`) and `SessionIsKept`
(`StaysLoggedIn`), for every number of views and logouts and every choice of what the cache keeps; the
theorems are about `Spec`, so they need no fairness. `RequiresLoginKept` is not inductive: that a page
takes a Core for open is decided by an answer to About, which may have been sent long before. The invariant
adds what such requests carry (`GoodTasks`): About without a session carries no token, so a Core that
requires a login says so; only calls and logins are tried again; the second attempt carries the token the
refresh has brought, so with a login required it is live. And what the cache holds (`GoodPages`): a Core that
requires none never refused anything. `SessionIsKept` follows step by step: the only actions that drop a
refresh token without a refresh or login of their own are the second attempt of a call, which by the
invariant is not refused, and the user's logout.

**Channels_proof.** `RecordingsAtRest` (`PurgedAtRest`) and `JobsComeTrue` (`JobsDone`), for every number of windows, jobs
of a window at a time, channels, publications and failing calls, from one invariant, `Inv`.

`PurgedAtRest` speaks of the time a window waits for the manager. It is not inductive, since
whether a channel rests was settled in the step before: `StillRest` says of each channel that has been
waited for (`Counted`: stopped by the job, no longer in `left` or already asked for, not touched by others,
read without error) that it does not run.

`JobsDone` speaks of finished jobs only. For a job on its way `PageFits` says of each process it is for, unless somebody else
touched it or its call has failed, that it is on its way (`OnWay`): the call that makes it as the job wants it is still to
come, and is the last one for that process, or it was made, is undone by none to come, and the process is as that call leaves it
(`Reached`). Two calls stand for several, which is why it is more than a look at a list: StopAllEgresses is
replaced by calls for what the table has when its turn comes, and a call whose failure ends the job takes the promises with it
that depended on it (`Needed`). Tables of open windows have the selected channel
(`WindowFits`). For a removal, `RemovalFits`: every channel it stopped is still to be started or is ordered to run.

Every step is of one of four kinds: of the job itself (`GoesKeeps`, `RemovalStep`), of another job, which this one notices
(`OtherFits`), of the window around it (`WindowStep`), or of the Core (`EndUntouched`: the end of a process makes it only
truer). The page's own restart of the snapshot is a job too: it is touched by others as it touches them.

**Editor_proof.** `FilesStayKept` (`FilesKept`), by `FilesInv`: whatever the user does, the controls of the page
and those stored stay settings the forms can produce (`IsControl`), a rewind window makes the playlist it asks
for (`WindowFits`, rounding up included), and files, playlist and rules are made of the same
settings in one save, of which the later calls may fail.

`TypeCorrect` (`TypeOK`) is more than a matter of shapes: it says that what was saved completely passes
`validateProfile`, so that it can be opened and saved again. That is not inductive: saving changes the inputs of the
sources in place (a decoder's options are put before them), an edit that is given up leaves its filter settings
behind, and the button to save depends on a flag computed earlier. `TypeInv` adds that this flag always is
what `validateProfile` says of the data of the page (so every change of source, stream or audio recomputes it), that
the changes in place leave the streams and the number of inputs as they were (`SameStreams`), and that what is
given up differs from what was opened in the filters only.

`InputsStayCurrent` (`InputsCurrent`) is about the end of a long way: inputs are made by a probe, kept by the page while
settings go on changing, put into the profile when it is done, changed in place when it is saved, stored, loaded, and
saved again. `CurrentInv` follows them:

* in the Core, as it would be loaded, and on the page behind an edit: `IsUpToDate`. The video source has no inputs or current
  ones, the audio source current ones if the sound is its own, and the decoders have nothing but options of decoders
  (`IsDecoder`). The last part is needed since their options end up before those of the inputs, for good: the next save finds
  them there, and puts others before them (`InputDecoded`);
* while a profile is edited: `ProfileUpToDate`. The audio source is current as soon as there is a status of it. To take
  another one changes its type and not its inputs, so between the choice and the probe they do not belong together; it is
  the status, reset by that choice, that keeps them from being saved (`SelectedUpToDate`, `FinishSteady`). A type "noaudio" has a status and no inputs, hence the clause that excludes it
  when the sound is of its own;
* in the wizard: `WizardUpToDate`, where the sound never is of its own as the page understands it, so `cleanupProfile` takes
  what the wizard has chosen back to the video source (section 7).

Under it are lemmas for every source (`DeviceInputs`, `NetworkInputs`: whatever the settings, the inputs are lists of options)
and for every registered decoder (`AllDecode`, `DecoderGroup`, `MappingDecodes`: whatever its settings, stream and ffmpeg, its
options are those of decoders), and one for each step that touches a profile. `TLC` checked `CurrentInv` on the
instance of the run `editor` before it was proved.

**Coders_proof, Publication_proof.** `PublishesAllowedCodecs` (`CodecsAllowed`), `PublishesCurrentOutputs`
(`OutputsCurrent`) and `PublishesFittingMuxers` (`MuxerFits`), for every ffmpeg, every registered service and every settings it is given. They speak of
the process that was sent last, so none is inductive: what a save sends is decided by the page, over many steps. `Inv`
says of a page of a service:

* every type is coded by what the service takes: its stream is one of the streams loaded, its encoder has the options
  of its coder and of no other, and the coder copies a codec that is taken, makes one, or there is none to be had
  (`ProfileFits`, by `IsMedia` and `Suits`);
* the streams to be stored are those this encoding makes (`Listed`);
* the outputs are those the service makes of the settings and streams on the page, or none, or, for a service whose
  outputs follow the streams (Icecast), of streams the channel had before (`OutputsFit`). The
  history `outdated` keeps the last case apart; an event that makes the outputs anew ends it.
* its settings name protocols the service is for (`SettingsFit`), those that are taken over from version 1 included;
* the publication of the page is the stored one, or there is none (`SamePublication`).

It rests on five groups of lemmas. *Coders* (`MappingChooses`): whatever its settings, each of the registered
encoders gives one option that chooses itself, or leaves its type out, and none that speaks of the other type.
*Services* (`ServiceSound`): each of the registered ones, whatever its settings, adds options that choose no
coder, and makes the same outputs of the settings it hands over as of those it was given; without this a second look at
a stored publication would change it. *Formats* (`ServiceFits`): each service hands over settings that keep to its protocols,
and each of its outputs names one format, which goes over its protocol and takes every codec the service names and
ffmpeg has, the newer ones because they are announced (`ToldCarries`); Icecast's, of the streams it is made of (`IcecastFits`). The
streams stored are the ones that are sent (`SentCodecs`), so this is what a save needs (`SavedFitsMuxer`); that the outputs follow the encoding is
where it would fail. *Preselection* (`Preselects`): `preselectProfile` gives a profile that fits,
whatever profile was stored and whatever streams the channel has now. *Rendering* (`RenderedFits`):
components that report with the settings they were rendered with, the last one winning, change no choice. The
steps that need most are `OpenEditKeeps`, `ChangeEncoderKeeps` and `SaveKeeps`, the last for stored settings and for
those that could not be stored.

`TLC` checked `Inv` on the instance of the run `publication` before it was proved.

Only model-checked:

* all liveness: temporal proofs under fairness are out of the prover's reach;
* `TableKept` of `Channels`;
* `AudioAsChosen`, `EncodesAsListed` and `FiltersAsSet` of `Editor`. They are about what is computed by passing over sequences of
  options and lists of coders (`SelectSeq`, `FlattenSeq`, folds): what these give for every input takes an induction
  over data, which the provers at hand cannot do. (The lists of options of a coder have at most five parts,
  so `Publication_proof` writes them out.) They are checked with every coder, filter and source;
* the properties with a usage hypothesis, without it: there they are false (section 7).

## 7. Disagreements and faults seen

With a run:

* `wizard_v_silence`: "Silence audio is recommended. Services e.g. YouTube, Facebook & Co. require an audio
  channel" (`Edit/Wizard/Audio.js:77-78`, `Wizard/index.js:401`). The wizard keeps silence, or a device, as a source of
  its own but never sets `profile.custom.selected`; `cleanupProfile` (`metadata.js:1252-1273`) takes the audio of such a
  profile from the video source: `-map 0:0`, the video, and no silence.

With a configuration kept beside the runs, each with a counterexample of TLC:

* `MCProcess_v_stop.cfg`: "Stop stops the process and will not let it restart automatically"
  (`process.go:33-35`). The reconnect callback does not look at the order; one that fired before Stop
  took the lock starts the program after Stop has returned, and when that fails it is tried again.
* `MCProcess_v_kill.cfg`: "Kill stops the process such that it will restart automatically if it is defined to
  do so" (`process.go:37-38`). Kill tests the state before it has the lock; when the program exits and
  its restart is scheduled in between, Kill cancels the restart and nothing starts the program again.
* `MCProcess_v_wait.cfg`: a call that waits returns when the program has ended (`process_test.go:184-186`). The
  `onExit` wrapper of one call removes the one the next call has put there; that call waits for
  ever with the order lock.
* `MCProcess_v_running.cfg`: "IsRunning returns whether the process is currently running or not"
  (`process.go:41-43`). Stop does not wait for a program that was collected already; after Stop and Start the old waiter
  writes its exit state over that of the new run.
* `MCProcess_v_killed.cfg`: "Set up a timer to kill the process with SIGKILL in case SIGINT didn't have an effect"
  (`process.go:623-624`). A kill timer that fired late kills the next run, which was sent no SIGINT.
* `MCProcess_v_ends.cfg`: the same sentence. The old waiter stops the kill timer of the new run, which lives on when it
  ignores SIGINT.
* `MCRestream_v_limit.cfg`: "Max. allowed simultaneously running ffmpeg instances" (`config/config.go:232`). A
  process over the limit keeps its order; stopping it decrements the counter that never counted it.
* `MCRestream_v_update.cfg`: "Update replaces an existing process" (`http/handler/api/process.go:169`). A
  process that could not be completed at load has no parser; updating it removes it from the table and
  panics.
* `MCChannels_v_purge.cfg`: a running channel is stopped, its directory cleared and it is started afterwards
  ("anschliessend", `README.md:276-278`). A window gives up waiting for the manager after 30 s
  (`restreamer.js:1400-1416`) and starts the channels although the manager may still remove their recordings.

Seen while modelling, without a run of their own. In the Core:

* Ports that leak on every add or update that fails after `createTask` (`restream.go:421`); an error of
  `store.Store` is ignored (`:391`); Stop followed by Start on one instance counts every process again, as
  Stop keeps `nProc`; a process that is invalid after load and has the order start cannot be stopped, updated or
  deleted; a refused add leaves its clean-up rules; `ProbeWithTimeout` waits for an `onExit` that is never called
  when the program could not be started (`:1390`).
* The delete handler stops and deletes in two calls (`handler/api/process.go:158`): a start in between makes the
  delete fail. The port range is checked before it is clamped (`net/port.go:40`).

In the session of a page: a password reset that times out leaves `IgnoreAPIErrors` set
(`RestreamerUI.js:298-368`, and so does `Settings.js`), so nothing leads back to the login any more; a
refresh of an old session that fails after a new login logs that out; answers are cached for 950 ms, errors
too, and a PUT or DELETE does not drop them; `_reset` forgets the handle of the updates timer.

In the wizard: "No audio", back, "Audio from device" leaves the stream -1, which throws; the coder stays
preselected while its options follow another stream; the step "AUDIO RESULT" uses aac although ffmpeg may have
another; errors after UpsertIngest are not looked at; `handleAudioDeviceChange` changes the settings but not the
inputs.

On the page of a channel:

* The hint about audio sets `stream.index` 1 with a single input: `save()` throws and the page stays covered
  (`Profile.js:411`).
* The clean-up rule on `<id>_**.ts` counts the segments of the preview as well.
* A text overlay that is switched off leaves its logos in the picture; the overlay of X11grab never follows
  the mouse; a camera "none" gives an empty address.
* `prelude.go:52` skips data streams, so the numbers of streams have gaps.
* Probing again with audio of the video leaves the number of the audio stream stale, and the decoder that of the
  codec before.
* The VAAPI coders for HEVC and VP9 give `-g auto`; the options of a decoder are added again at every save; an
  aborted edit leaves its filter settings; two windows on one channel overwrite each other.

On publications: WOWZA and Red5 compare the protocol with `rtsp` where it is `rtsp://`; Instagram's address begins with
http://; EarthCam's output has no options and NimoTV may have none at all, which throws and covers the page; WebM
is chosen for VP9 with AAC or MP3 over Icecast; `Edit.update` does not compute Icecast's outputs again; a
stored coder is plausible although ffmpeg has no such encoder; a coder "none" keeps the options of the one before; a failed
`SetEgressMetadata` is ignored; saving right after a deletion elsewhere creates the publication again;
`SetEgressMetadata` and `DeleteEgress` look in the selected channel; publications are not changed when the ingest is.

On channels:

* `DeleteChannel` leaves the preview process (`restreamer.js:1348`), and looks at none of its results.
* A page that sees its channel connected stops and starts the snapshot a tenth of a second later
  (`Main/index.js:139-153`, `187-190`), whatever the user began meanwhile: the snapshot of a channel that was
  disconnected may stay ordered to start.
* A lost answer of the request's upload leaves the request, so recordings are removed without a window that waits; a
  lost answer of StopIngest leaves a channel stopped that nobody starts; so does closing the window.
* A failed look at a channel counts as stopped; a channel that was told to stop before is not waited for; two
  windows may remove at the same time, one starting what the other waits for.
* A manager killed between answer and removal of the request removes twice (`livechasing-manager.py:323`).
* A list of processes that fails at login gives an empty table, with a channel that has no name.

## 8. Not modelled

* In `Restream`: metadata, queries, reports, Probe, formatting of addresses and placeholders;
  RestartProcess, which at this level changes nothing (it calls Kill of the wrapper, see `Process`).
* In `Session`: Auth0, the password reset and the wait of `Settings.js`. In `Editor`: licence, descriptive
  metadata, limits, hints about NVIDIA hardware, and outputs to the Core's RTMP and SRT servers beyond their
  being there. In `Channels`: progress, logs and display.
* Settings, player site and the remaining pages: forms that read and write one configuration or one file.
* Core sessions: their counters change without the lock of the table (`collector.go:571`), Stop waits for
  sessions that register after it has cancelled those it saw (`:424`), a timer may close the next user of a
  session object (`session.go:143`), a closed session leaves the table later (`:97`). A model of them would
  be the next one to write; nothing here depends on them.
* File systems: the size is read, room made and the file written in three steps (`sized.go:71`).
* Retention and disk reserve, update agent: scripts that may be killed between any two commands, whose state is the
  file system.
* HTTP cache, HLS and HTTP session middleware, RTMP and SRT servers: lists behind one lock, or built on core
  sessions and vendored libraries.
* ffmpeg wrapper and parser: text to numbers; the stale check is an input of `Process`.
* `core/app/api`, HTTP interface: wiring and routing; the order in which the servers and the service
  start and stop is in `Restream` (`Window`, `Again`).
* Authentication, configuration, metrics, monitoring, logging, import and migration, service and update
  check: no state of their own that other components depend on, or sequential conversions.
* Overlay updater and container start: a loop that rewrites text files and a start script.
* Generated and vendored code: `core/vendor`, `core/http/graph/graph`, `core/docs`.

## 9. What could come next

1. `Sessions` (`core/session`) with the hazards of section 8: counters equal what they count, a timer
   closes only its own session, Stop ends.
2. `Supervisor`: what Start, Stop and Kill promise, implemented by `Process` under the usages of
   section 3, and composed with `Restream` in place of the two orders.
3. `UpdateAgent`: kill between any two commands, lock, roll back, retry.
4. Theorems: `EncodesAsListed` for a channel that only the page edits, with the invariant that an encoder has the options of its coder (`IsEncoder`) once its
   component was on the page.
