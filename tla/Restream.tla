------------------------------ MODULE Restream ------------------------------
(***************************************************************************)
(* core/restream: the table of processes ("tasks") that the API edits, the *)
(* service that starts and stops them, and the JSON store that brings them *)
(* back after a crash.                                                     *)
(*                                                                         *)
(* Every method takes r.lock for its whole duration and is one action,     *)
(* with two exceptions, which are split where the code lets go of it:      *)
(*   AddProcess  reads the table and gets its ports under the read lock,   *)
(*               and enters the task under the write lock later;           *)
(*   observe     measures the disk without the lock.                       *)
(* A failing request that changes nothing is no step. The ffmpeg wrapper   *)
(* (module Process) is seen through Status().Order only, which Start and   *)
(* Stop set; the port pool is core/net/port.go.                            *)
(***************************************************************************)
EXTENDS Integers, FiniteSets

CONSTANTS
    Ids,      \* process IDs
    NoId,     \* the "no reference" value of a configuration
    Configs,  \* the configurations requests use, see Config
    Ports,    \* the range of the playout ports
    MaxProc,  \* Config.MaxProcesses, 0 for unlimited
    Adders,   \* goroutines that call AddProcess
    Window,   \* requests are served before Start and after Stop
    Again     \* an instance is started again after Stop

\* what an app.Config says about: its id, the process its input refers to, its
\* inputs that need a playout port, output to the disk, rules for clean up
Config == [id: Ids, ref: Ids \cup {NoId}, playout: Nat,
           disk: BOOLEAN, cleanup: BOOLEAN, autostart: BOOLEAN]

ASSUME ConfigsAssumption == Configs \subseteq Config /\ Configs # {}
ASSUME IdsAssumption == NoId \notin Ids /\ IsFiniteSet(Ids)
ASSUME LimitsAssumption == MaxProc \in Nat /\ IsFiniteSet(Ports)
ASSUME UsageAssumption == Window \in BOOLEAN /\ Again \in BOOLEAN

VARIABLES
    phase,    \* of the service: no instance, New is loading, loaded, Start, Stop
    tasks,    \* r.tasks
    nProc,    \* r.nProc
    inUse,    \* the ports the pool has handed out
    rules,    \* of each id: the configurations whose clean up rules are set
    stored,   \* the process part of db.json
    pending,  \* the tasks load has not looked at yet
    adders,   \* the AddProcess calls
    ticked    \* the observer found the disk full and waits for the lock

vars == <<phase, tasks, nProc, inUse, rules, stored, pending, adders, ticked>>

Orders == {"start", "stop"}
\* valid, process.Order and config of a task; ffmpeg is Status().Order of its
\* process or "none" for nil, command the ports in the arguments of that process
Task == [valid: BOOLEAN, order: Orders, config: Configs,
         ffmpeg: Orders \cup {"none"}, playout: SUBSET Ports, command: SUBSET Ports]
Saved == [order: Orders, config: Configs]
Adder == [pc: {"idle", "create", "insert"}, config: Configs, ports: SUBSET Ports]
IdleAdder == [pc |-> "idle", config |-> CHOOSE c \in Configs : TRUE, ports |-> {}]

TypeOK ==
    /\ phase \in {"down", "loading", "loaded", "started", "stopped"}
    /\ tasks \in [DOMAIN tasks -> Task] /\ DOMAIN tasks \subseteq Ids
    /\ nProc \in Int /\ inUse \subseteq Ports
    /\ rules \in [Ids -> SUBSET Configs]
    /\ stored \in [DOMAIN stored -> Saved] /\ DOMAIN stored \subseteq Ids
    /\ pending \subseteq DOMAIN tasks
    /\ adders \in [Adders -> Adder] /\ ticked \in BOOLEAN

-----------------------------------------------------------------------------
(* Helpers. s is a pair of the table and the counter, a "desk" the helpers   *)
(* of the code work on under the lock.                                       *)

Free == Ports \ inUse
NoRules == [id \in Ids |-> {}]
RulesOf(c) == IF c.cleanup THEN {c} ELSE {}
Without(f, id) == [x \in DOMAIN f \ {id} |-> f[x]]
With(f, id, v) == [x \in DOMAIN f \cup {id} |-> IF x = id THEN v ELSE f[x]]

\* resolveAddress: the reference is to another process, which exists
Resolves(ts, c) == c.ref = NoId \/ (c.ref # c.id /\ c.ref \in DOMAIN ts)

\* setPlayoutPorts: the ports n calls of GetPort may return out of the set P
Ways(n, P) == {Q \in SUBSET P : Cardinality(Q) = n}

\* r.save()
ToStore(ts) == [id \in DOMAIN ts |-> [order |-> ts[id].order, config |-> ts[id].config]]

\* createTask, once it has its ports
NewTask(c, ports, order) ==
    [valid |-> TRUE, order |-> order, config |-> c,
     ffmpeg |-> "stop", playout |-> ports, command |-> ports]

\* a task with another order and another order of its ffmpeg
Ordered(t, order, ffmpeg) ==
    [valid |-> t.valid, order |-> order, config |-> t.config,
     ffmpeg |-> ffmpeg, playout |-> t.playout, command |-> t.command]

\* a task that could not be completed and holds these ports
Incomplete(t, ports) ==
    [valid |-> FALSE, order |-> t.order, config |-> t.config,
     ffmpeg |-> t.ffmpeg, playout |-> ports, command |-> t.command]

Running(ts) == {id \in DOMAIN ts : ts[id].ffmpeg = "start"}

\* mutant: the limit is compared with > instead of >=
Refused_OffByOne(s, id) ==
    \/ id \notin DOMAIN s.tasks
    \/ ~s.tasks[id].valid
    \/ /\ ~(s.tasks[id].order = "start" /\ s.tasks[id].ffmpeg = "start")
       /\ MaxProc > 0 /\ s.nProc > MaxProc

\* startProcess: what makes it return an error
Refused(s, id) ==
    \/ id \notin DOMAIN s.tasks
    \/ ~s.tasks[id].valid
    \/ /\ ~(s.tasks[id].order = "start" /\ s.tasks[id].ffmpeg = "start")
       /\ MaxProc > 0 /\ s.nProc >= MaxProc

\* mutant: a process that already runs is counted again
startProcess_Twice(s, id) ==
    IF Refused(s, id) THEN s
    ELSE [tasks |-> [s.tasks EXCEPT ![id] = Ordered(s.tasks[id], "start", "start")],
          nProc |-> s.nProc + 1]

startProcess(s, id) ==
    IF Refused(s, id) \/ (s.tasks[id].order = "start" /\ s.tasks[id].ffmpeg = "start")
    THEN s
    ELSE [tasks |-> [s.tasks EXCEPT ![id] = Ordered(s.tasks[id], "start", "start")],
          nProc |-> s.nProc + 1]

stopProcess(s, id) ==
    IF s.tasks[id].ffmpeg = "none" \/ (s.tasks[id].order = "stop" /\ s.tasks[id].ffmpeg = "stop")
    THEN s
    ELSE [tasks |-> [s.tasks EXCEPT ![id] = Ordered(s.tasks[id], "stop", "stop")],
          nProc |-> s.nProc - 1]

Desk == [tasks |-> tasks, nProc |-> nProc]

\* r.lock can be taken for writing: nobody is in createTask for an AddProcess
NoReader == \A a \in Adders : adders[a].pc # "create"
Serving == phase = "started" \/ (Window /\ phase \in {"loaded", "stopped"})
Request == Serving /\ NoReader

-----------------------------------------------------------------------------
(* The life of the service *)

Init ==
    /\ phase = "down" /\ tasks = [id \in {} |-> {}] /\ nProc = 0
    /\ inUse = {} /\ rules = NoRules /\ stored = [id \in {} |-> {}]
    /\ pending = {} /\ adders = [a \in Adders |-> IdleAdder] /\ ticked = FALSE

\* load: all stored processes become tasks, which are invalid at first
Load ==
    /\ phase = "down"
    /\ phase' = "loading"
    /\ tasks' = [id \in DOMAIN stored |->
                    [valid |-> FALSE, order |-> stored[id].order,
                     config |-> stored[id].config, ffmpeg |-> "none",
                     playout |-> {}, command |-> {}]]
    /\ pending' = DOMAIN stored
    /\ UNCHANGED <<nProc, inUse, rules, stored, adders, ticked>>

\* load: the tasks are completed in the order of a Go map; a task whose address
\* does not resolve, or for which there are too few ports, stays invalid
LoadTask(id) ==
    LET c == tasks[id].config IN
    /\ id \in pending
    /\ pending' = pending \ {id}
    /\ \/ /\ ~Resolves(tasks, c)
          /\ UNCHANGED <<tasks, inUse>>
       \/ /\ Resolves(tasks, c) /\ Ways(c.playout, Free) = {}
          /\ tasks' = [tasks EXCEPT ![id] = Incomplete(tasks[id], Free)]
          /\ inUse' = Ports
       \/ /\ Resolves(tasks, c)
          /\ \E P \in Ways(c.playout, Free) :
                /\ tasks' = [tasks EXCEPT ![id] = NewTask(c, P, tasks[id].order)]
                /\ inUse' = inUse \cup P
    /\ UNCHANGED <<phase, nProc, rules, stored, adders, ticked>>

\* New returns
Loaded ==
    /\ phase = "loading" /\ pending = {}
    /\ phase' = "loaded"
    /\ stored' = ToStore(tasks)
    /\ UNCHANGED <<tasks, nProc, inUse, rules, pending, adders, ticked>>

Startable == {id \in DOMAIN tasks : /\ tasks[id].order = "start"
                                    /\ tasks[id].valid /\ tasks[id].ffmpeg = "stop"}
Least(m, n) == IF m < n THEN m ELSE n
\* how many calls of startProcess succeed; which ones is up to the order of the map
Room == IF MaxProc = 0 THEN Cardinality(Startable)
        ELSE IF nProc >= MaxProc THEN 0 ELSE Least(Cardinality(Startable), MaxProc - nProc)

Start ==
    /\ phase = "loaded" \/ (Again /\ phase = "stopped")
    /\ NoReader
    /\ phase' = "started"
    /\ \E S \in SUBSET Startable :
          /\ Cardinality(S) = Room
          /\ tasks' = [id \in DOMAIN tasks |->
                          IF id \in S THEN Ordered(tasks[id], "start", "start") ELSE tasks[id]]
          /\ nProc' = nProc + Cardinality(S)
    /\ rules' = [id \in Ids |-> IF id \in DOMAIN tasks
                                THEN rules[id] \cup RulesOf(tasks[id].config) ELSE rules[id]]
    /\ UNCHANGED <<inUse, stored, pending, adders, ticked>>

\* Stop keeps the orders, the counter and the files
Stop ==
    /\ phase = "started" /\ NoReader
    /\ phase' = "stopped"
    /\ tasks' = [id \in DOMAIN tasks |->
                    IF tasks[id].ffmpeg = "start" THEN Ordered(tasks[id], tasks[id].order, "stop")
                    ELSE tasks[id]]
    /\ rules' = [id \in Ids |-> IF id \in DOMAIN tasks THEN {} ELSE rules[id]]
    /\ UNCHANGED <<nProc, inUse, stored, pending, adders, ticked>>

\* mutant: a new instance inherits the list of tasks the old one had to load
Down_KeepsPending ==
    /\ phase # "down"
    /\ phase' = "down" /\ tasks' = [id \in {} |-> {}] /\ nProc' = 0
    /\ inUse' = {} /\ rules' = NoRules
    /\ adders' = [a \in Adders |-> IdleAdder] /\ ticked' = FALSE
    /\ UNCHANGED <<stored, pending>>

\* the end of the instance, at any moment: only the store remains
Down ==
    /\ phase # "down"
    /\ phase' = "down" /\ tasks' = [id \in {} |-> {}] /\ nProc' = 0
    /\ inUse' = {} /\ rules' = NoRules /\ pending' = {}
    /\ adders' = [a \in Adders |-> IdleAdder] /\ ticked' = FALSE
    /\ UNCHANGED stored

\* observe: the ticker fires and the disk is full ...
Tick ==
    /\ phase = "started" /\ ~ticked
    /\ ticked' = TRUE
    /\ UNCHANGED <<phase, tasks, nProc, inUse, rules, stored, pending, adders>>

\* ... and with the lock the processes that write to it are stopped; no save
Observe ==
    LET S == {id \in DOMAIN tasks : /\ tasks[id].valid /\ tasks[id].config.disk
                                    /\ tasks[id].order = "start"} IN
    /\ ticked /\ NoReader
    /\ ticked' = FALSE
    /\ tasks' = [id \in DOMAIN tasks |->
                    IF id \in S THEN Ordered(tasks[id], "stop", "stop") ELSE tasks[id]]
    /\ nProc' = nProc - Cardinality(S)
    /\ UNCHANGED <<phase, inUse, rules, stored, pending, adders>>

-----------------------------------------------------------------------------
(* Requests *)

\* AddProcess, read lock: the ports are taken one by one, next to other calls
AddPc(c, ports) == IF Cardinality(ports) = c.playout THEN "insert" ELSE "create"

AddBegin(a, c) ==
    /\ Serving /\ adders[a].pc = "idle" /\ Resolves(tasks, c)
    /\ adders' = [adders EXCEPT ![a] = [pc |-> AddPc(c, {}), config |-> c, ports |-> {}]]
    /\ UNCHANGED <<phase, tasks, nProc, inUse, rules, stored, pending, ticked>>

AddPort(a) ==
    LET c == adders[a].config IN
    /\ adders[a].pc = "create"
    /\ \E p \in Free : LET P == adders[a].ports \cup {p} IN
          /\ adders' = [adders EXCEPT ![a] = [pc |-> AddPc(c, P), config |-> c, ports |-> P]]
          /\ inUse' = inUse \cup {p}
    /\ UNCHANGED <<phase, tasks, nProc, rules, stored, pending, ticked>>

\* no port is left: the error returns without the ports already taken
AddNoPort(a) ==
    /\ adders[a].pc = "create" /\ Free = {}
    /\ adders' = [adders EXCEPT ![a] = IdleAdder]
    /\ UNCHANGED <<phase, tasks, nProc, inUse, rules, stored, pending, ticked>>

\* AddProcess, write lock: the id is taken meanwhile, or the task is entered,
\* unless it shall be started and cannot
AddInsert(a) ==
    LET c  == adders[a].config
        s  == [tasks |-> With(tasks, c.id, NewTask(c, adders[a].ports, "stop")), nProc |-> nProc]
        s1 == IF c.autostart THEN startProcess(s, c.id) ELSE s IN
    /\ adders[a].pc = "insert" /\ NoReader
    /\ adders' = [adders EXCEPT ![a] = IdleAdder]
    /\ \/ /\ c.id \in DOMAIN tasks
          /\ UNCHANGED <<tasks, nProc, rules, stored>>
       \/ /\ c.id \notin DOMAIN tasks
          /\ rules' = [rules EXCEPT ![c.id] = rules[c.id] \cup RulesOf(c)]
          /\ IF c.autostart /\ Refused(s, c.id)
             THEN UNCHANGED <<tasks, nProc, stored>>
             ELSE tasks' = s1.tasks /\ nProc' = s1.nProc /\ stored' = ToStore(s1.tasks)
    /\ UNCHANGED <<phase, inUse, pending, ticked>>

\* mutant: the new order is not saved
StartProcess_NoSave(id) ==
    LET s == startProcess(Desk, id) IN
    /\ Request /\ ~Refused(Desk, id)
    /\ tasks' = s.tasks /\ nProc' = s.nProc
    /\ UNCHANGED <<phase, inUse, rules, stored, pending, adders, ticked>>

StartProcess(id) ==
    LET s == startProcess(Desk, id) IN
    /\ Request /\ ~Refused(Desk, id)
    /\ tasks' = s.tasks /\ nProc' = s.nProc /\ stored' = ToStore(s.tasks)
    /\ UNCHANGED <<phase, inUse, rules, pending, adders, ticked>>

StopProcess(id) ==
    LET s == stopProcess(Desk, id) IN
    /\ Request /\ id \in DOMAIN tasks
    /\ tasks' = s.tasks /\ nProc' = s.nProc /\ stored' = ToStore(s.tasks)
    /\ UNCHANGED <<phase, inUse, rules, pending, adders, ticked>>

\* mutant: the clean up rules stay
DeleteProcess_KeepsRules(id) ==
    /\ Request /\ id \in DOMAIN tasks /\ tasks[id].order = "stop"
    /\ tasks' = Without(tasks, id)
    /\ inUse' = inUse \ tasks[id].playout
    /\ stored' = ToStore(tasks')
    /\ UNCHANGED <<phase, nProc, rules, pending, adders, ticked>>

DeleteProcess(id) ==
    /\ Request /\ id \in DOMAIN tasks /\ tasks[id].order = "stop"
    /\ tasks' = Without(tasks, id)
    /\ inUse' = inUse \ tasks[id].playout
    /\ rules' = [rules EXCEPT ![id] = {}]
    /\ stored' = ToStore(tasks')
    /\ UNCHANGED <<phase, nProc, pending, adders, ticked>>

\* UpdateProcess returns an error after createTask took ports: there are too few,
\* the id is unknown or taken, or the old task cannot be stopped
UpdateFails(id, c) ==
    /\ Request /\ Resolves(tasks, c)
    /\ \/ Ways(c.playout, Free) = {} /\ inUse' = Ports
       \/ /\ \/ id \notin DOMAIN tasks
             \/ c.id # id /\ c.id \in DOMAIN tasks
             \/ id \in DOMAIN tasks /\ tasks[id].ffmpeg = "none" /\ tasks[id].order = "start"
          /\ \E P \in Ways(c.playout, Free) : inUse' = inUse \cup P
    /\ UNCHANGED <<phase, tasks, nProc, rules, stored, pending, adders, ticked>>

\* the old task is stopped and deleted and the new one takes its order. A task
\* that load left invalid has no parser: TransferReportHistory panics
UpdateProcess(id, c) ==
    LET order == tasks[id].order
        s == stopProcess(Desk, id) IN
    /\ Request /\ Resolves(tasks, c)
    /\ id \in DOMAIN tasks /\ (c.id = id \/ c.id \notin DOMAIN tasks)
    /\ \E P \in Ways(c.playout, Free) :
          LET s1 == [tasks |-> With(Without(s.tasks, id), c.id, NewTask(c, P, order)),
                     nProc |-> s.nProc]
              s2 == IF order = "start" THEN startProcess(s1, c.id) ELSE s1 IN
          /\ inUse' = (inUse \cup P) \ tasks[id].playout
          /\ \/ /\ tasks[id].ffmpeg # "none"
                /\ tasks' = s2.tasks /\ nProc' = s2.nProc /\ stored' = ToStore(s2.tasks)
                /\ rules' = [x \in Ids |->
                        (IF x = id THEN {} ELSE rules[x]) \cup (IF x = c.id THEN RulesOf(c) ELSE {})]
             \/ /\ tasks[id].ffmpeg = "none" /\ order = "stop"
                /\ tasks' = Without(tasks, id)
                /\ rules' = [rules EXCEPT ![id] = {}]
                /\ UNCHANGED <<nProc, stored>>
    /\ UNCHANGED <<phase, pending, adders, ticked>>

\* mutant: the ports are returned before the address is resolved
ReloadFails_EarlyPut(id) ==
    LET c == tasks[id].config
        pool == Free \cup tasks[id].playout IN
    /\ Request /\ id \in DOMAIN tasks
    /\ \/ /\ ~Resolves(tasks, c)
          /\ tasks' = [tasks EXCEPT ![id] = Incomplete(tasks[id], {})]
          /\ inUse' = inUse \ tasks[id].playout
       \/ /\ Resolves(tasks, c) /\ Ways(c.playout, pool) = {}
          /\ tasks' = [tasks EXCEPT ![id] = Incomplete(tasks[id], pool)]
          /\ inUse' = Ports
    /\ UNCHANGED <<phase, nProc, rules, stored, pending, adders, ticked>>

\* ReloadProcess returns an error: the task is invalid from now on
ReloadFails(id) ==
    LET c == tasks[id].config
        pool == Free \cup tasks[id].playout IN
    /\ Request /\ id \in DOMAIN tasks
    /\ \/ /\ ~Resolves(tasks, c)
          /\ tasks' = [tasks EXCEPT ![id] = Incomplete(tasks[id], tasks[id].playout)]
          /\ UNCHANGED inUse
       \/ /\ Resolves(tasks, c) /\ Ways(c.playout, pool) = {}
          /\ tasks' = [tasks EXCEPT ![id] = Incomplete(tasks[id], pool)]
          /\ inUse' = Ports
    /\ UNCHANGED <<phase, nProc, rules, stored, pending, adders, ticked>>

\* mutant: the old ports are returned after the new ones are taken, which may be the same
ReloadProcess_LatePut(id) ==
    LET c == tasks[id].config
        order == tasks[id].order
        s == IF order = "start" THEN stopProcess(Desk, id) ELSE Desk IN
    /\ Request /\ id \in DOMAIN tasks /\ Resolves(tasks, c)
    /\ \E P \in Ways(c.playout, Free \cup tasks[id].playout) :
          LET s1 == [tasks |-> With(s.tasks, id, NewTask(c, P, s.tasks[id].order)),
                     nProc |-> s.nProc]
              s2 == IF order = "start" THEN startProcess(s1, id) ELSE s1 IN
          /\ tasks' = s2.tasks /\ nProc' = s2.nProc /\ stored' = ToStore(s2.tasks)
          /\ inUse' = (inUse \cup P) \ tasks[id].playout
    /\ UNCHANGED <<phase, rules, pending, adders, ticked>>

ReloadProcess(id) ==
    LET c == tasks[id].config
        order == tasks[id].order
        s == IF order = "start" THEN stopProcess(Desk, id) ELSE Desk IN
    /\ Request /\ id \in DOMAIN tasks /\ Resolves(tasks, c)
    /\ \E P \in Ways(c.playout, Free \cup tasks[id].playout) :
          LET s1 == [tasks |-> With(s.tasks, id, NewTask(c, P, s.tasks[id].order)),
                     nProc |-> s.nProc]
              s2 == IF order = "start" THEN startProcess(s1, id) ELSE s1 IN
          /\ tasks' = s2.tasks /\ nProc' = s2.nProc /\ stored' = ToStore(s2.tasks)
          /\ inUse' = (inUse \ tasks[id].playout) \cup P
    /\ UNCHANGED <<phase, rules, pending, adders, ticked>>

-----------------------------------------------------------------------------
Next ==
    \/ Load
    \/ \E id \in Ids : LoadTask(id)
    \/ Loaded
    \/ Start
    \/ Stop
    \/ Down
    \/ Tick
    \/ Observe
    \/ \E a \in Adders, c \in Configs : AddBegin(a, c)
    \/ \E a \in Adders : AddPort(a)
    \/ \E a \in Adders : AddNoPort(a)
    \/ \E a \in Adders : AddInsert(a)
    \/ \E id \in Ids : StartProcess(id)
    \/ \E id \in Ids : StopProcess(id)
    \/ \E id \in Ids : DeleteProcess(id)
    \/ \E id \in Ids, c \in Configs : UpdateFails(id, c)
    \/ \E id \in Ids, c \in Configs : UpdateProcess(id, c)
    \/ \E id \in Ids : ReloadFails(id)
    \/ \E id \in Ids : ReloadProcess(id)

Spec == Init /\ [][Next]_vars

-----------------------------------------------------------------------------
(* Properties *)

\* The playout ports of a running ffmpeg are its own: the pool does not offer
\* them, no other task or AddProcess call holds them and no other ffmpeg uses
\* them. (setPlayoutPorts, unsetPlayoutPorts on every path through add, update,
\* reload and delete, next to AddProcess calls that take ports at the same time)
PlayoutPortsExclusive ==
    \A id \in Running(tasks) :
        /\ tasks[id].command \subseteq inUse
        /\ \A other \in DOMAIN tasks \ {id} :
              /\ tasks[id].command \cap tasks[other].playout = {}
              /\ other \in Running(tasks) => tasks[id].command \cap tasks[other].command = {}
        /\ \A a \in Adders : tasks[id].command \cap adders[a].ports = {}

\* A crash forgets nothing the API has shown: every process of the table is in
\* the store with its configuration, and the store orders the start of those the
\* table orders to run. (save on every path; observe stops without it)
Durable ==
    \A id \in DOMAIN tasks :
        /\ id \in DOMAIN stored
        /\ stored[id].config = tasks[id].config
        /\ tasks[id].order = "start" => stored[id].order = "start"

\* What every task looks like between two critical sections: a valid one has an
\* ffmpeg; an ffmpeg, once there, was given exactly the ports the task holds and
\* as many as the configuration asks for, also while its task is invalid after a
\* failed reload; only ordered processes run. A call that has all its ports
\* (createTask) has the number asked for.
\* The tasks load has yet to complete have no ffmpeg, and there are none when
\* requests are served.
TaskOK(t) ==
    /\ t.valid => t.ffmpeg # "none"
    /\ t.ffmpeg # "none" => t.command = t.playout /\ Cardinality(t.playout) = t.config.playout
    /\ t.ffmpeg = "start" => t.order = "start"
TasksOK ==
    /\ \A id \in DOMAIN tasks : TaskOK(tasks[id])
    /\ \A a \in Adders : adders[a].pc = "insert" =>
          Cardinality(adders[a].ports) = adders[a].config.playout
    /\ \A id \in pending : tasks[id].ffmpeg = "none"
    /\ pending # {} => phase = "loading"

\* The ports that tasks and AddProcess calls hold are handed out to them alone.
PortsApart ==
    /\ \A id \in DOMAIN tasks : tasks[id].playout \subseteq inUse
    /\ \A i, j \in DOMAIN tasks : i # j => tasks[i].playout \cap tasks[j].playout = {}
    /\ \A a \in Adders : adders[a].ports \subseteq inUse
    /\ \A a \in Adders, id \in DOMAIN tasks : adders[a].ports \cap tasks[id].playout = {}
    /\ \A a, b \in Adders : a # b => adders[a].ports \cap adders[b].ports = {}

\* While the service runs r.nProc counts the running processes, through start,
\* stop, update, reload and delete, failed starts included
CountsRunning == phase = "started" => nProc = Cardinality(Running(tasks))

\* There are never more running processes than Config.MaxProcesses admits
MaxRespected == MaxProc > 0 => Cardinality(Running(tasks)) <= MaxProc

\* While the service runs the clean up rules in force are those of the
\* configurations of the table: none is missing, none is left from a deleted or
\* replaced process. (setCleanup and unsetCleanup in Start, Stop, add, update, delete)
RulesMatch ==
    phase = "started" =>
        \A id \in Ids : rules[id] = IF id \in DOMAIN tasks THEN RulesOf(tasks[id].config) ELSE {}

\* A process that UpdateProcess replaces is in the table afterwards
UpdateKeeps ==
    [][\A id \in Ids, c \in Configs : UpdateProcess(id, c) => c.id \in DOMAIN tasks']_vars
=============================================================================
