------------------------------- MODULE Process -------------------------------
(***************************************************************************)
(* core/process: the wrapper that starts, stops, kills and restarts one    *)
(* external program (ffmpeg).                                              *)
(*                                                                         *)
(* Goroutines of the code and the actors that stand for them:              *)
(*   Callers        the goroutines that call Start, Stop and Kill          *)
(*   Limiters       the goroutines limiter.collect starts for Kill(false)  *)
(*   Timer          the callback of the reconnect timer                    *)
(*   Staler(r)      the stale watcher started with run r                   *)
(* and, next to the actors, for every run r of the program its reader and  *)
(* waiter (wpc[r]) and the goroutine that calls onExit (cb[r]).            *)
(*                                                                         *)
(* A run is one exec.Cmd. Its number is used again once nothing refers to  *)
(* it any more, so that the behaviours are unbounded and the states finite.*)
(* The same holds for the numbers of the WaitGroups of stop(wait).         *)
(***************************************************************************)
EXTENDS Naturals, Sequences

CONSTANTS
    Callers,    \* goroutines that call the methods of the interface
    MaxRuns,    \* bound: runs that are referred to at the same time
    MaxWaits,   \* bound: WaitGroups that are referred to at the same time
    MaxPending, \* bound: timer callbacks that fired and did not run yet
    MaxLimits,  \* bound: calls of Kill by the limiter under way at the same time
    Ops,        \* the methods the callers use
    Reconnect,  \* Config.Reconnect
    Stale,      \* Config.StaleTimeout # 0
    Limits      \* a CPU or memory limit is configured

AllOps == {"Start", "Stop", "StopWait", "Kill", "KillWait"}
Runs == 1..MaxRuns
Waits == 1..MaxWaits
Limiters == {"limit"} \X (1..MaxLimits)
Timer == <<"timer", 0>>
Staler(r) == <<"stale", r>>
Stalers == {"stale"} \X Runs
NoThread == <<"none", 0>>
Actors == Callers \cup {Timer} \cup Limiters \cup Stalers

ASSUME BoundsAssumption ==
    /\ MaxRuns \in Nat \ {0} /\ MaxWaits \in Nat \ {0}
    /\ MaxPending \in Nat \ {0} /\ MaxLimits \in Nat
ASSUME ConfigAssumption ==
    /\ Ops \subseteq AllOps
    /\ Reconnect \in BOOLEAN /\ Stale \in BOOLEAN /\ Limits \in BOOLEAN
ASSUME CallersAssumption ==
    Callers \cap ({Timer, NoThread} \cup Limiters \cup Stalers) = {}

VARIABLES
    state,      \* p.state.state
    order,      \* p.order.order
    owner,      \* the actor that holds p.order.lock
    cmd,        \* the run p.cmd refers to, 0 for nil
    proc,       \* of each run: its operating system process
    killed,     \* the runs that were sent SIGKILL
    timer,      \* p.reconn.timer is set and has not fired
    fired,      \* reconnect callbacks that wait for p.order.lock
    killTimer,  \* p.killTimer is set and has not fired
    strayKills, \* kill callbacks that fired, or whose timer is referred to no more
    limiter,    \* the limiter has a process
    staleCancel,\* the run whose stale context p.stale.cancel cancels, 0 for nil
    onExit,     \* p.callbacks.onExit: the WaitGroups wrapped around the configured callback
    open,       \* the WaitGroups whose counter is 1
    cb,         \* of each run: the onExit value it calls and how far it got
    wpc, wid,   \* of each run: where its reader and waiter are, the run they wait for
    pc, op, wg, \* of each actor: its place, its method, its WaitGroup
    crashed     \* a goroutine panicked

vars == <<state, order, owner, cmd, proc, killed, timer, fired, killTimer,
          strayKills, limiter, staleCancel, onExit, open, cb, wpc, wid,
          pc, op, wg, crashed>>
osVars == <<proc, killed>>
killVars == <<killTimer, strayKills>>
cbVars == <<onExit, open, cb>>
waitVars == <<wpc, wid>>
timerVars == <<timer, fired>>

States == {"finished", "starting", "running", "finishing", "failed", "killed"}
Labels == {"idle", "Lock", "Begin", "Command", "Exec", "Run", "Watcher",
           "Check", "Unreconnect", "Get", "Mark", "Signal", "Arm", "Await", "Fail",
           "Watch", "Cancelled"}
WaitLabels == {"none", "Read", "Wait", "SetExit", "SetKilled", "Limits",
               "Cleanup", "Lock"}
Callbacks == [chain: Seq(Waits), step: Nat]
NoCallback == [chain |-> <<>>, step |-> 0]

TypeOK ==
    /\ state \in States /\ order \in {"start", "stop"}
    /\ owner \in Actors \cup {NoThread}
    /\ cmd \in Runs \cup {0} /\ proc \in [Runs -> {"none", "alive", "exited", "reaped"}]
    /\ killed \subseteq Runs
    /\ timer \in BOOLEAN /\ fired \in 0..MaxPending
    /\ killTimer \in BOOLEAN /\ strayKills \in 0..MaxPending
    /\ limiter \in BOOLEAN /\ staleCancel \in Runs \cup {0}
    /\ onExit \in Seq(Waits) /\ open \subseteq Waits
    /\ cb \in [Runs -> Callbacks]
    /\ wpc \in [Runs -> WaitLabels] /\ wid \in [Runs -> Runs \cup {0}]
    /\ pc \in [Actors -> Labels] /\ op \in [Actors -> Ops \cup {"none", "Kill"}]
    /\ wg \in [Actors -> Waits \cup {0}] /\ crashed \in BOOLEAN

\* New: the order is "stop", the state "finished", nothing runs
Init ==
    /\ state = "finished" /\ order = "stop" /\ owner = NoThread
    /\ cmd = 0 /\ proc = [r \in Runs |-> "none"] /\ killed = {}
    /\ timer = FALSE /\ fired = 0 /\ killTimer = FALSE /\ strayKills = 0
    /\ limiter = FALSE /\ staleCancel = 0
    /\ onExit = <<>> /\ open = {} /\ cb = [r \in Runs |-> NoCallback]
    /\ wpc = [r \in Runs |-> "none"] /\ wid = [r \in Runs |-> 0]
    /\ pc = [t \in Actors |-> "idle"] /\ op = [t \in Actors |-> "none"]
    /\ wg = [t \in Actors |-> 0] /\ crashed = FALSE

-----------------------------------------------------------------------------
(* Helpers *)

\* mutant: a process that could not be started counts as running
IsRunning_Failed == state \in {"starting", "running", "finishing", "failed"}

IsRunning == state \in {"starting", "running", "finishing"}

\* the switch of setState: the changes of the state it admits
Transitions ==
    {<<"finished", "starting">>,
     <<"starting", "finishing">>, <<"starting", "running">>, <<"starting", "failed">>,
     <<"running", "finished">>, <<"running", "finishing">>, <<"running", "failed">>,
     <<"running", "killed">>,
     <<"finishing", "finished">>, <<"finishing", "failed">>, <<"finishing", "killed">>,
     <<"failed", "starting">>, <<"killed", "starting">>}

\* setState leaves the state alone when it may not change to s; no caller looks at its error
SetState(s) == state' = IF <<state, s>> \in Transitions THEN s ELSE state

\* unreconnect stops the timer; a callback that fired already is not held back
StopTimer == timer' = FALSE

\* reconnect: unreconnect, then arm the timer again, when Config.Reconnect says so
ArmTimer == timer' = (Reconnect \/ timer)

Goto(t, label) == pc' = [pc EXCEPT ![t] = label]

\* the end of a method, with the deferred unlock of p.order.lock
Return(t) ==
    /\ Goto(t, "idle")
    /\ op' = [op EXCEPT ![t] = "none"]
    /\ wg' = [wg EXCEPT ![t] = 0]
    /\ owner' = IF owner = t THEN NoThread ELSE owner

\* p.cmd and p.cmd.Process are not nil
HasProcess == cmd \in Runs /\ proc[cmd] # "none"

Waiting(t) == op[t] \in {"StopWait", "KillWait"}

\* it does not matter which
Some(S) == CHOOSE n \in S : TRUE

\* a run nothing refers to: its number may stand for a new exec.Cmd
FreeRuns ==
    {r \in Runs : /\ cmd # r /\ staleCancel # r
                  /\ proc[r] # "alive" /\ wpc[r] = "none"
                  /\ \A q \in Runs : wpc[q] = "Wait" => wid[q] # r
                  /\ cb[r] = NoCallback /\ pc[Staler(r)] = "idle"}

\* a WaitGroup that no caller, no onExit and no running callback refers to
FreeWaits ==
    {w \in Waits : /\ \A t \in Actors : wg[t] # w
                   /\ \A i \in DOMAIN onExit : onExit[i] # w
                   /\ \A r \in Runs : \A i \in DOMAIN cb[r].chain : cb[r].chain[i] # w}

-----------------------------------------------------------------------------
(* Start, Stop, Kill and the lock they take *)

\* a caller calls a method; Kill looks at the state before it takes the lock
\* and returns at once when the process is not running
Call(t, m) ==
    /\ ~crashed /\ t \in Callers /\ pc[t] = "idle" /\ m \in Ops
    /\ m \in {"Kill", "KillWait"} => IsRunning
    /\ Goto(t, "Lock") /\ op' = [op EXCEPT ![t] = m]
    /\ UNCHANGED <<state, order, owner, cmd, osVars, timerVars, killVars,
                   limiter, staleCancel, cbVars, waitVars, wg, crashed>>

\* limiter.collect found a limit exceeded and starts a goroutine that calls
\* Kill(false); the next second it may start another
LimitExceeded ==
    LET idle == {t \in Limiters : pc[t] = "idle"}
        t == Some(idle)
    IN
    /\ ~crashed /\ limiter /\ idle # {} /\ IsRunning
    /\ Goto(t, "Lock") /\ op' = [op EXCEPT ![t] = "Kill"]
    /\ UNCHANGED <<state, order, owner, cmd, osVars, timerVars, killVars,
                   limiter, staleCancel, cbVars, waitVars, wg, crashed>>

\* mutant: Start does not look at the order
LockStart_NoOrderTest(t) ==
    /\ ~crashed /\ pc[t] = "Lock" /\ op[t] = "Start" /\ owner = NoThread /\ FreeRuns # {}
    /\ order' = "start" /\ Goto(t, "Begin") /\ owner' = t
    /\ UNCHANGED <<state, cmd, osVars, timerVars, killVars, limiter,
                   staleCancel, cbVars, waitVars, op, wg, crashed>>

\* Start with the lock: nothing to do when the order is "start" already
\* (bound: a lock holder that needs a new run or WaitGroup has one left)
LockStart(t) ==
    /\ ~crashed /\ pc[t] = "Lock" /\ op[t] = "Start" /\ owner = NoThread
    /\ order = "stop" => FreeRuns # {}
    /\ order' = "start"
    /\ IF order = "start" THEN Return(t)
                          ELSE Goto(t, "Begin") /\ owner' = t /\ UNCHANGED <<op, wg>>
    /\ UNCHANGED <<state, cmd, osVars, timerVars, killVars, limiter,
                   staleCancel, cbVars, waitVars, crashed>>

\* Stop with the lock: nothing to do when the order is "stop" already
LockStop(t) ==
    /\ ~crashed /\ pc[t] = "Lock" /\ op[t] \in {"Stop", "StopWait"} /\ owner = NoThread
    /\ Waiting(t) => FreeWaits # {}
    /\ order' = "stop"
    /\ IF order = "stop" THEN Return(t)
                         ELSE Goto(t, "Check") /\ owner' = t /\ UNCHANGED <<op, wg>>
    /\ UNCHANGED <<state, cmd, osVars, timerVars, killVars, limiter,
                   staleCancel, cbVars, waitVars, crashed>>

\* Kill with the lock: it stops the process and leaves the order alone
LockKill(t) ==
    /\ ~crashed /\ pc[t] = "Lock" /\ op[t] \in {"Kill", "KillWait"} /\ owner = NoThread
    /\ Waiting(t) => FreeWaits # {}
    /\ Goto(t, "Check") /\ owner' = t
    /\ UNCHANGED <<state, order, cmd, osVars, timerVars, killVars, limiter,
                   staleCancel, cbVars, waitVars, op, wg, crashed>>

\* the reconnect timer expires: its callback waits for the lock ...
TimerFire ==
    /\ ~crashed /\ timer /\ fired < MaxPending
    /\ timer' = FALSE /\ fired' = fired + 1
    /\ UNCHANGED <<state, order, owner, cmd, osVars, killVars, limiter,
                   staleCancel, cbVars, waitVars, pc, op, wg, crashed>>

\* ... and starts the process with it, whatever the order is by now
LockTimer ==
    /\ ~crashed /\ fired > 0 /\ owner = NoThread /\ FreeRuns # {}
    /\ fired' = fired - 1 /\ owner' = Timer /\ Goto(Timer, "Begin")
    /\ UNCHANGED <<state, order, cmd, osVars, timer, killVars, limiter,
                   staleCancel, cbVars, waitVars, op, wg, crashed>>

-----------------------------------------------------------------------------
(* start: called by Start and by the reconnect callback, with the lock *)

\* nothing to do when the process is running already
Begin(t) ==
    /\ ~crashed /\ pc[t] = "Begin"
    /\ IF IsRunning
       THEN Return(t) /\ UNCHANGED <<state, timer>>
       ELSE /\ StopTimer /\ SetState("starting")
            /\ Goto(t, "Command") /\ UNCHANGED <<owner, op, wg>>
    /\ UNCHANGED <<order, cmd, osVars, fired, killVars, limiter, staleCancel,
                   cbVars, waitVars, crashed>>

\* p.cmd becomes a new exec.Cmd; it has no process yet
Command(t) ==
    /\ ~crashed /\ pc[t] = "Command" /\ FreeRuns # {}
    /\ cmd' = Some(FreeRuns)
    /\ proc' = [proc EXCEPT ![cmd'] = "none"] /\ killed' = killed \ {cmd'}
    /\ Goto(t, "Exec")
    /\ UNCHANGED <<state, order, owner, timerVars, killVars, limiter,
                   staleCancel, cbVars, waitVars, op, wg, crashed>>

\* mutant: no restart is scheduled when the program cannot be started
ExecFails_NoReconnect(t) ==
    /\ ~crashed /\ pc[t] = "Exec"
    /\ SetState("failed") /\ Return(t)
    /\ UNCHANGED <<order, cmd, osVars, timerVars, killVars, limiter,
                   staleCancel, cbVars, waitVars, crashed>>

\* the program cannot be started: start returns an error and schedules a restart
ExecFails(t) ==
    /\ ~crashed /\ pc[t] = "Exec"
    /\ SetState("failed") /\ ArmTimer /\ Return(t)
    /\ UNCHANGED <<order, cmd, osVars, fired, killVars, limiter, staleCancel,
                   cbVars, waitVars, crashed>>

\* the program is started; limits.Start refuses when the limiter has a process
Exec(t) ==
    /\ ~crashed /\ pc[t] = "Exec"
    /\ proc' = [proc EXCEPT ![cmd] = "alive"]
    /\ limiter' = (Limits \/ limiter)
    /\ Goto(t, "Run")
    /\ UNCHANGED <<state, order, owner, cmd, killed, timerVars, killVars,
                   staleCancel, cbVars, waitVars, op, wg, crashed>>

\* the reader of the run is started
Run(t) ==
    /\ ~crashed /\ pc[t] = "Run"
    /\ SetState("running")
    /\ wpc' = [wpc EXCEPT ![cmd] = "Read"]
    /\ IF Stale THEN Goto(t, "Watcher") /\ UNCHANGED <<owner, op, wg>> ELSE Return(t)
    /\ UNCHANGED <<order, cmd, osVars, timerVars, killVars, limiter, staleCancel,
                   cbVars, wid, crashed>>

\* the stale watcher of the run is started; the run may be over by now
Watcher(t) ==
    /\ ~crashed /\ pc[t] = "Watcher"
    /\ staleCancel' = cmd
    /\ pc' = [pc EXCEPT ![t] = "idle", ![Staler(cmd)] = "Watch"]
    /\ op' = [op EXCEPT ![t] = "none"] /\ owner' = NoThread
    /\ UNCHANGED <<state, order, cmd, osVars, timerVars, killVars, limiter, cbVars,
                   waitVars, wg, crashed>>

-----------------------------------------------------------------------------
(* stop(wait): called with the lock by Stop and Kill, and without it by the *)
(* stale watcher                                                            *)

Check(t) ==
    /\ ~crashed /\ pc[t] = "Check"
    /\ Goto(t, IF IsRunning THEN "Get" ELSE "Unreconnect")
    /\ UNCHANGED <<state, order, owner, cmd, osVars, timerVars, killVars,
                   limiter, staleCancel, cbVars, waitVars, op, wg, crashed>>

\* the process is not running: only a restart that is scheduled is taken back
Unreconnect(t) ==
    /\ ~crashed /\ pc[t] = "Unreconnect"
    /\ StopTimer /\ Return(t)
    /\ UNCHANGED <<state, order, cmd, osVars, fired, killVars, limiter,
                   staleCancel, cbVars, waitVars, crashed>>

\* mutant: the early return keeps the lock
Get_KeepsLock(t) ==
    /\ ~crashed /\ pc[t] = "Get"
    /\ Goto(t, IF state = "finishing" THEN "idle" ELSE "Mark")
    /\ UNCHANGED <<state, order, owner, cmd, osVars, timerVars, killVars, limiter,
                   staleCancel, cbVars, waitVars, op, wg, crashed>>

\* a process that is finishing already is left alone
Get(t) ==
    /\ ~crashed /\ pc[t] = "Get"
    /\ IF state = "finishing" THEN Return(t)
                              ELSE Goto(t, "Mark") /\ UNCHANGED <<owner, op, wg>>
    /\ UNCHANGED <<state, order, cmd, osVars, timerVars, killVars, limiter,
                   staleCancel, cbVars, waitVars, crashed>>

\* mutant: the process is signalled without the state finishing
Mark_NoState(t) ==
    /\ ~crashed /\ pc[t] = "Mark"
    /\ Goto(t, "Signal")
    /\ UNCHANGED <<state, order, owner, cmd, osVars, timerVars, killVars,
                   limiter, staleCancel, cbVars, waitVars, op, wg, crashed>>

\* the state becomes finishing; a caller that waits wraps onExit
Mark(t) ==
    /\ ~crashed /\ pc[t] = "Mark"
    /\ SetState("finishing") /\ Goto(t, "Signal")
    /\ IF Waiting(t)
       THEN /\ FreeWaits # {}
            /\ wg' = [wg EXCEPT ![t] = Some(FreeWaits)]
            /\ open' = open \cup {wg'[t]} /\ onExit' = Append(onExit, wg'[t])
       ELSE UNCHANGED <<wg, open, onExit>>
    /\ UNCHANGED <<order, owner, cmd, osVars, timerVars, killVars, limiter,
                   staleCancel, cb, waitVars, op, crashed>>

\* mutant: the error of Signal is tested the wrong way round
Signal_Swapped(t) ==
    /\ ~crashed /\ pc[t] = "Signal"
    /\ crashed' = ~HasProcess
    /\ Goto(t, IF HasProcess /\ proc[cmd] = "reaped" THEN "Arm" ELSE "Fail")
    /\ UNCHANGED <<state, order, owner, cmd, osVars, timerVars, killVars,
                   limiter, staleCancel, cbVars, waitVars, op, wg>>

\* SIGINT to p.cmd.Process: a nil dereference when the command has no process,
\* an error when Wait has collected it, else delivered (to a zombie, too)
Signal(t) ==
    /\ ~crashed /\ pc[t] = "Signal"
    /\ crashed' = ~HasProcess
    /\ Goto(t, IF HasProcess /\ proc[cmd] = "reaped" THEN "Fail" ELSE "Arm")
    /\ UNCHANGED <<state, order, owner, cmd, osVars, timerVars, killVars,
                   limiter, staleCancel, cbVars, waitVars, op, wg>>

\* mutant: the kill timer is not set
Arm_NoTimer(t) ==
    /\ ~crashed /\ pc[t] = "Arm"
    /\ IF Waiting(t) THEN Goto(t, "Await") /\ UNCHANGED <<owner, op, wg>>
                     ELSE Return(t)
    /\ UNCHANGED <<state, order, cmd, osVars, timerVars, killVars, limiter,
                   staleCancel, cbVars, waitVars, crashed>>

\* the kill timer is set; one that p.killTimer referred to goes on by itself
Arm(t) ==
    /\ ~crashed /\ pc[t] = "Arm" /\ (killTimer => strayKills < MaxPending)
    /\ killTimer' = TRUE
    /\ strayKills' = IF killTimer THEN strayKills + 1 ELSE strayKills
    /\ IF Waiting(t) THEN Goto(t, "Await") /\ UNCHANGED <<owner, op, wg>>
                     ELSE Return(t)
    /\ UNCHANGED <<state, order, cmd, osVars, timerVars, limiter, staleCancel,
                   cbVars, waitVars, crashed>>

\* wg.Wait
Await(t) ==
    /\ ~crashed /\ pc[t] = "Await" /\ wg[t] \notin open
    /\ Return(t)
    /\ UNCHANGED <<state, order, cmd, osVars, timerVars, killVars, limiter,
                   staleCancel, cbVars, waitVars, crashed>>

\* the signal could not be sent: stop does not wait and reports failed
Fail(t) ==
    /\ ~crashed /\ pc[t] = "Fail"
    /\ SetState("failed") /\ Return(t)
    /\ UNCHANGED <<order, cmd, osVars, timerVars, killVars, limiter,
                   staleCancel, cbVars, waitVars, crashed>>

\* the kill timer expires ...
KillExpire ==
    /\ ~crashed /\ killTimer /\ strayKills < MaxPending
    /\ killTimer' = FALSE /\ strayKills' = strayKills + 1
    /\ UNCHANGED <<state, order, owner, cmd, osVars, timerVars, limiter,
                   staleCancel, cbVars, waitVars, pc, op, wg, crashed>>

\* mutant: a kill timer that was stopped goes off nevertheless
KillProcess_Anytime ==
    /\ ~crashed /\ strayKills' = strayKills - 1
    /\ crashed' = ~HasProcess
    /\ killed' = killed \cup {r \in Runs : r = cmd /\ proc[r] = "alive"}
    /\ UNCHANGED <<state, order, owner, cmd, proc, timerVars, killTimer,
                   limiter, staleCancel, cbVars, waitVars, pc, op, wg>>

\* ... and its callback kills the process p.cmd refers to by then
KillProcess ==
    /\ ~crashed /\ strayKills > 0 /\ strayKills' = strayKills - 1
    /\ crashed' = ~HasProcess
    /\ killed' = killed \cup {r \in Runs : r = cmd /\ proc[r] = "alive"}
    /\ UNCHANGED <<state, order, owner, cmd, proc, timerVars, killTimer,
                   limiter, staleCancel, cbVars, waitVars, pc, op, wg>>

-----------------------------------------------------------------------------
(* The stale watcher *)

StaleCancelled(r) ==
    /\ ~crashed /\ pc[Staler(r)] = "Cancelled"
    /\ Goto(Staler(r), "idle")
    /\ UNCHANGED <<state, order, owner, cmd, osVars, timerVars, killVars,
                   limiter, staleCancel, cbVars, waitVars, op, wg, crashed>>

\* the reader reported no progress for the stale timeout; a tick and the
\* cancellation may be ready together
StaleTimeout(r) ==
    /\ ~crashed /\ pc[Staler(r)] \in {"Watch", "Cancelled"}
    /\ Goto(Staler(r), "Check")
    /\ UNCHANGED <<state, order, owner, cmd, osVars, timerVars, killVars,
                   limiter, staleCancel, cbVars, waitVars, op, wg, crashed>>

-----------------------------------------------------------------------------
(* The program, and the reader and the waiter of a run *)

\* the program exits, by itself or because of a signal
Exit(r) ==
    /\ ~crashed /\ proc[r] = "alive"
    /\ proc' = [proc EXCEPT ![r] = "exited"]
    /\ UNCHANGED <<state, order, owner, cmd, killed, timerVars, killVars,
                   limiter, staleCancel, cbVars, waitVars, pc, op, wg, crashed>>

\* cmd.Wait returns an error when it was called before, or the command never started
WaitRefused(c) ==
    proc[c] \in {"none", "reaped"} \/ \E q \in Runs : wpc[q] = "Wait" /\ wid[q] = c

\* the reader is at the end of the output (or cannot scan it any further, while
\* the program goes on); the waiter calls Wait of p.cmd
Read(r) ==
    /\ ~crashed /\ wpc[r] = "Read"
    /\ wpc' = [wpc EXCEPT ![r] = IF WaitRefused(cmd) THEN "SetKilled" ELSE "Wait"]
    /\ wid' = [wid EXCEPT ![r] = cmd]
    /\ UNCHANGED <<state, order, owner, cmd, osVars, timerVars, killVars,
                   limiter, staleCancel, cbVars, pc, op, wg, crashed>>

\* Wait collects the process
Wait(r) ==
    /\ ~crashed /\ wpc[r] = "Wait" /\ proc[wid[r]] = "exited"
    /\ proc' = [proc EXCEPT ![wid[r]] = "reaped"]
    /\ wpc' = [wpc EXCEPT ![r] = "SetExit"]
    /\ UNCHANGED <<state, order, owner, cmd, killed, timerVars, killVars,
                   limiter, staleCancel, cbVars, wid, pc, op, wg, crashed>>

\* the state follows from the exit status; an error of Wait means killed
SetExit(r) ==
    /\ ~crashed /\ wpc[r] \in {"SetExit", "SetKilled"}
    /\ \E s \in {"finished", "failed", "killed"} :
          /\ wpc[r] = "SetKilled" => s = "killed"
          /\ SetState(s)
    /\ wpc' = [wpc EXCEPT ![r] = "Limits"]
    /\ wid' = [wid EXCEPT ![r] = 0]
    /\ UNCHANGED <<order, owner, cmd, osVars, timerVars, killVars, limiter,
                   staleCancel, cbVars, pc, op, wg, crashed>>

\* limits.Stop
StopLimits(r) ==
    /\ ~crashed /\ wpc[r] = "Limits"
    /\ limiter' = FALSE
    /\ wpc' = [wpc EXCEPT ![r] = "Cleanup"]
    /\ UNCHANGED <<state, order, owner, cmd, osVars, timerVars, killVars,
                   staleCancel, cbVars, wid, pc, op, wg, crashed>>

\* mutant: the waiter schedules the restart without the lock, and before it is done
Cleanup_EarlyReconnect(r) ==
    /\ ~crashed /\ wpc[r] = "Cleanup" /\ order = "start" /\ ArmTimer
    /\ killTimer' = FALSE /\ staleCancel' = 0
    /\ wpc' = [wpc EXCEPT ![r] = "Lock"]
    /\ UNCHANGED <<state, order, owner, cmd, osVars, fired, strayKills,
                   limiter, cbVars, wid, pc, op, wg, crashed>>

\* the kill timer is stopped, the stale watcher cancelled and onExit called
Cleanup(r) ==
    /\ ~crashed /\ wpc[r] = "Cleanup"
    /\ killTimer' = FALSE /\ staleCancel' = 0
    /\ pc' = [t \in Actors |->
                IF t = Staler(staleCancel) /\ pc[t] = "Watch" THEN "Cancelled" ELSE pc[t]]
    /\ cb' = [cb EXCEPT ![r] = [chain |-> onExit, step |-> 0]]
    /\ wpc' = [wpc EXCEPT ![r] = "Lock"]
    /\ UNCHANGED <<state, order, owner, cmd, osVars, timerVars, strayKills,
                   limiter, onExit, open, wid, op, wg, crashed>>

\* mutant: the restart is scheduled without a look at the order
LockReconnect_Always(r) ==
    /\ ~crashed /\ wpc[r] = "Lock" /\ owner = NoThread
    /\ ArmTimer
    /\ wpc' = [wpc EXCEPT ![r] = "none"]
    /\ UNCHANGED <<state, order, owner, cmd, osVars, fired, killVars, limiter,
                   staleCancel, cbVars, wid, pc, op, wg, crashed>>

\* with the lock: the restart is scheduled when the order is still "start"
LockReconnect(r) ==
    /\ ~crashed /\ wpc[r] = "Lock" /\ owner = NoThread
    /\ IF order = "start" THEN ArmTimer ELSE UNCHANGED timer
    /\ wpc' = [wpc EXCEPT ![r] = "none"]
    /\ UNCHANGED <<state, order, owner, cmd, osVars, fired, killVars, limiter,
                   staleCancel, cbVars, wid, pc, op, wg, crashed>>

\* the onExit wrapper of the i-th WaitGroup of the chain, after the ones it
\* wraps: wg.Done (which panics at zero), then onExit becomes what it wraps
ExitCallback(r) ==
    LET c == cb[r].chain
        i == cb[r].step \div 2 + 1
        done == cb[r].step + 1 = 2 * Len(c)
    IN /\ ~crashed /\ i \in DOMAIN c
       /\ IF cb[r].step % 2 = 0
          THEN /\ crashed' = (c[i] \notin open) /\ open' = open \ {c[i]}
               /\ UNCHANGED onExit
          ELSE /\ onExit' = SubSeq(c, 1, i - 1)
               /\ UNCHANGED <<open, crashed>>
       /\ cb' = [cb EXCEPT ![r] = IF done THEN NoCallback
                                      ELSE [chain |-> c, step |-> cb[r].step + 1]]
       /\ UNCHANGED <<state, order, owner, cmd, osVars, timerVars, killVars,
                      limiter, staleCancel, waitVars, pc, op, wg>>

-----------------------------------------------------------------------------
(* The specification *)

Locking(t) == LockStart(t) \/ LockStop(t) \/ LockKill(t)

Starting(t) ==
    Begin(t) \/ Command(t) \/ ExecFails(t) \/ Exec(t) \/ Run(t) \/ Watcher(t)

Stopping(t) ==
    \/ Check(t) \/ Unreconnect(t) \/ Get(t) \/ Mark(t) \/ Signal(t)
    \/ Arm(t) \/ Await(t) \/ Fail(t)

Timers == TimerFire \/ LockTimer \/ KillExpire \/ KillProcess

Staling(r) == StaleCancelled(r) \/ StaleTimeout(r)

Exiting(r) ==
    \/ Exit(r) \/ Read(r) \/ Wait(r) \/ SetExit(r) \/ StopLimits(r)
    \/ Cleanup(r) \/ LockReconnect(r) \/ ExitCallback(r)

\* a panic ends the whole server
Halted == crashed /\ UNCHANGED vars

Next ==
    \/ \E t \in Callers : \E m \in Ops : Call(t, m)
    \/ LimitExceeded
    \/ \E t \in Actors : Locking(t) \/ Starting(t) \/ Stopping(t)
    \/ Timers
    \/ \E r \in Runs : Staling(r) \/ Exiting(r)
    \/ Halted

Spec == Init /\ [][Next]_vars

\* Goroutines that can run do run. Go's mutex hands the lock over in order of
\* arrival to waiters that starve, hence the strong fairness of the steps that
\* take the lock. Timers expire. Nothing but SIGKILL makes the program exit, its
\* output ends when it has; nothing makes a caller call, a limit be exceeded or an
\* output fall silent.
Reaping(r) ==
    \/ proc[r] # "alive" /\ Read(r)
    \/ Wait(r) \/ SetExit(r) \/ StopLimits(r) \/ Cleanup(r)

Fairness ==
    /\ \A t \in Actors : WF_vars(Starting(t) \/ Stopping(t)) /\ SF_vars(Locking(t))
    /\ WF_vars(TimerFire) /\ SF_vars(LockTimer)
    /\ WF_vars(KillExpire) /\ WF_vars(KillProcess)
    /\ \A r \in Runs :
          /\ WF_vars(Reaping(r)) /\ SF_vars(LockReconnect(r))
          /\ WF_vars(ExitCallback(r)) /\ WF_vars(StaleCancelled(r))
          /\ WF_vars(r \in killed /\ Exit(r))

FairSpec == Spec /\ Fairness

-----------------------------------------------------------------------------
(* Properties *)

\* The wrapper never has two processes of the program alive at once: a second
\* ffmpeg on the same input and output. (start, waiter and reconnect hand the
\* right to start from one to the next.)
AtMostOneAlive ==
    \A q, r \in Runs : proc[q] = "alive" /\ proc[r] = "alive" => q = r

\* process.go:41-43 "IsRunning returns whether the process is currently running
\* or not": it never says no while a process is alive (a task that is not
\* running may be deleted or started again).
RunningWhileAlive ==
    (\E r \in Runs : proc[r] = "alive") => IsRunning

\* No goroutine of the wrapper panics: SIGINT or SIGKILL for a command without
\* a process, or a WaitGroup that is done twice.
NoPanic == ~crashed

\* goroutines in start()
StartLabels == {"Begin", "Command", "Exec", "Run"}
Starters == {t \in Actors : pc[t] \in StartLabels}

\* The scheduled restart, its expired callback, the goroutine in start() and the
\* unfinished waiter of a run exclude each other: an exit leads to one restart.
RestartTokens ==
    LET active == {<<"wait", r>> : r \in {q \in Runs : wpc[q] # "none"}}
        armed == IF timer THEN {<<"armed", 0>>} ELSE {}
        expired == IF fired > 0 THEN {<<"expired", 0>>} ELSE {}
    IN /\ fired <= 1
       /\ \A x, y \in Starters \cup active \cup armed \cup expired : x = y

\* The strengthening of AtMostOneAlive and RestartTokens that the steps preserve
\* as long as nobody calls Stop: who is in start() has the lock, and whoever may
\* start the program next is alone.
NothingToWaitFor == \A r \in Runs : wpc[r] = "none"
StartersHaveLock == \A t \in Actors : pc[t] \in StartLabels \cup {"Watcher"} => owner = t
StartersAlone == Starters # {} => ~timer /\ fired = 0 /\ NothingToWaitFor
TimerAlone == timer => fired = 0 /\ NothingToWaitFor
FiredAlone == fired <= 1 /\ (fired = 1 => NothingToWaitFor)
WaiterAlone == \A r \in Runs : wpc[r] # "none" => cmd = r
AliveWatched ==
    \A r \in Runs : proc[r] = "alive" =>
        /\ cmd = r
        /\ \/ wpc[r] = "Read" \/ (wpc[r] = "Wait" /\ wid[r] = r)
           \/ owner \in Actors /\ pc[owner] = "Run"
StoppedBefore == order = "stop" => Starters = {} /\ ~timer /\ fired = 0 /\ NothingToWaitFor
RestartInv ==
    /\ StartersHaveLock /\ StartersAlone /\ TimerAlone /\ FiredAlone
    /\ WaiterAlone /\ AliveWatched /\ StoppedBefore

\* The order "stop" is broken by a reconnect callback only, and only by one that was
\* scheduled, had fired or was at it already: no waiter of a run that ends after
\* Stop, no Kill, limiter or stale watcher brings the program back, and no Start
\* that was overtaken by Stop (the order is set and obeyed under one lock).
OnlyLateRestarts ==
    [][order = "stop" /\ order' = "stop" =>
          /\ (\E r \in Runs : proc[r] # "alive" /\ proc'[r] = "alive") => pc[Timer] = "Exec"
          /\ ~timer /\ fired = 0 /\ Starters = {} => ~timer' /\ fired' = 0 /\ Starters' = {}]_vars

\* process.go:33-35 "Stop stops the process and will not let it restart
\* automatically": nothing is started while the order is "stop". This is not so of
\* a process that restarts (MCProcess_v_stop.cfg): see OnlyLateRestarts.
StopNoRestart == [][\A r \in Runs : proc[r] # "alive" /\ order = "stop" => proc'[r] # "alive"]_vars

\* A caller that asked for Start, Stop or Kill gets an answer (or the server is gone).
CallsReturn == \A t \in Callers : pc[t] # "idle" ~> (pc[t] = "idle" \/ crashed)

\* A process that is asked to finish (SIGINT) ends even when it ignores the
\* request: the kill timer of stop() is neither lost nor spent on another run.
FinishingEnds ==
    \A r \in Runs : (cmd = r /\ proc[r] = "alive" /\ state = "finishing")
                      ~> (proc[r] # "alive" \/ crashed)

\* process.go:623-624 "Set up a timer to kill the process with SIGKILL in case
\* SIGINT didn't have an effect": only a run that was asked to finish is killed.
KillOnlyFinishing == [][killed' \subseteq killed \/ state = "finishing"]_vars

\* process.go:687-689: a run whose stale watcher timed out ends.
StaleEnds ==
    \A r \in Runs : pc[Staler(r)] = "Check" ~> (proc[r] # "alive" \/ crashed)

\* process.go:37-39 "Kill stops the process such that it will restart
\* automatically if it is defined to do so": while the order stays "start" the
\* process is running again and again.
RestartsWhileOrdered == []<>(order = "stop" \/ IsRunning)
=============================================================================
