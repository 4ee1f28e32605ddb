----------------------------- MODULE Process_proof -----------------------------
(***************************************************************************)
(* Theorems about Process, for every set of callers, every bound and every *)
(* configuration, unless a hypothesis says otherwise.                      *)
(***************************************************************************)
EXTENDS Process, SequenceTheorems, TLAPS

\* The steps only name threads of the system: none of them is another.
LEMMA ActorsDistinct ==
    /\ NoThread \notin Actors /\ Timer \in Actors /\ Timer \notin Callers
    /\ \A l \in Limiters : l \in Actors /\ l \notin Callers /\ l # Timer
    /\ \A r \in Runs : /\ Staler(r) \in Actors /\ Staler(r) \notin Callers
                       /\ Staler(r) \notin Limiters /\ Staler(r) # Timer
    /\ Callers \subseteq Actors
<1>1. \A r \in Runs : Staler(r) \in Stalers
  BY DEF Staler, Stalers
<1>2. \A r \in Runs : Staler(r) \notin Limiters /\ Staler(r) # Timer
  BY DEF Staler, Limiters, Timer
<1>3. NoThread \notin Stalers /\ NoThread \notin Limiters /\ NoThread # Timer /\ Timer \notin Limiters
  BY DEF NoThread, Stalers, Limiters, Timer
<1> QED
  BY <1>1, <1>2, <1>3, CallersAssumption DEF Actors

\* The numbers taken for a new run or WaitGroup are numbers of runs and WaitGroups.
LEMMA AnyFree ==
    /\ FreeRuns # {} => Some(FreeRuns) \in Runs
    /\ FreeWaits # {} => Some(FreeWaits) \in Waits
BY DEF Some, FreeRuns, FreeWaits

\* A goroutine of the limiter that is started is an idle actor, and calls Kill.
LEMMA AnyLimiter ==
    ASSUME LimitExceeded
    PROVE  \E t \in Limiters : pc[t] = "idle" /\ pc' = [pc EXCEPT ![t] = "Lock"]
                               /\ op' = [op EXCEPT ![t] = "Kill"]
<1> DEFINE idle == {t \in Limiters : pc[t] = "idle"}
           t == Some(idle)
<1>1. t \in idle
  BY DEF LimitExceeded, Some
<1>2. pc' = [pc EXCEPT ![t] = "Lock"] /\ op' = [op EXCEPT ![t] = "Kill"]
  BY DEF LimitExceeded, Goto
<1> HIDE DEF t
<1> QED
  BY <1>1, <1>2

\* The names the actions use are names of places and states.
LEMMA Names ==
    /\ "idle" \in Labels /\ "Lock" \in Labels /\ "Begin" \in Labels
    /\ "Command" \in Labels /\ "Exec" \in Labels /\ "Run" \in Labels
    /\ "Check" \in Labels /\ "Unreconnect" \in Labels /\ "Get" \in Labels
    /\ "Mark" \in Labels /\ "Signal" \in Labels /\ "Arm" \in Labels
    /\ "Await" \in Labels /\ "Fail" \in Labels /\ "Watch" \in Labels
    /\ "Cancelled" \in Labels /\ "Watcher" \in Labels
    /\ "none" \in WaitLabels /\ "Read" \in WaitLabels /\ "Wait" \in WaitLabels
    /\ "SetExit" \in WaitLabels /\ "SetKilled" \in WaitLabels
    /\ "Limits" \in WaitLabels /\ "Cleanup" \in WaitLabels /\ "Lock" \in WaitLabels
    /\ "finished" \in States /\ "starting" \in States /\ "running" \in States
    /\ "finishing" \in States /\ "failed" \in States /\ "killed" \in States
BY DEF Labels, WaitLabels, States

\* Type correctness of every step.
LEMMA TypeStep == TypeOK /\ [Next]_vars => TypeOK'
<1> SUFFICES ASSUME TypeOK, [Next]_vars PROVE TypeOK'
  OBVIOUS
<1> USE BoundsAssumption, ConfigAssumption, ActorsDistinct, AnyFree, Names
        DEF TypeOK, osVars, killVars, cbVars, waitVars, timerVars,
            Goto, Return, StopTimer, ArmTimer
<1>1. CASE UNCHANGED vars
  BY <1>1 DEF vars
<1>2. ASSUME NEW t \in Callers, NEW m \in Ops, Call(t, m) PROVE TypeOK'
  BY <1>2 DEF Call
<1>3. ASSUME LimitExceeded PROVE TypeOK'
  <2>1. pc' \in [Actors -> Labels] /\ op' \in [Actors -> Ops \cup {"none", "Kill"}]
    BY <1>3, AnyLimiter
  <2> QED
    BY <1>3, <2>1 DEF LimitExceeded
<1>4. ASSUME NEW t \in Actors, Locking(t) PROVE TypeOK'
  <2>1. CASE LockStart(t)
    BY <2>1 DEF LockStart
  <2>2. CASE LockStop(t)
    BY <2>2 DEF LockStop
  <2>3. CASE LockKill(t)
    BY <2>3 DEF LockKill
  <2> QED
    BY <1>4, <2>1, <2>2, <2>3 DEF Locking
<1>5. ASSUME NEW t \in Actors, Starting(t) PROVE TypeOK'
  <2>1. CASE Begin(t)
    <3>1. state' \in States /\ timer' \in BOOLEAN
      BY <2>1 DEF Begin, SetState
    <3>2. owner' \in Actors \cup {NoThread} /\ pc' \in [Actors -> Labels]
      BY <2>1 DEF Begin
    <3>3. op' \in [Actors -> Ops \cup {"none", "Kill"}] /\ wg' \in [Actors -> Waits \cup {0}]
      BY <2>1 DEF Begin
    <3> QED
      BY <2>1, <3>1, <3>2, <3>3 DEF Begin
  <2>2. CASE Command(t)
    BY <2>2 DEF Command
  <2>3. CASE ExecFails(t)
    BY <2>3 DEF ExecFails, SetState
  <2>4. CASE Exec(t)
    BY <2>4 DEF Exec
  <2>5. CASE Run(t)
    <3>1. owner' \in Actors \cup {NoThread} /\ pc' \in [Actors -> Labels]
      BY <2>5 DEF Run
    <3>2. op' \in [Actors -> Ops \cup {"none", "Kill"}] /\ wg' \in [Actors -> Waits \cup {0}]
      BY <2>5 DEF Run
    <3> QED
      BY <2>5, <3>1, <3>2 DEF Run, SetState
  <2>6. CASE Watcher(t)
    BY <2>6 DEF Watcher
  <2> QED
    BY <1>5, <2>1, <2>2, <2>3, <2>4, <2>5, <2>6 DEF Starting
<1>6. ASSUME NEW t \in Actors, Stopping(t) PROVE TypeOK'
  <2>1. CASE Check(t)
    BY <2>1 DEF Check
  <2>2. CASE Unreconnect(t)
    BY <2>2 DEF Unreconnect
  <2>3. CASE Get(t)
    BY <2>3 DEF Get
  <2>4. CASE Mark(t)
    <3>1. state' \in States /\ pc' \in [Actors -> Labels]
      BY <2>4 DEF Mark, SetState
    <3>2. wg' \in [Actors -> Waits \cup {0}] /\ open' \subseteq Waits
      BY <2>4 DEF Mark
    <3>3. onExit' \in Seq(Waits)
      <4>1. CASE Waiting(t)
        <5>1. FreeWaits # {} /\ wg' = [wg EXCEPT ![t] = Some(FreeWaits)]
              /\ onExit' = Append(onExit, wg'[t])
          BY <2>4, <4>1 DEF Mark
        <5>2. wg'[t] \in Waits
          BY <5>1
        <5> QED
          BY <5>1, <5>2, AppendProperties
      <4>2. CASE ~Waiting(t)
        BY <2>4, <4>2 DEF Mark
      <4> QED
        BY <4>1, <4>2
    <3> QED
      BY <2>4, <3>1, <3>2, <3>3 DEF Mark
  <2>5. CASE Signal(t)
    BY <2>5 DEF Signal
  <2>6. CASE Arm(t)
    BY <2>6 DEF Arm
  <2>7. CASE Await(t)
    BY <2>7 DEF Await
  <2>8. CASE Fail(t)
    BY <2>8 DEF Fail, SetState
  <2> QED
    BY <1>6, <2>1, <2>2, <2>3, <2>4, <2>5, <2>6, <2>7, <2>8 DEF Stopping
<1>7. ASSUME Timers PROVE TypeOK'
  <2>1. CASE TimerFire
    <3>1. fired' \in 0..MaxPending
      BY <2>1 DEF TimerFire
    <3> QED
      BY <2>1, <3>1 DEF TimerFire
  <2>2. CASE LockTimer
    BY <2>2 DEF LockTimer
  <2>3. CASE KillExpire
    <3>1. strayKills' \in 0..MaxPending
      BY <2>3 DEF KillExpire
    <3> QED
      BY <2>3, <3>1 DEF KillExpire
  <2>4. CASE KillProcess
    <3>1. strayKills' \in 0..MaxPending
      BY <2>4 DEF KillProcess
    <3>2. killed' \subseteq Runs
      BY <2>4 DEF KillProcess
    <3> QED
      BY <2>4, <3>1, <3>2 DEF KillProcess
  <2> QED
    BY <1>7, <2>1, <2>2, <2>3, <2>4 DEF Timers
<1>8. ASSUME NEW r \in Runs, Staling(r) PROVE TypeOK'
  BY <1>8 DEF Staling, StaleCancelled, StaleTimeout
<1>9. ASSUME NEW r \in Runs, Exiting(r) PROVE TypeOK'
  <2>1. CASE Exit(r)
    BY <2>1 DEF Exit
  <2>2. CASE Read(r)
    BY <2>2 DEF Read
  <2>3. CASE Wait(r)
    BY <2>3 DEF Wait
  <2>4. CASE SetExit(r)
    BY <2>4 DEF SetExit, SetState
  <2>5. CASE StopLimits(r)
    BY <2>5 DEF StopLimits
  <2>6. CASE Cleanup(r)
    <3>1. pc' \in [Actors -> Labels]
      BY <2>6 DEF Cleanup
    <3>2. [chain |-> onExit, step |-> 0] \in Callbacks
      BY DEF Callbacks
    <3> QED
      BY <2>6, <3>1, <3>2 DEF Cleanup
  <2>7. CASE LockReconnect(r)
    BY <2>7 DEF LockReconnect
  <2>8. CASE ExitCallback(r)
    <3> DEFINE c == cb[r].chain
               i == cb[r].step \div 2 + 1
    <3>1. c \in Seq(Waits) /\ cb[r].step \in Nat /\ i \in DOMAIN c
      BY <2>8 DEF ExitCallback, Callbacks
    <3>2. NoCallback \in Callbacks /\ [chain |-> c, step |-> cb[r].step + 1] \in Callbacks
      BY <3>1 DEF NoCallback, Callbacks
    <3>3. cb' \in [Runs -> Callbacks]
      BY <2>8, <3>2 DEF ExitCallback
    <3>4. SubSeq(c, 1, i - 1) \in Seq(Waits)
      <4>1. i \in 1..Len(c)
        BY <3>1
      <4>2. \A k \in 1..(i - 1) : c[k] \in Waits
        BY <3>1, <4>1
      <4> HIDE DEF c, i
      <4> QED
        BY <4>1, <4>2, SubSeqProperties
    <3>5. onExit' \in Seq(Waits) /\ open' \subseteq Waits /\ crashed' \in BOOLEAN
      BY <2>8, <3>4 DEF ExitCallback
    <3> QED
      BY <2>8, <3>3, <3>5 DEF ExitCallback
  <2> QED
    BY <1>9, <2>1, <2>2, <2>3, <2>4, <2>5, <2>6, <2>7, <2>8 DEF Exiting
<1> QED
  BY <1>1, <1>2, <1>3, <1>4, <1>5, <1>6, <1>7, <1>8, <1>9 DEF Next, Halted

\* Every value of every variable is one the declarations of process.go allow.
THEOREM TypeCorrect == Spec => []TypeOK
<1>0. NoCallback \in Callbacks
  BY DEF NoCallback, Callbacks
<1>1. Init => TypeOK
  <2> SUFFICES ASSUME Init PROVE TypeOK
    OBVIOUS
  <2>1. onExit \in Seq(Waits) /\ cb \in [Runs -> Callbacks]
    BY <1>0 DEF Init
  <2>2. fired \in 0..MaxPending /\ strayKills \in 0..MaxPending
    BY BoundsAssumption DEF Init
  <2>3. pc \in [Actors -> Labels] /\ wpc \in [Runs -> WaitLabels] /\ state \in States
    BY Names DEF Init
  <2> QED
    BY <2>1, <2>2, <2>3 DEF Init, TypeOK
<1> QED
  BY <1>1, TypeStep, PTL DEF Spec

-----------------------------------------------------------------------------
(* Restarts are unique when nobody calls Stop *)

\* A step that leaves the restart machinery alone, unless it takes the timer back,
\* and that moves one actor outside start().
LEMMA QuietStep ==
    ASSUME TypeOK, RestartInv, NEW t \in Actors, NEW l,
           pc[t] \notin StartLabels \cup {"Watcher"}, l \notin StartLabels \cup {"Watcher"},
           pc' = [pc EXCEPT ![t] = l],
           \/ owner' = owner
           \/ owner = t /\ owner' = NoThread
           \/ owner = NoThread /\ owner' = t,
           UNCHANGED <<order, fired, wpc, wid, cmd, proc>>, timer' => timer
    PROVE  RestartInv'
<1>1. Starters' = Starters
  BY DEF TypeOK, Starters
<1>2. /\ \A u \in Starters : owner = u /\ owner' = u /\ pc'[u] = pc[u]
      /\ StartersHaveLock'
  BY ActorsDistinct DEF RestartInv, StartersHaveLock, Starters, TypeOK
<1>3. AliveWatched'
  BY <1>2, ActorsDistinct DEF RestartInv, AliveWatched, Starters, StartLabels, TypeOK
<1> QED
  BY <1>1, <1>2, <1>3 DEF RestartInv, StartersAlone, TimerAlone,
     FiredAlone, WaiterAlone, StoppedBefore, NothingToWaitFor

\* A step that touches nothing the invariant speaks about.
LEMMA SilentStep ==
    ASSUME RestartInv,
           UNCHANGED <<pc, owner, order, timer, fired, wpc, wid, cmd, proc>>
    PROVE  RestartInv'
BY DEF RestartInv, StartersHaveLock, StartersAlone, TimerAlone, FiredAlone, WaiterAlone,
       AliveWatched, StoppedBefore, NothingToWaitFor, Starters

\* The end of start(): the one starter leaves, with the lock given back.
LEMMA LastStarter ==
    ASSUME TypeOK, RestartInv, NEW t \in Starters
    PROVE  /\ Starters = {t} /\ owner = t /\ order = "start"
           /\ ~timer /\ fired = 0 /\ NothingToWaitFor
           /\ pc[t] # "Run" => \A r \in Runs : proc[r] # "alive"
BY DEF RestartInv, StartersHaveLock, StartersAlone, StoppedBefore, AliveWatched,
       NothingToWaitFor, Starters, TypeOK

\* An unfinished waiter is the only one, and nobody starts or may start.
LEMMA OneWaiter ==
    ASSUME TypeOK, RestartInv, NEW r \in Runs, wpc[r] # "none"
    PROVE  /\ cmd = r /\ Starters = {} /\ ~timer /\ fired = 0 /\ order = "start"
           /\ \A q \in Runs : q # r => wpc[q] = "none"
           /\ \A q \in Runs : proc[q] = "alive" =>
                 q = r /\ (wpc[r] = "Read" \/ (wpc[r] = "Wait" /\ wid[r] = r))
BY DEF RestartInv, StartersAlone, TimerAlone, FiredAlone, WaiterAlone, AliveWatched,
       StoppedBefore, NothingToWaitFor, Starters, StartLabels, TypeOK

\* No step of a process that nobody stops breaks the invariant.
LEMMA RestartStep ==
    ASSUME TypeOK, RestartInv, [Next]_vars, "Stop" \notin Ops, "StopWait" \notin Ops
    PROVE  RestartInv'
<1> USE ActorsDistinct DEF Goto, osVars, killVars, cbVars, waitVars, timerVars
<1>0. /\ \A l \in {"idle", "Lock", "Check", "Unreconnect", "Get", "Mark", "Signal", "Arm",
                     "Await", "Fail", "Watch", "Cancelled"} : l \notin StartLabels \cup {"Watcher"}
      /\ \A t \in Actors : t \in Starters <=> pc[t] \in StartLabels
  BY DEF StartLabels, Starters
<1>1. CASE UNCHANGED vars
  BY <1>1, SilentStep DEF vars
<1>2. ASSUME NEW t \in Callers, NEW m \in Ops, Call(t, m) PROVE RestartInv'
  BY <1>0, <1>2, QuietStep DEF Call
<1>3. ASSUME LimitExceeded PROVE RestartInv'
  <2>1. UNCHANGED <<owner, order, fired, wpc, wid, cmd, proc, timer>>
    BY <1>3 DEF LimitExceeded
  <2> QED
    BY <1>0, <1>3, <2>1, AnyLimiter, QuietStep
<1>4. ASSUME NEW t \in Actors, Locking(t) PROVE RestartInv'
  <2>1. CASE LockStart(t) /\ order = "start"
    <3>1. /\ pc[t] \notin StartLabels \cup {"Watcher"}
          /\ pc' = [pc EXCEPT ![t] = "idle"] /\ owner' = owner
          /\ UNCHANGED <<order, fired, wpc, wid, cmd, proc, timer>>
      BY <1>0, <2>1 DEF LockStart, Return
    <3> QED
      BY <1>0, <3>1, QuietStep
  <2>2. CASE LockStart(t) /\ order # "start"
    <3>1. /\ owner' = t /\ pc' = [pc EXCEPT ![t] = "Begin"] /\ order' = "start"
          /\ UNCHANGED <<fired, wpc, cmd, proc, timer>>
      BY <2>2 DEF LockStart
    <3>2. Starters = {} /\ ~timer /\ fired = 0 /\ NothingToWaitFor
      BY <2>2 DEF TypeOK, RestartInv, StoppedBefore
    <3>3. Starters' = {t}
      BY <3>1, <3>2 DEF TypeOK, Starters, StartLabels
    <3>4. \A r \in Runs : proc[r] # "alive"
      BY <2>2, <3>2 DEF RestartInv, AliveWatched, NothingToWaitFor, LockStart
    <3>5. StartersHaveLock'
      BY <2>2, <3>1 DEF LockStart, RestartInv, StartersHaveLock, TypeOK
    <3> QED
      BY <3>1, <3>2, <3>3, <3>4, <3>5 DEF RestartInv, StartersAlone, TimerAlone,
         FiredAlone, WaiterAlone, AliveWatched, StoppedBefore, NothingToWaitFor
  <2>3. CASE LockStop(t)
    BY <2>3 DEF LockStop, TypeOK
  <2>4. CASE LockKill(t)
    BY <1>0, <2>4, QuietStep DEF LockKill
  <2> QED
    BY <1>4, <2>1, <2>2, <2>3, <2>4 DEF Locking
<1>5. ASSUME NEW t \in Actors, Starting(t) PROVE RestartInv'
  <2>6. CASE Watcher(t)
    <3>1. /\ UNCHANGED <<order, fired, wpc, wid, cmd, timer, proc>>
          /\ pc[t] = "Watcher" /\ owner = t
          /\ \A u \in Actors : u # t => pc'[u] = pc[u] \/ pc'[u] = "Watch"
          /\ pc'[t] \in {"idle", "Watch"}
      BY <2>6 DEF Watcher, TypeOK, RestartInv, StartersHaveLock
    <3>2. \A u \in Actors : pc'[u] \notin StartLabels \cup {"Watcher"}
      BY <3>1 DEF StartLabels, RestartInv, StartersHaveLock
    <3>3. Starters' = {}
      BY <3>2 DEF Starters
    <3>4. AliveWatched'
      BY <3>1 DEF AliveWatched, RestartInv
    <3> QED
      BY <3>1, <3>2, <3>3, <3>4 DEF RestartInv, StartersHaveLock, StartersAlone, TimerAlone,
         FiredAlone, WaiterAlone, StoppedBefore, NothingToWaitFor
  <2> SUFFICES ASSUME ~Watcher(t) PROVE RestartInv'
    BY <2>6
  <2>0. /\ t \in Starters /\ Starters = {t} /\ owner = t /\ order = "start"
        /\ ~timer /\ fired = 0 /\ NothingToWaitFor
        /\ pc[t] # "Run" => \A r \in Runs : proc[r] # "alive"
    <3>1. t \in Starters
      BY <1>0, <1>5 DEF Starting, Begin, Command, ExecFails, Exec, Run, StartLabels
    <3> QED
      BY <3>1, LastStarter
  <2>7. \A u \in Actors : u # t => pc[u] \notin StartLabels \cup {"Watcher"}
    BY <2>0 DEF RestartInv, StartersHaveLock
  <2>1. CASE Begin(t)
    <3>1. /\ UNCHANGED <<order, fired, wpc, cmd, proc>> /\ timer' = FALSE
          /\ pc[t] = "Begin"
          /\ \/ pc' = [pc EXCEPT ![t] = "idle"] /\ owner' = NoThread
             \/ pc' = [pc EXCEPT ![t] = "Command"] /\ owner' = owner
      BY <2>0, <2>1 DEF Begin, Return, StopTimer
    <3>2. Starters' \subseteq {t} /\ (Starters' # {} => owner' = t)
      BY <2>0, <3>1 DEF TypeOK, Starters, StartLabels
    <3>3. \A r \in Runs : proc'[r] # "alive"
      BY <2>0, <3>1
    <3>4. StartersHaveLock'
      BY <2>0, <2>7, <3>1 DEF StartersHaveLock, StartLabels, TypeOK
    <3> QED
      BY <2>0, <3>1, <3>2, <3>3, <3>4 DEF RestartInv, StartersAlone, TimerAlone,
         FiredAlone, WaiterAlone, AliveWatched, StoppedBefore, NothingToWaitFor
  <2>2. CASE Command(t)
    <3>1. /\ UNCHANGED <<order, fired, wpc, timer, owner>>
          /\ pc[t] = "Command" /\ pc' = [pc EXCEPT ![t] = "Exec"]
          /\ proc' = [proc EXCEPT ![cmd'] = "none"]
      BY <2>2 DEF Command
    <3>2. Starters' = {t}
      BY <2>0, <3>1 DEF TypeOK, Starters, StartLabels
    <3>3. \A r \in Runs : proc'[r] # "alive"
      BY <2>0, <3>1 DEF TypeOK
    <3>4. StartersHaveLock'
      BY <2>0, <2>7, <3>1 DEF StartersHaveLock, StartLabels, TypeOK
    <3> QED
      BY <2>0, <3>1, <3>2, <3>3, <3>4 DEF RestartInv, StartersAlone, TimerAlone,
         FiredAlone, WaiterAlone, AliveWatched, StoppedBefore, NothingToWaitFor
  <2>3. CASE ExecFails(t)
    <3>1. /\ UNCHANGED <<order, fired, wpc, cmd, proc>> /\ pc[t] = "Exec"
          /\ pc' = [pc EXCEPT ![t] = "idle"] /\ owner' = NoThread
      BY <2>0, <2>3 DEF ExecFails, Return
    <3>2. Starters' = {}
      BY <2>0, <3>1 DEF TypeOK, Starters, StartLabels
    <3>3. \A r \in Runs : proc'[r] # "alive"
      BY <2>0, <3>1
    <3>4. StartersHaveLock'
      BY <2>0, <2>7, <3>1 DEF StartersHaveLock, StartLabels, TypeOK
    <3> QED
      BY <2>0, <3>1, <3>2, <3>3, <3>4 DEF RestartInv, StartersAlone, TimerAlone,
         FiredAlone, WaiterAlone, AliveWatched, StoppedBefore, NothingToWaitFor
  <2>4. CASE Exec(t)
    <3>1. /\ UNCHANGED <<order, fired, wpc, cmd, timer, owner>> /\ pc[t] = "Exec"
          /\ pc' = [pc EXCEPT ![t] = "Run"] /\ proc' = [proc EXCEPT ![cmd] = "alive"]
      BY <2>4 DEF Exec
    <3>2. Starters' = {t} /\ pc'[t] = "Run"
      BY <2>0, <3>1 DEF TypeOK, Starters, StartLabels
    <3>3. \A r \in Runs : proc'[r] = "alive" => cmd = r
      BY <2>0, <3>1 DEF TypeOK
    <3>4. StartersHaveLock'
      BY <2>0, <2>7, <3>1 DEF StartersHaveLock, StartLabels, TypeOK
    <3> QED
      BY <2>0, <3>1, <3>2, <3>3, <3>4 DEF RestartInv, StartersAlone, TimerAlone,
         FiredAlone, WaiterAlone, AliveWatched, StoppedBefore, NothingToWaitFor
  <2>5. CASE Run(t)
    <3>1. /\ UNCHANGED <<order, fired, cmd, timer, proc>>
          /\ wpc' = [wpc EXCEPT ![cmd] = "Read"]
          /\ \/ pc' = [pc EXCEPT ![t] = "idle"] /\ owner' = NoThread
             \/ pc' = [pc EXCEPT ![t] = "Watcher"] /\ owner' = owner
      BY <2>0, <2>5 DEF Run, Return
    <3>5. StartersHaveLock'
      BY <2>0, <3>1 DEF RestartInv, StartersHaveLock, StartLabels, TypeOK
    <3>2. Starters' = {}
      BY <2>0, <3>1 DEF TypeOK, Starters, StartLabels
    <3>3. \A r \in Runs : wpc'[r] # "none" => cmd = r /\ wpc'[r] = "Read"
      BY <2>0, <3>1 DEF TypeOK, NothingToWaitFor
    <3>4. \A r \in Runs : proc[r] = "alive" => cmd = r /\ wpc'[r] = "Read"
      BY <3>1 DEF TypeOK, RestartInv, AliveWatched
    <3> QED
      BY <2>0, <3>1, <3>2, <3>3, <3>4, <3>5 DEF RestartInv, StartersAlone,
         TimerAlone, FiredAlone, WaiterAlone, AliveWatched, StoppedBefore, NothingToWaitFor
  <2> QED
    BY <1>5, <2>1, <2>2, <2>3, <2>4, <2>5, <2>6 DEF Starting
<1>6. ASSUME NEW t \in Actors, Stopping(t) PROVE RestartInv'
  <2>1. /\ pc[t] \notin StartLabels \cup {"Watcher"}
        /\ UNCHANGED <<order, fired, wpc, wid, cmd, proc>> /\ (timer' => timer)
        /\ owner' = owner \/ (owner = t /\ owner' = NoThread)
        /\ \E l \in {"idle", "Unreconnect", "Get", "Mark", "Signal", "Arm", "Await", "Fail"} :
              pc' = [pc EXCEPT ![t] = l]
    BY <1>0, <1>6 DEF Stopping, Check, Unreconnect, Get, Mark, Signal, Arm, Await, Fail,
       Return, StopTimer
  <2> QED
    BY <1>0, <2>1, QuietStep
<1>7. ASSUME Timers PROVE RestartInv'
  <2>1. CASE TimerFire
    <3>1. /\ timer /\ timer' = FALSE /\ fired' = fired + 1
          /\ UNCHANGED <<order, wpc, cmd, proc, owner, pc>>
      BY <2>1 DEF TimerFire
    <3>2. fired = 0 /\ NothingToWaitFor /\ Starters = {} /\ order # "stop"
      BY <3>1 DEF RestartInv, TimerAlone, StartersAlone, StoppedBefore
    <3> QED
      BY <3>1, <3>2, Starters' = {} DEF RestartInv, StartersHaveLock, StartersAlone, TimerAlone,
         FiredAlone, WaiterAlone, AliveWatched, StoppedBefore, NothingToWaitFor, Starters
  <2>2. CASE LockTimer
    <3>1. /\ fired > 0 /\ fired' = fired - 1 /\ owner = NoThread /\ owner' = Timer
          /\ pc' = [pc EXCEPT ![Timer] = "Begin"]
          /\ UNCHANGED <<order, wpc, cmd, proc, timer>>
      BY <2>2 DEF LockTimer
    <3>5. StartersHaveLock'
      BY <3>1 DEF RestartInv, StartersHaveLock, TypeOK
    <3>2. fired = 1 /\ ~timer /\ NothingToWaitFor /\ Starters = {} /\ order # "stop"
      BY <3>1 DEF TypeOK, RestartInv, FiredAlone, TimerAlone, StartersAlone, StoppedBefore
    <3>3. Starters' = {Timer}
      BY <3>1, <3>2 DEF TypeOK, Starters, StartLabels
    <3>4. \A r \in Runs : proc[r] # "alive"
      BY <3>1, <3>2 DEF RestartInv, AliveWatched, NothingToWaitFor
    <3> QED
      BY <3>1, <3>2, <3>3, <3>4, <3>5 DEF RestartInv, StartersAlone, TimerAlone,
         FiredAlone, WaiterAlone, AliveWatched, StoppedBefore, NothingToWaitFor
  <2>3. CASE KillExpire
    BY <2>3, SilentStep DEF KillExpire
  <2>4. CASE KillProcess
    BY <2>4, SilentStep DEF KillProcess
  <2> QED
    BY <1>7, <2>1, <2>2, <2>3, <2>4 DEF Timers
<1>8. ASSUME NEW r \in Runs, Staling(r) PROVE RestartInv'
  BY <1>0, <1>8, QuietStep DEF Staling, StaleCancelled, StaleTimeout
<1>9. ASSUME NEW r \in Runs, Exiting(r) PROVE RestartInv'
  <2>1. CASE Exit(r)
    BY <2>1 DEF Exit, TypeOK, RestartInv, StartersHaveLock, StartersAlone, TimerAlone,
       FiredAlone, WaiterAlone, AliveWatched, StoppedBefore, NothingToWaitFor, Starters
  <2>2. CASE ExitCallback(r)
    BY <2>2, SilentStep DEF ExitCallback
  <2>3. CASE LockReconnect(r)
    <3>1. /\ wpc[r] # "none" /\ wpc' = [wpc EXCEPT ![r] = "none"]
          /\ UNCHANGED <<order, fired, cmd, proc, owner, pc>> /\ owner = NoThread
      BY <2>3 DEF LockReconnect
    <3>2. /\ cmd = r /\ Starters = {} /\ fired = 0 /\ order = "start"
          /\ \A q \in Runs : q # r => wpc[q] = "none"
          /\ \A q \in Runs : proc[q] = "alive" => q = r /\ wpc[r] \in {"Read", "Wait"}
      BY <3>1, OneWaiter
    <3>3. Starters' = {} /\ NothingToWaitFor'
      BY <3>1, <3>2 DEF TypeOK, Starters, NothingToWaitFor
    <3>4. \A q \in Runs : proc[q] # "alive"
      BY <2>3, <3>2 DEF LockReconnect
    <3> QED
      BY <3>1, <3>2, <3>3, <3>4 DEF RestartInv, StartersHaveLock, StartersAlone, TimerAlone,
         FiredAlone, WaiterAlone, AliveWatched, StoppedBefore, NothingToWaitFor
  <2>4. CASE Read(r) \/ Wait(r) \/ SetExit(r) \/ StopLimits(r) \/ Cleanup(r)
    <3>1. /\ wpc[r] # "none" /\ \E l \in WaitLabels : wpc' = [wpc EXCEPT ![r] = l]
          /\ UNCHANGED <<order, fired, cmd, timer, owner>>
          /\ \A q \in Runs : proc'[q] = "alive" => proc[q] = "alive"
      BY <2>4, Names DEF Read, Wait, SetExit, StopLimits, Cleanup, TypeOK
    <3>2. /\ cmd = r /\ Starters = {} /\ ~timer /\ fired = 0 /\ order = "start"
          /\ \A q \in Runs : q # r => wpc[q] = "none"
          /\ \A q \in Runs : proc[q] = "alive" =>
                 q = r /\ (wpc[r] = "Read" \/ (wpc[r] = "Wait" /\ wid[r] = r))
      BY <3>1, OneWaiter
    <3>3. \A t \in Actors : pc'[t] = pc[t] \/ pc'[t] = "Cancelled"
      BY <2>4 DEF Read, Wait, SetExit, StopLimits, Cleanup, TypeOK
    <3>4. Starters' = {} /\ StartersHaveLock'
      BY <3>1, <3>2, <3>3 DEF Starters, StartLabels, RestartInv, StartersHaveLock
    <3>5. \A q \in Runs : proc'[q] = "alive" => q = r /\ wpc'[r] = "Wait" /\ wid'[r] = r
      <4>1. CASE Read(r)
        <5>1. /\ proc' = proc /\ wid' = [wid EXCEPT ![r] = r]
              /\ wpc' = [wpc EXCEPT ![r] = IF WaitRefused(r) THEN "SetKilled" ELSE "Wait"]
          BY <3>2, <4>1 DEF Read
        <5>2. proc[r] = "alive" => ~WaitRefused(r)
          BY <3>2, <4>1 DEF Read, WaitRefused
        <5> QED
          BY <3>2, <5>1, <5>2 DEF TypeOK
      <4>2. CASE Wait(r)
        BY <3>1, <3>2, <4>2 DEF Wait, TypeOK
      <4>3. CASE SetExit(r) \/ StopLimits(r) \/ Cleanup(r)
        BY <3>1, <3>2, <4>3 DEF SetExit, StopLimits, Cleanup
      <4> QED
        BY <2>4, <4>1, <4>2, <4>3
    <3>6. \A q \in Runs : wpc'[q] # "none" => q = r
      BY <3>1, <3>2 DEF TypeOK
    <3> QED
      BY <3>1, <3>2, <3>4, <3>5, <3>6 DEF RestartInv, StartersAlone,
         TimerAlone, FiredAlone, WaiterAlone, AliveWatched, StoppedBefore, NothingToWaitFor
  <2> QED
    BY <1>9, <2>1, <2>2, <2>3, <2>4 DEF Exiting
<1> QED
  BY <1>1, <1>2, <1>3, <1>4, <1>5, <1>6, <1>7, <1>8, <1>9 DEF Next, Halted

\* While nobody calls Stop, the right to start the program has one holder.
THEOREM RestartInvariant ==
    ASSUME "Stop" \notin Ops, "StopWait" \notin Ops
    PROVE  Spec => []RestartInv
<1>1. Init => RestartInv
  BY BoundsAssumption DEF Init, RestartInv, StartersHaveLock, StartersAlone, TimerAlone,
     FiredAlone, WaiterAlone, AliveWatched, StoppedBefore, NothingToWaitFor, Starters,
     StartLabels
<1>2. TypeOK /\ RestartInv /\ [Next]_vars => RestartInv'
  BY RestartStep
<1> QED
  BY <1>1, <1>2, TypeCorrect, PTL DEF Spec

\* However often the process is killed and restarted, with or without stale watcher
\* and limits: one exit leads to one restart, and never are two programs alive.
THEOREM RestartsAreUnique ==
    ASSUME "Stop" \notin Ops, "StopWait" \notin Ops
    PROVE  Spec => [](AtMostOneAlive /\ RestartTokens)
<1>1. RestartInv => AtMostOneAlive
  BY DEF RestartInv, AliveWatched, AtMostOneAlive
<1>2. TypeOK /\ RestartInv => RestartTokens
  <2> SUFFICES ASSUME TypeOK, RestartInv PROVE RestartTokens
    OBVIOUS
  <2> DEFINE active == {<<"wait", r>> : r \in {q \in Runs : wpc[q] # "none"}}
             armed == IF timer THEN {<<"armed", 0>>} ELSE {}
             expired == IF fired > 0 THEN {<<"expired", 0>>} ELSE {}
  <2>1. \A x, y \in Starters : x = y
    BY DEF RestartInv, StartersHaveLock, Starters
  <2>2. \A x, y \in active : x = y
    BY DEF RestartInv, WaiterAlone
  <2>3. (\A x, y \in armed : x = y) /\ (\A x, y \in expired : x = y)
    OBVIOUS
  <2>4. Starters # {} => active = {} /\ armed = {} /\ expired = {}
    BY DEF RestartInv, StartersAlone, NothingToWaitFor
  <2>5. armed # {} => active = {} /\ expired = {}
    BY DEF RestartInv, TimerAlone, NothingToWaitFor
  <2>6. expired # {} => active = {}
    BY DEF RestartInv, FiredAlone, NothingToWaitFor, TypeOK
  <2>7. fired <= 1
    BY DEF RestartInv, FiredAlone
  <2>8. \A x, y \in Starters \cup active \cup armed \cup expired : x = y
    <3> HIDE DEF active, armed, expired
    <3> QED
      BY <2>1, <2>2, <2>3, <2>4, <2>5, <2>6
  <2> QED
    BY <2>7, <2>8 DEF RestartTokens
<1> QED
  BY <1>1, <1>2, RestartInvariant, TypeCorrect, PTL

\* The armed timer, its callback, the goroutine in start() and the waiter of a run
\* exclude each other: an exit is answered by one restart (reconnect, start, waiter).
THEOREM OneRestartPerExit ==
    ASSUME "Stop" \notin Ops, "StopWait" \notin Ops
    PROVE  Spec => []RestartTokens
BY RestartsAreUnique, PTL

-----------------------------------------------------------------------------
(* Orders and restarts, whoever calls what *)

\* Who is in start() has the lock, and was ordered to start or is a reconnect callback.
StarterInv ==
    /\ StartersHaveLock
    /\ \A t \in Starters : t # Timer => order = "start"

\* A step that moves one actor outside start() and does not touch the order.
LEMMA OutsideStep ==
    ASSUME TypeOK, StarterInv, NEW t \in Actors, NEW l,
           pc[t] \notin StartLabels \cup {"Watcher"}, l \notin StartLabels \cup {"Watcher"},
           pc' = [pc EXCEPT ![t] = l],
           \/ owner' = owner
           \/ owner = t /\ owner' = NoThread
           \/ owner = NoThread /\ owner' = t,
           order' = order
    PROVE  StarterInv' /\ Starters' = Starters
<1>1. Starters' = Starters
  BY DEF TypeOK, Starters
<1>2. \A u \in Actors : pc'[u] \in StartLabels \cup {"Watcher"} => pc'[u] = pc[u] /\ owner' = u
  BY ActorsDistinct DEF StarterInv, StartersHaveLock, TypeOK
<1> QED
  BY <1>1, <1>2 DEF StarterInv, StartersHaveLock

\* A step that takes no actor into start() or out of it, and leaves lock and order alone.
LEMMA AsideStep ==
    ASSUME StarterInv, \A t \in Actors : pc'[t] = pc[t] \/ (pc[t] = "Watch" /\ pc'[t] = "Cancelled"),
           UNCHANGED <<order, owner>>
    PROVE  StarterInv' /\ Starters' = Starters
<1>1. Starters' = Starters
  BY DEF Starters, StartLabels
<1> QED
  BY <1>1 DEF StarterInv, StartersHaveLock, StartLabels

\* A step of start() is one of the only starter's, who keeps the lock until it is done.
LEMMA StartStep ==
    ASSUME TypeOK, StarterInv, NEW t \in Actors, Starting(t)
    PROVE  StarterInv' /\ Starters' \subseteq Starters /\ order' = order
<1> USE ActorsDistinct DEF Goto
<1>1. /\ pc[t] \in StartLabels \cup {"Watcher"} /\ owner = t
      /\ pc[t] \notin StartLabels => Watcher(t)
  BY DEF Starting, Begin, Command, ExecFails, Exec, Run, Watcher, StartLabels, StarterInv,
     StartersHaveLock
<1>2. \A u \in Actors : u # t => pc[u] \notin StartLabels \cup {"Watcher"}
  BY <1>1 DEF StarterInv, StartersHaveLock
<1>3. order' = order /\ \A u \in Actors : u # t => pc'[u] = pc[u] \/ pc'[u] = "Watch"
  BY DEF Starting, Begin, Command, ExecFails, Exec, Run, Watcher, Return, TypeOK
<1>4. owner' = t \/ pc'[t] \in {"idle", "Watch"}
  BY <1>1 DEF Starting, Begin, Command, ExecFails, Exec, Run, Watcher, Return, TypeOK
<1>5. pc[t] = "Watcher" => pc'[t] \in {"idle", "Watch"}
  BY DEF Starting, Begin, Command, ExecFails, Exec, Run, Watcher, TypeOK
<1>6. /\ "idle" \notin StartLabels \cup {"Watcher"} /\ "Watch" \notin StartLabels \cup {"Watcher"}
      /\ "Watcher" \notin StartLabels
  BY DEF StartLabels
<1>7. StartersHaveLock'
  BY <1>2, <1>3, <1>4, <1>6 DEF StartersHaveLock
<1>8. Starters' \subseteq Starters
  BY <1>1, <1>2, <1>3, <1>5, <1>6 DEF Starters
<1> QED
  BY <1>3, <1>7, <1>8 DEF StarterInv

\* The restart machinery under the order "stop": what a step may add to it.
RestartsOnlyFade ==
    order = "stop" /\ order' = "stop" /\ ~timer /\ fired = 0 /\ Starters = {}
       => ~timer' /\ fired' = 0 /\ Starters' = {}

LEMMA StarterStep ==
    ASSUME TypeOK, StarterInv, [Next]_vars
    PROVE  StarterInv' /\ RestartsOnlyFade
<1> USE ActorsDistinct DEF Goto, osVars, killVars, cbVars, waitVars, timerVars, RestartsOnlyFade
<1>0. \A l \in {"idle", "Lock", "Check", "Unreconnect", "Get", "Mark", "Signal", "Arm",
                  "Await", "Fail", "Watch", "Cancelled"} : l \notin StartLabels \cup {"Watcher"}
  BY DEF StartLabels
<1>1. CASE UNCHANGED vars
  BY <1>1, AsideStep DEF vars
<1>2. ASSUME NEW t \in Callers, NEW m \in Ops, Call(t, m) PROVE StarterInv' /\ RestartsOnlyFade
  BY <1>0, <1>2, OutsideStep DEF Call
<1>3. ASSUME LimitExceeded PROVE StarterInv' /\ RestartsOnlyFade
  <2>1. UNCHANGED <<owner, order, fired, timer>>
    BY <1>3 DEF LimitExceeded
  <2> QED
    BY <1>0, <1>3, <2>1, AnyLimiter, OutsideStep
<1>4. ASSUME NEW t \in Actors, Locking(t) PROVE StarterInv' /\ RestartsOnlyFade
  <2>0. /\ owner = NoThread /\ UNCHANGED <<fired, timer>> /\ pc[t] = "Lock"
        /\ \A u \in Actors : pc[u] \notin StartLabels \cup {"Watcher"}
    BY <1>4 DEF Locking, LockStart, LockStop, LockKill, StarterInv, StartersHaveLock
  <2>1. CASE LockStart(t)
    <3>1. CASE order = "start"
      <4>1. pc' = [pc EXCEPT ![t] = "idle"] /\ UNCHANGED <<order, owner>>
        BY <2>0, <2>1, <3>1 DEF LockStart, Return
      <4> QED
        BY <1>0, <2>0, <4>1, OutsideStep
    <3>2. CASE order # "start"
      <4>1. owner' = t /\ pc' = [pc EXCEPT ![t] = "Begin"] /\ order' = "start"
        BY <2>1, <3>2 DEF LockStart
      <4> QED
        BY <2>0, <4>1 DEF StarterInv, StartersHaveLock, TypeOK
    <3> QED
      BY <3>1, <3>2
  <2>2. CASE LockStop(t)
    <3>1. (\E l \in {"idle", "Check"} : pc' = [pc EXCEPT ![t] = l])
      BY <2>2 DEF LockStop, Return
    <3>2. \A u \in Actors : pc'[u] \notin StartLabels \cup {"Watcher"}
      BY <1>0, <2>0, <3>1 DEF TypeOK
    <3> QED
      BY <2>0, <3>2 DEF StarterInv, StartersHaveLock, Starters
  <2>3. CASE LockKill(t)
    <3>1. pc' = [pc EXCEPT ![t] = "Check"] /\ owner' = t /\ UNCHANGED order
      BY <2>3 DEF LockKill
    <3> QED
      BY <1>0, <2>0, <3>1, OutsideStep
  <2> QED
    BY <1>4, <2>1, <2>2, <2>3 DEF Locking
<1>5. ASSUME NEW t \in Actors, Starting(t) PROVE StarterInv' /\ RestartsOnlyFade
  <2>1. StarterInv' /\ Starters' \subseteq Starters
    BY <1>5, StartStep
  <2>2. Starters = {} => Watcher(t)
    BY <1>5 DEF Starting, Begin, Command, ExecFails, Exec, Run, Starters, StartLabels
  <2>3. Watcher(t) => UNCHANGED <<timer, fired>>
    BY DEF Watcher
  <2> QED
    BY <2>1, <2>2, <2>3
<1>6. ASSUME NEW t \in Actors, Stopping(t) PROVE StarterInv' /\ RestartsOnlyFade
  <2>1. /\ pc[t] \notin StartLabels \cup {"Watcher"}
        /\ UNCHANGED <<order, fired>> /\ (timer' => timer)
        /\ owner' = owner \/ (owner = t /\ owner' = NoThread)
        /\ \E l \in {"idle", "Unreconnect", "Get", "Mark", "Signal", "Arm", "Await", "Fail"} :
              pc' = [pc EXCEPT ![t] = l]
    BY <1>0, <1>6 DEF Stopping, Check, Unreconnect, Get, Mark, Signal, Arm, Await, Fail,
       Return, StopTimer
  <2> QED
    BY <1>0, <2>1, OutsideStep
<1>7. ASSUME Timers PROVE StarterInv' /\ RestartsOnlyFade
  <2>1. CASE TimerFire \/ KillExpire \/ KillProcess
    <3>1. UNCHANGED <<pc, order, owner>>
      BY <2>1 DEF TimerFire, KillExpire, KillProcess
    <3>2. ~timer => UNCHANGED <<timer, fired>>
      BY <2>1 DEF TimerFire, KillExpire, KillProcess
    <3> QED
      BY <3>1, <3>2, AsideStep
  <2>2. CASE LockTimer
    <3>1. /\ fired # 0 /\ owner = NoThread /\ owner' = Timer /\ pc' = [pc EXCEPT ![Timer] = "Begin"]
          /\ order' = order
      BY <2>2 DEF LockTimer, TypeOK
    <3>2. \A u \in Actors : pc[u] \notin StartLabels \cup {"Watcher"}
      BY <3>1 DEF StarterInv, StartersHaveLock
    <3>3. \A u \in Actors : pc'[u] \in StartLabels \cup {"Watcher"} => u = Timer
      BY <3>1, <3>2 DEF TypeOK
    <3> QED
      BY <3>1, <3>3 DEF StarterInv, StartersHaveLock, Starters
  <2> QED
    BY <1>7, <2>1, <2>2 DEF Timers
<1>8. ASSUME NEW r \in Runs, Staling(r) PROVE StarterInv' /\ RestartsOnlyFade
  BY <1>0, <1>8, OutsideStep DEF Staling, StaleCancelled, StaleTimeout
<1>9. ASSUME NEW r \in Runs, Exiting(r) PROVE StarterInv' /\ RestartsOnlyFade
  <2>1. UNCHANGED <<order, fired, owner>> /\ (order = "stop" => timer' = timer)
    BY <1>9 DEF Exiting, Exit, Read, Wait, SetExit, StopLimits, Cleanup, LockReconnect, ExitCallback
  <2>2. UNCHANGED pc \/ Cleanup(r)
    BY <1>9 DEF Exiting, Exit, Read, Wait, SetExit, StopLimits, LockReconnect, ExitCallback
  <2>3. \A t \in Actors : pc'[t] = pc[t] \/ (pc[t] = "Watch" /\ pc'[t] = "Cancelled")
    BY <2>2 DEF Cleanup
  <2> QED
    BY <2>1, <2>3, AsideStep
<1> QED
  BY <1>1, <1>2, <1>3, <1>4, <1>5, <1>6, <1>7, <1>8, <1>9 DEF Next, Halted

LEMMA StarterInvariant == Spec => []StarterInv
<1>1. Init => StarterInv
  BY DEF Init, StarterInv, StartersHaveLock, Starters, StartLabels
<1>2. TypeOK /\ StarterInv /\ [Next]_vars => StarterInv'
  BY StarterStep
<1> QED
  BY <1>1, <1>2, TypeCorrect, PTL DEF Spec

\* The program is started by Exec alone.
LEMMA WhoStarts ==
    ASSUME TypeOK, Next, NEW r \in Runs, proc[r] # "alive", proc'[r] = "alive"
    PROVE  \E t \in Actors : Exec(t)
<1> SUFFICES ASSUME \A t \in Actors : ~Exec(t) PROVE FALSE
  OBVIOUS
<1> USE DEF osVars, TypeOK
<1>1. CASE \E t \in Actors : Starting(t)
  BY <1>1 DEF Starting, Begin, Command, ExecFails, Run, Watcher
<1>2. CASE \E q \in Runs : Exiting(q)
  BY <1>2 DEF Exiting, Exit, Read, Wait, SetExit, StopLimits, Cleanup, LockReconnect, ExitCallback
<1>3. CASE \E t \in Actors : Locking(t) \/ Stopping(t)
  BY <1>3 DEF Locking, LockStart, LockStop, LockKill, Stopping, Check, Unreconnect, Get, Mark,
     Signal, Arm, Await, Fail
<1>4. CASE Timers
  BY <1>4 DEF Timers, TimerFire, LockTimer, KillExpire, KillProcess
<1>5. CASE \E q \in Runs : Staling(q)
  BY <1>5 DEF Staling, StaleCancelled, StaleTimeout
<1>6. CASE LimitExceeded \/ \E t \in Callers : \E m \in Ops : Call(t, m)
  BY <1>6 DEF LimitExceeded, Call
<1>7. CASE Halted
  BY <1>7 DEF Halted, vars
<1> QED
  BY <1>1, <1>2, <1>3, <1>4, <1>5, <1>6, <1>7 DEF Next

\* Under the order "stop" only a reconnect callback starts the program, and only one that
\* was scheduled before: for every configuration, whoever calls Start, Stop and Kill,
\* with stale watcher and limits or without (process.go Start, Stop, reconnect, waiter).
THEOREM StopMeetsOnlyLateRestarts == Spec => OnlyLateRestarts
<1>1. TypeOK /\ StarterInv /\ [Next]_vars =>
         [order = "stop" /\ order' = "stop" =>
            /\ (\E r \in Runs : proc[r] # "alive" /\ proc'[r] = "alive") => pc[Timer] = "Exec"
            /\ ~timer /\ fired = 0 /\ Starters = {} => ~timer' /\ fired' = 0 /\ Starters' = {}]_vars
  <2> SUFFICES ASSUME TypeOK, StarterInv, Next, order = "stop", order' = "stop"
               PROVE  /\ (\E r \in Runs : proc[r] # "alive" /\ proc'[r] = "alive") => pc[Timer] = "Exec"
                      /\ RestartsOnlyFade
    BY DEF RestartsOnlyFade
  <2>1. ASSUME NEW r \in Runs, proc[r] # "alive", proc'[r] = "alive" PROVE pc[Timer] = "Exec"
    <3>1. PICK t \in Actors : Exec(t)
      BY <2>1, WhoStarts
    <3>2. pc[t] = "Exec" /\ t \in Starters
      BY <3>1 DEF Exec, Starters, StartLabels
    <3> QED
      BY <3>2 DEF StarterInv
  <2>2. RestartsOnlyFade
    BY StarterStep
  <2> QED
    BY <2>1, <2>2
<1> QED
  BY <1>1, TypeCorrect, StarterInvariant, PTL DEF Spec, OnlyLateRestarts

-----------------------------------------------------------------------------
(* A process that is started once *)

InStop == {"Check", "Unreconnect", "Get", "Mark", "Signal", "Arm", "Await", "Fail"}
Signalling == {"Get", "Mark", "Signal", "Arm", "Await", "Fail"}
Unfinished == {"Read", "Wait", "SetExit", "SetKilled", "Limits", "Cleanup"}
Alive == cmd \in Runs /\ proc[cmd] = "alive"
KillComes == killTimer \/ strayKills > 0

\* Before the run: nobody stops, watches, kills or waits.
Quiet ==
    /\ ~KillComes /\ onExit = <<>>
    /\ \A t \in Actors : pc[t] \notin InStop \cup {"Watcher", "Watch", "Cancelled"}
    /\ \A r \in Runs : cb[r] = NoCallback

\* Before Start: nobody has a reason to call Kill.
Before == state = "finished" /\ \A t \in Actors : pc[t] = "Lock" => op[t] = "Start"

\* In start(): the state says so, and the program runs when its reader is started.
During ==
    \A t \in Starters : /\ state = IF pc[t] = "Begin" THEN "finished" ELSE "starting"
                        /\ pc[t] \in {"Exec", "Run"} => cmd \in Runs
                        /\ pc[t] = "Run" => HasProcess

\* After start(): who signals or kills has a process, and as long as it is alive it is
\* killed and signalled in the state finishing only.
After ==
    /\ state # "starting"
    /\ state \in {"running", "finishing"} => HasProcess
    /\ KillComes => HasProcess
    /\ \A t \in Actors : pc[t] \in Signalling => HasProcess
    /\ Alive => state \in {"running", "finishing"}
    /\ Alive /\ KillComes => state = "finishing"
    /\ \A t \in Actors : pc[t] \in {"Signal", "Arm"} /\ Alive => state = "finishing"
    /\ \A t \in Actors : pc[t] = "Fail" => ~Alive

\* A WaitGroup is wrapped around onExit once and its counter stays 1 until its turn.
Wrapped(c, step) ==
    /\ \A i, j \in DOMAIN c : c[i] = c[j] => i = j
    /\ \A i \in DOMAIN c : step < 2 * i - 1 => c[i] \in open

Callback ==
    /\ \A r \in Runs : wpc[r] \in Unfinished => /\ Wrapped(onExit, 0)
                                                /\ \A q \in Runs : cb[q] = NoCallback
    /\ \A r \in Runs : Wrapped(cb[r].chain, cb[r].step)
    /\ \A q, r \in Runs : cb[q] # NoCallback /\ cb[r] # NoCallback => q = r

OnceInv ==
    /\ ~crashed
    /\ order = "stop" \/ Starters # {} => Quiet
    /\ order = "stop" => Before
    /\ During
    /\ order = "start" /\ Starters = {} => After /\ Callback

\* Config.Reconnect is not set and nobody calls Stop.
Once == ~Reconnect /\ "Stop" \notin Ops /\ "StopWait" \notin Ops

\* No restart is ever scheduled.
NoRestart == ~timer /\ fired = 0

LEMMA NoRestartStep ==
    ASSUME TypeOK, NoRestart, [Next]_vars, ~Reconnect
    PROVE  NoRestart'
<1> USE DEF NoRestart, timerVars
<1>0. (ArmTimer => ~timer') /\ (StopTimer => ~timer')
  BY DEF ArmTimer, StopTimer
<1>1. CASE \E t \in Actors : Locking(t) \/ Starting(t) \/ Stopping(t)
  <2>1. CASE \E t \in Actors : Locking(t)
    BY <2>1 DEF Locking, LockStart, LockStop, LockKill
  <2>2. CASE \E t \in Actors : Starting(t)
    BY <1>0, <2>2 DEF Starting, Begin, Command, ExecFails, Exec, Run, Watcher
  <2>3. CASE \E t \in Actors : Stopping(t)
    BY <1>0, <2>3 DEF Stopping, Check, Unreconnect, Get, Mark, Signal, Arm, Await, Fail
  <2> QED
    BY <1>1, <2>1, <2>2, <2>3
<1>2. CASE Timers
  BY <1>2 DEF Timers, TimerFire, LockTimer, KillExpire, KillProcess
<1>3. CASE \E r \in Runs : Staling(r) \/ Exiting(r)
  BY <1>0, <1>3 DEF Staling, StaleCancelled, StaleTimeout, Exiting, Exit, Read, Wait, SetExit,
     StopLimits, Cleanup, LockReconnect, ExitCallback
<1>4. CASE LimitExceeded \/ \E t \in Callers : \E m \in Ops : Call(t, m)
  BY <1>4 DEF LimitExceeded, Call
<1> QED
  BY <1>1, <1>2, <1>3, <1>4 DEF Next, Halted, vars

LEMMA OnceBefore ==
    ASSUME TypeOK, RestartInv, NoRestart, OnceInv, Once, Next, order = "stop"
    PROVE  OnceInv'
<1> USE ActorsDistinct DEF Goto, osVars, killVars, cbVars, waitVars, timerVars
<1>1. /\ ~crashed /\ Quiet /\ Before /\ Starters = {} /\ NothingToWaitFor
      /\ \A r \in Runs : proc[r] # "alive"
  <2>1. ~crashed /\ Quiet /\ Before
    BY DEF OnceInv
  <2>2. Starters = {} /\ NothingToWaitFor
    BY DEF RestartInv, StoppedBefore
  <2>3. \A r \in Runs : proc[r] # "alive"
    BY <2>2 DEF RestartInv, AliveWatched, NothingToWaitFor, Starters, StartLabels
  <2> QED
    BY <2>1, <2>2, <2>3
<1>2. CASE \E t \in Callers : \E m \in Ops : Call(t, m)
  <2> PICK t \in Callers, m \in Ops : Call(t, m)
    BY <1>2
  <2>1. m = "Start"
    BY <1>1, ConfigAssumption DEF Once, AllOps, Call, Before, IsRunning
  <2>2. pc' = [pc EXCEPT ![t] = "Lock"] /\ op' = [op EXCEPT ![t] = "Start"]
        /\ UNCHANGED <<state, order, cmd, proc, killTimer, strayKills, onExit, open, cb, wpc, crashed>>
    BY <2>1 DEF Call
  <2>3. Starters' = {}
    BY <1>1, <2>2 DEF TypeOK, Starters, StartLabels
  <2>4. Quiet' /\ Before'
    BY <1>1, <2>2 DEF TypeOK, Quiet, Before, KillComes, InStop
  <2> QED
    BY <1>1, <2>2, <2>3, <2>4 DEF OnceInv, During
<1>3. CASE \E t \in Actors : Locking(t)
  <2> PICK t \in Actors : Locking(t)
    BY <1>3
  <2>1. LockStart(t)
    BY <1>1 DEF Locking, LockStop, LockKill, Before
  <2>2. /\ pc' = [pc EXCEPT ![t] = "Begin"] /\ order' = "start"
        /\ UNCHANGED <<state, cmd, proc, killTimer, strayKills, onExit, open, cb, wpc, crashed>>
    BY <2>1 DEF LockStart
  <2>3. Starters' = {t}
    BY <1>1, <2>2 DEF TypeOK, Starters, StartLabels
  <2>4. Quiet'
    BY <1>1, <2>2 DEF TypeOK, Quiet, KillComes, InStop
  <2>5. During'
    BY <1>1, <2>2, <2>3 DEF During, TypeOK, Before
  <2> QED
    BY <1>1, <2>2, <2>3, <2>4, <2>5 DEF OnceInv
<1>4. CASE LimitExceeded
  BY <1>1, <1>4 DEF LimitExceeded, IsRunning, Before
<1>5. CASE \E t \in Actors : Starting(t)
  BY <1>1, <1>5 DEF Starting, Begin, Command, ExecFails, Exec, Run, Watcher, Quiet, Starters,
     StartLabels
<1>6. CASE \E t \in Actors : Stopping(t)
  BY <1>1, <1>6 DEF Stopping, Check, Unreconnect, Get, Mark, Signal, Arm, Await, Fail, Quiet, InStop
<1>7. CASE Timers
  BY <1>1, <1>7 DEF Timers, TimerFire, LockTimer, KillExpire, KillProcess, Quiet, KillComes, NoRestart
<1>8. CASE \E r \in Runs : Staling(r)
  BY <1>1, <1>8 DEF Staling, StaleCancelled, StaleTimeout, Quiet
<1>9. CASE \E r \in Runs : Exiting(r)
  <2>1. \A r \in Runs : ~ExitCallback(r)
    BY <1>1 DEF ExitCallback, Quiet, NoCallback
  <2> QED
    BY <1>1, <1>9, <2>1 DEF Exiting, Exit, Read, Wait, SetExit, StopLimits, Cleanup, LockReconnect,
       NothingToWaitFor
<1> QED
  BY <1>1, <1>2, <1>3, <1>4, <1>5, <1>6, <1>7, <1>8, <1>9 DEF Next, Halted

LEMMA OnceDuring ==
    ASSUME TypeOK, RestartInv, NoRestart, OnceInv, Once, Next, Starters # {}
    PROVE  OnceInv'
<1> USE ActorsDistinct DEF Goto, osVars, killVars, cbVars, waitVars, timerVars
<1> PICK u \in Starters : TRUE
  OBVIOUS
<1>1. /\ ~crashed /\ Quiet /\ During /\ Starters = {u} /\ u \in Actors /\ owner = u /\ order = "start"
      /\ NothingToWaitFor
      /\ pc[u] # "Run" => \A r \in Runs : proc[r] # "alive"
  <2>1. u \in Actors
    BY DEF Starters
  <2> QED
    BY <2>1, LastStarter DEF OnceInv
<1>a. pc[u] \in StartLabels /\ \A t \in Actors : t # u => pc[t] \notin StartLabels
  BY <1>1 DEF Starters
<1>2. CASE LimitExceeded \/ (\E t \in Callers : \E m \in Ops : Call(t, m))
  <2>1. PICK t \in Actors : pc[t] = "idle" /\ pc' = [pc EXCEPT ![t] = "Lock"]
    BY <1>2, AnyLimiter DEF Call
  <2>2. UNCHANGED <<state, order, cmd, proc, killTimer, strayKills, onExit, open, cb, wpc, crashed>>
    BY <1>2 DEF LimitExceeded, Call
  <2>3. Starters' = {u} /\ t # u
    BY <1>1, <1>a, <2>1 DEF TypeOK, Starters, StartLabels
  <2>4. Quiet'
    BY <1>1, <2>1, <2>2 DEF TypeOK, Quiet, KillComes, InStop
  <2>5. During'
    BY <1>1, <2>1, <2>2, <2>3 DEF During, TypeOK, HasProcess
  <2> QED
    BY <1>1, <2>2, <2>3, <2>4, <2>5 DEF OnceInv
<1>3. CASE \E t \in Actors : Locking(t)
  BY <1>1, <1>3 DEF Locking, LockStart, LockStop, LockKill
<1>4. CASE \E t \in Actors : Starting(t)
  <2>0. Starting(u) /\ ~Watcher(u)
    BY <1>1, <1>4, <1>a DEF Starting, Begin, Command, ExecFails, Exec, Run, Watcher, Quiet, StartLabels
  <2>1. CASE Begin(u)
    <3>1. /\ pc' = [pc EXCEPT ![u] = "Command"] /\ state' = "starting"
          /\ UNCHANGED <<order, cmd, proc, killTimer, strayKills, onExit, open, cb, wpc, crashed>>
      BY <1>1, <2>1 DEF Begin, During, IsRunning, SetState, Transitions
    <3>2. Starters' = {u}
      BY <1>1, <1>a, <3>1 DEF TypeOK, Starters, StartLabels
    <3>3. Quiet' /\ During'
      BY <1>1, <3>1, <3>2 DEF TypeOK, Quiet, During, KillComes, InStop
    <3> QED
      BY <1>1, <3>1, <3>2, <3>3 DEF OnceInv
  <2>2. CASE Command(u)
    <3>1. /\ pc' = [pc EXCEPT ![u] = "Exec"] /\ pc[u] = "Command"
          /\ cmd' \in Runs
          /\ UNCHANGED <<state, order, killTimer, strayKills, onExit, open, cb, wpc, crashed>>
      BY <1>1, <2>2, AnyFree DEF Command
    <3>2. Starters' = {u}
      BY <1>1, <1>a, <3>1 DEF TypeOK, Starters, StartLabels
    <3>3. Quiet' /\ During'
      BY <1>1, <3>1, <3>2 DEF TypeOK, Quiet, During, KillComes, InStop
    <3> QED
      BY <1>1, <3>1, <3>2, <3>3 DEF OnceInv
  <2>3. CASE Exec(u)
    <3>1. /\ pc' = [pc EXCEPT ![u] = "Run"] /\ pc[u] = "Exec" /\ proc' = [proc EXCEPT ![cmd] = "alive"]
          /\ UNCHANGED <<state, order, cmd, killTimer, strayKills, onExit, open, cb, wpc, crashed>>
      BY <1>1, <2>3 DEF Exec
    <3>2. Starters' = {u}
      BY <1>1, <1>a, <3>1 DEF TypeOK, Starters, StartLabels
    <3>3. cmd \in Runs
      BY <1>1, <3>1 DEF During
    <3>4. Quiet' /\ During'
      BY <1>1, <3>1, <3>2, <3>3 DEF TypeOK, Quiet, During, KillComes, InStop, HasProcess
    <3> QED
      BY <1>1, <3>1, <3>2, <3>4 DEF OnceInv
  <2>4. CASE ExecFails(u)
    <3>1. /\ pc' = [pc EXCEPT ![u] = "idle"] /\ state' = "failed" /\ pc[u] = "Exec"
          /\ UNCHANGED <<order, cmd, proc, killTimer, strayKills, onExit, open, cb, wpc, crashed>>
      BY <1>1, <2>4 DEF ExecFails, During, SetState, Transitions, Return
    <3>2. Starters' = {}
      BY <1>1, <1>a, <3>1 DEF TypeOK, Starters, StartLabels
    <3>3. After'
      BY <1>1, <3>1 DEF TypeOK, Quiet, After, KillComes, InStop, Signalling, Alive
    <3>4. Callback'
      BY <1>1, <3>1 DEF Quiet, Callback, Wrapped, NothingToWaitFor, Unfinished, NoCallback
    <3> QED
      BY <1>1, <3>1, <3>2, <3>3, <3>4 DEF OnceInv, During
  <2>5. CASE Run(u)
    <3>1. /\ pc'[u] \in {"idle", "Watcher"} /\ state' = "running" /\ pc[u] = "Run"
          /\ \A t \in Actors : t # u => pc'[t] = pc[t]
          /\ wpc' = [wpc EXCEPT ![cmd] = "Read"]
          /\ UNCHANGED <<order, cmd, proc, killTimer, strayKills, onExit, open, cb, crashed>>
      BY <1>1, <2>5 DEF Run, Return, During, SetState, Transitions, TypeOK
    <3>2. Starters' = {}
      BY <1>1, <1>a, <3>1 DEF TypeOK, Starters, StartLabels
    <3>3. HasProcess /\ HasProcess'
      BY <1>1, <3>1 DEF During, HasProcess
    <3>4. After'
      BY <1>1, <3>1, <3>3 DEF Quiet, After, KillComes, InStop, Signalling, Alive
    <3>5. Callback'
      BY <1>1, <3>1 DEF Quiet, Callback, Wrapped, Unfinished, NoCallback
    <3> QED
      BY <1>1, <3>1, <3>2, <3>4, <3>5 DEF OnceInv, During
  <2> QED
    BY <2>0, <2>1, <2>2, <2>3, <2>4, <2>5 DEF Starting
<1>5. CASE \E t \in Actors : Stopping(t)
  BY <1>1, <1>5 DEF Stopping, Check, Unreconnect, Get, Mark, Signal, Arm, Await, Fail, Quiet, InStop
<1>6. CASE Timers
  BY <1>1, <1>6 DEF Timers, TimerFire, LockTimer, KillExpire, KillProcess, Quiet, KillComes, NoRestart
<1>7. CASE \E r \in Runs : Staling(r)
  BY <1>1, <1>7 DEF Staling, StaleCancelled, StaleTimeout, Quiet
<1>8. CASE \E r \in Runs : Exiting(r)
  <2>1. \A r \in Runs : ~ExitCallback(r)
    BY <1>1 DEF ExitCallback, Quiet, NoCallback
  <2>2. PICK r \in Runs : Exit(r)
    BY <1>1, <1>8, <2>1 DEF Exiting, Read, Wait, SetExit, StopLimits, Cleanup, LockReconnect,
       NothingToWaitFor
  <2>3. /\ proc' = [proc EXCEPT ![r] = "exited"]
        /\ UNCHANGED <<pc, state, order, cmd, killTimer, strayKills, onExit, open, cb, wpc, crashed>>
    BY <2>2 DEF Exit
  <2>4. Quiet' /\ Starters' = Starters
    BY <1>1, <2>3 DEF Quiet, KillComes, Starters
  <2>5. During'
    BY <1>1, <2>3, <2>4 DEF During, HasProcess, TypeOK
  <2> QED
    BY <1>1, <2>3, <2>4, <2>5 DEF OnceInv
<1> QED
  BY <1>1, <1>2, <1>3, <1>4, <1>5, <1>6, <1>7, <1>8 DEF Next, Halted

\* The actors keep clear of start(), and nothing else changes that After speaks about.
LEMMA CalmStep ==
    ASSUME TypeOK, OnceInv, order = "start", Starters = {}, NEW t \in Actors,
           NEW l \in {"idle", "Lock", "Check", "Unreconnect", "Watch", "Cancelled"},
           pc' = [pc EXCEPT ![t] = l],
           UNCHANGED <<state, order, cmd, proc, killTimer, strayKills, onExit, open, cb, wpc, crashed>>
    PROVE  OnceInv'
<1>1. Starters' = {}
  BY DEF TypeOK, Starters, StartLabels
<1>2. After'
  BY DEF OnceInv, TypeOK, After, KillComes, Signalling, Alive, HasProcess
<1>3. Callback'
  BY DEF OnceInv, Callback, Wrapped
<1> QED
  BY <1>1, <1>2, <1>3 DEF OnceInv, During

LEMMA OnceAfter ==
    ASSUME TypeOK, RestartInv, NoRestart, OnceInv, Once, Next, order = "start", Starters = {}
    PROVE  OnceInv'
<1> USE ActorsDistinct DEF Goto, osVars, killVars, cbVars, waitVars, timerVars
<1>1. ~crashed /\ After /\ Callback /\ ~timer /\ fired = 0
  BY DEF OnceInv, NoRestart
<1>a. /\ \A t \in Actors : pc[t] \notin StartLabels
      /\ \A t \in Actors : op[t] \notin {"Stop", "StopWait"}
  BY ConfigAssumption DEF Starters, TypeOK, Once, AllOps
<1>2. ASSUME NEW t \in Callers, NEW m \in Ops, Call(t, m) PROVE OnceInv'
  BY <1>2, CalmStep DEF Call
<1>3. CASE LimitExceeded
  <2>1. UNCHANGED <<state, order, cmd, proc, killTimer, strayKills, onExit, open, cb, wpc, crashed>>
    BY <1>3 DEF LimitExceeded
  <2> QED
    BY <1>3, <2>1, AnyLimiter, CalmStep
<1>4. ASSUME NEW t \in Actors, Locking(t) PROVE OnceInv'
  <2>1. CASE LockStart(t)
    <3>1. /\ pc' = [pc EXCEPT ![t] = "idle"]
          /\ UNCHANGED <<state, order, cmd, proc, killTimer, strayKills, onExit, open, cb, wpc, crashed>>
      BY <2>1 DEF LockStart, Return
    <3> QED
      BY <3>1, CalmStep
  <2>2. CASE LockKill(t)
    BY <2>2, CalmStep DEF LockKill
  <2> QED
    BY <1>4, <1>a, <2>1, <2>2 DEF Locking, LockStop
<1>5. ASSUME NEW t \in Actors, Starting(t) PROVE OnceInv'
  <2>1. Watcher(t)
    BY <1>5, <1>a DEF Starting, Begin, Command, ExecFails, Exec, Run, StartLabels
  <2>2. /\ UNCHANGED <<state, order, cmd, proc, killTimer, strayKills, onExit, open, cb, wpc, crashed>>
        /\ \A u \in Actors : pc'[u] = pc[u] \/ pc'[u] \in {"idle", "Watch"}
    BY <2>1 DEF Watcher, TypeOK
  <2>3. Starters' = {}
    BY <1>a, <2>2 DEF Starters, StartLabels
  <2>4. After'
    BY <1>1, <2>2 DEF After, KillComes, Signalling, Alive, HasProcess
  <2>5. Callback'
    BY <1>1, <2>2 DEF Callback, Wrapped
  <2> QED
    BY <1>1, <2>2, <2>3, <2>4, <2>5 DEF OnceInv, During
<1>6. ASSUME NEW t \in Actors, Stopping(t) PROVE OnceInv'
  <2>0. /\ order' = "start" /\ Starters' = {}
        /\ UNCHANGED <<cmd, proc, cb, wpc>>
        /\ HasProcess' <=> HasProcess
        /\ Alive' <=> Alive
        /\ \A u \in Actors : u # t => pc'[u] = pc[u]
    <3>1. UNCHANGED <<order, cmd, proc, cb, wpc>>
      BY <1>6 DEF Stopping, Check, Unreconnect, Get, Mark, Signal, Arm, Await, Fail
    <3>2. \E l \in {"idle", "Unreconnect", "Get", "Mark", "Signal", "Arm", "Await", "Fail"} :
              pc' = [pc EXCEPT ![t] = l]
      BY <1>6 DEF Stopping, Check, Unreconnect, Get, Mark, Signal, Arm, Await, Fail, Return
    <3>3. Starters' = {}
      BY <1>a, <3>2 DEF TypeOK, Starters, StartLabels
    <3>4. \A u \in Actors : u # t => pc'[u] = pc[u]
      BY <3>2 DEF TypeOK
    <3> QED
      BY <3>1, <3>3, <3>4 DEF HasProcess, Alive
  <2>a. UNCHANGED <<onExit, open>> => Callback'
    BY <1>1, <2>0 DEF Callback, Wrapped
  <2>b. SUFFICES ~crashed' /\ After' /\ Callback'
    BY <2>0 DEF OnceInv, During
  <2>1. CASE Check(t)
    <3>1. /\ pc'[t] \in {"Get", "Unreconnect"} /\ (pc'[t] = "Get" => IsRunning)
          /\ UNCHANGED <<state, killTimer, strayKills, onExit, open, crashed>>
      BY <2>1 DEF Check, TypeOK
    <3>2. After'
      BY <1>1, <2>0, <3>1 DEF After, IsRunning, KillComes, Signalling
    <3> QED
      BY <1>1, <2>a, <3>1, <3>2
  <2>2. CASE Unreconnect(t) \/ Await(t)
    <3>1. /\ pc'[t] = "idle"
          /\ UNCHANGED <<state, killTimer, strayKills, onExit, open, crashed>>
      BY <2>2 DEF Unreconnect, Await, Return, TypeOK
    <3>2. After'
      BY <1>1, <2>0, <3>1 DEF After, KillComes, Signalling
    <3> QED
      BY <1>1, <2>a, <3>1, <3>2
  <2>3. CASE Get(t)
    <3>1. /\ pc[t] = "Get" /\ pc'[t] \in {"idle", "Mark"}
          /\ UNCHANGED <<state, killTimer, strayKills, onExit, open, crashed>>
      BY <2>3 DEF Get, Return, TypeOK
    <3>2. After'
      BY <1>1, <2>0, <3>1 DEF After, KillComes, Signalling
    <3> QED
      BY <1>1, <2>a, <3>1, <3>2
  <2>4. CASE Mark(t)
    <3>1. /\ pc[t] = "Mark" /\ pc'[t] = "Signal"
          /\ state' = IF <<state, "finishing">> \in Transitions THEN "finishing" ELSE state
          /\ UNCHANGED <<killTimer, strayKills, crashed>>
      BY <2>4 DEF Mark, SetState, TypeOK
    <3>2. state' = IF state = "running" THEN "finishing" ELSE state
      BY <1>1, <3>1 DEF Transitions, After
    <3>3. After'
      BY <1>1, <2>0, <3>1, <3>2 DEF After, KillComes, Signalling
    <3>4. Callback'
      <4>1. CASE ~Waiting(t)
        BY <2>4, <2>a, <4>1 DEF Mark
      <4>2. CASE Waiting(t)
        <5> DEFINE w == Some(FreeWaits)
        <5>1. w \in FreeWaits
          BY <2>4, <4>2 DEF Mark, Some
        <5>2. w \in Waits /\ \A i \in DOMAIN onExit : onExit[i] # w
          BY <5>1 DEF FreeWaits
        <5>3. open' = open \cup {w} /\ onExit' = Append(onExit, w)
          BY <2>4, <4>2 DEF Mark, TypeOK
        <5> HIDE DEF w
        <5>4. /\ DOMAIN onExit' = 1 .. Len(onExit) + 1 /\ DOMAIN onExit = 1 .. Len(onExit)
              /\ \A i \in DOMAIN onExit : onExit'[i] = onExit[i]
              /\ onExit'[Len(onExit) + 1] = w /\ Len(onExit) \in Nat
          BY <5>2, <5>3 DEF TypeOK
        <5>5. ASSUME Wrapped(onExit, 0) PROVE Wrapped(onExit, 0)'
          <6>1. \A i \in DOMAIN onExit' : i \in DOMAIN onExit \/ i = Len(onExit) + 1
            BY <5>4
          <6>2. \A i \in DOMAIN onExit : onExit[i] \in open
            <7>1. \A i \in DOMAIN onExit : 0 < 2 * i - 1
              BY <5>4
            <7> QED
              BY <5>5, <7>1 DEF Wrapped
          <6>3. \A i, j \in DOMAIN onExit : onExit[i] = onExit[j] => i = j
            BY <5>5 DEF Wrapped
          <6>4. \A i, j \in DOMAIN onExit' : onExit'[i] = onExit'[j] => i = j
            BY <5>2, <5>4, <6>1, <6>3
          <6>5. \A i \in DOMAIN onExit' : onExit'[i] \in open'
            BY <5>3, <5>4, <6>1, <6>2
          <6> QED
            BY <6>4, <6>5 DEF Wrapped
        <5> QED
          BY <1>1, <2>0, <5>3, <5>5 DEF Callback, Wrapped
      <4> QED
        BY <4>1, <4>2
    <3> QED
      BY <1>1, <3>1, <3>3, <3>4
  <2>5. CASE Signal(t)
    <3>1. /\ pc[t] = "Signal" /\ pc'[t] \in {"Arm", "Fail"} /\ crashed' = ~HasProcess
          /\ (pc'[t] = "Fail" => HasProcess /\ proc[cmd] = "reaped")
          /\ UNCHANGED <<state, killTimer, strayKills, onExit, open>>
      BY <2>5 DEF Signal, TypeOK
    <3>2. HasProcess
      BY <1>1, <3>1 DEF After, Signalling
    <3>3. After'
      BY <1>1, <2>0, <3>1, <3>2 DEF After, KillComes, Signalling, Alive
    <3> QED
      BY <2>a, <3>1, <3>2, <3>3
  <2>6. CASE Arm(t)
    <3>1. /\ pc[t] = "Arm" /\ pc'[t] \in {"Await", "idle"}
          /\ UNCHANGED <<state, onExit, open, crashed>>
      BY <2>6 DEF Arm, Return, TypeOK
    <3>2. HasProcess /\ (Alive => state = "finishing")
      BY <1>1, <3>1 DEF After, Signalling
    <3>3. After'
      BY <1>1, <2>0, <3>1, <3>2 DEF After, KillComes, Signalling
    <3> QED
      BY <1>1, <2>a, <3>1, <3>3
  <2>7. CASE Fail(t)
    <3>1. /\ pc[t] = "Fail" /\ pc'[t] = "idle" /\ state' \in {state, "failed"}
          /\ UNCHANGED <<killTimer, strayKills, onExit, open, crashed>>
      BY <2>7 DEF Fail, Return, SetState, TypeOK
    <3>2. ~Alive
      BY <1>1, <3>1 DEF After
    <3>3. After'
      BY <1>1, <2>0, <3>1, <3>2 DEF After, KillComes, Signalling
    <3> QED
      BY <1>1, <2>a, <3>1, <3>3
  <2> QED
    BY <1>6, <2>1, <2>2, <2>3, <2>4, <2>5, <2>6, <2>7 DEF Stopping
<1>7. CASE Timers
  <2>1. KillExpire \/ KillProcess
    BY <1>1, <1>7 DEF Timers, TimerFire, LockTimer
  <2>2. /\ UNCHANGED <<state, order, cmd, proc, onExit, open, cb, wpc, pc>>
        /\ KillComes
        /\ (crashed' = crashed \/ crashed' = ~HasProcess)
    BY <2>1 DEF KillExpire, KillProcess, KillComes
  <2>3. HasProcess /\ (Alive => state = "finishing")
    BY <1>1, <2>2 DEF After
  <2>4. ~crashed'
    BY <1>1, <2>2, <2>3
  <2>5. HasProcess' /\ (Alive' <=> Alive) /\ Starters' = {}
    BY <2>2, <2>3 DEF HasProcess, Alive, Starters
  <2>6. After'
    BY <1>1, <2>2, <2>3, <2>5 DEF After
  <2>7. Callback'
    BY <1>1, <2>2 DEF Callback, Wrapped
  <2> QED
    BY <2>2, <2>4, <2>5, <2>6, <2>7 DEF OnceInv, During
<1>8. ASSUME NEW r \in Runs, Staling(r) PROVE OnceInv'
  BY <1>8, CalmStep DEF Staling, StaleCancelled, StaleTimeout
<1>9. ASSUME NEW r \in Runs, Exiting(r) PROVE OnceInv'
  <2>0. order' = "start" /\ cmd' = cmd /\ Starters' = {}
    <3>1. UNCHANGED <<order, cmd>>
      BY <1>9 DEF Exiting, Exit, Read, Wait, SetExit, StopLimits, Cleanup, LockReconnect, ExitCallback
    <3>2. UNCHANGED pc \/ Cleanup(r)
      BY <1>9 DEF Exiting, Exit, Read, Wait, SetExit, StopLimits, LockReconnect, ExitCallback
    <3>3. \A t \in Actors : pc'[t] = pc[t] \/ pc'[t] = "Cancelled"
      BY <3>2 DEF Cleanup
    <3> QED
      BY <1>a, <3>1, <3>3 DEF Starters, StartLabels
  <2>a. UNCHANGED <<onExit, open, cb>> /\ (\A q \in Runs : wpc'[q] \in Unfinished => wpc[q] \in Unfinished)
           => Callback'
    BY <1>1 DEF Callback, Wrapped
  <2>b. SUFFICES ~crashed' /\ After' /\ Callback'
    BY <2>0 DEF OnceInv, During
  <2>1. CASE Exit(r) \/ Wait(r)
    <3>1. /\ UNCHANGED <<state, killTimer, strayKills, onExit, open, cb, pc, crashed>>
          /\ \E q \in Runs \cup {0}, s \in {"exited", "reaped"} :
                proc' = [proc EXCEPT ![q] = s] /\ (q \in Runs => proc[q] # "none")
      BY <2>1 DEF Exit, Wait, TypeOK
    <3>2. (HasProcess' <=> HasProcess) /\ (Alive' => Alive)
      BY <2>0, <3>1 DEF HasProcess, Alive, TypeOK
    <3>3. After'
      BY <1>1, <2>0, <3>1, <3>2 DEF After, KillComes
    <3>4. \A q \in Runs : wpc'[q] \in Unfinished => wpc[q] \in Unfinished
      BY <2>1 DEF Exit, Wait, TypeOK, Unfinished
    <3> QED
      BY <1>1, <2>a, <3>1, <3>3, <3>4
  <2>2. CASE Read(r) \/ StopLimits(r) \/ LockReconnect(r)
    <3>1. UNCHANGED <<state, killTimer, strayKills, onExit, open, cb, pc, crashed, proc>>
      BY <2>2 DEF Read, StopLimits, LockReconnect
    <3>2. After'
      BY <1>1, <2>0, <3>1 DEF After, KillComes, HasProcess, Alive
    <3>3. \A q \in Runs : wpc'[q] \in Unfinished => wpc[q] \in Unfinished
      BY <2>2 DEF Read, StopLimits, LockReconnect, TypeOK, Unfinished
    <3> QED
      BY <1>1, <2>a, <3>1, <3>2, <3>3
  <2>3. CASE SetExit(r)
    <3>1. /\ UNCHANGED <<killTimer, strayKills, onExit, open, cb, pc, crashed, proc>>
          /\ state' \in {state, "finished", "failed", "killed"}
          /\ wpc[r] \in {"SetExit", "SetKilled"}
      BY <2>3 DEF SetExit, SetState
    <3>2. ~Alive
      BY <3>1, OneWaiter DEF Alive
    <3>3. After'
      BY <1>1, <2>0, <3>1, <3>2 DEF After, KillComes, HasProcess, Alive
    <3>4. \A q \in Runs : wpc'[q] \in Unfinished => wpc[q] \in Unfinished
      BY <2>3 DEF SetExit, TypeOK, Unfinished
    <3> QED
      BY <1>1, <2>a, <3>1, <3>3, <3>4
  <2>4. CASE Cleanup(r)
    <3>1. /\ wpc[r] = "Cleanup" /\ wpc' = [wpc EXCEPT ![r] = "Lock"]
          /\ \A t \in Actors : pc'[t] = pc[t] \/ pc'[t] = "Cancelled"
          /\ cb' = [cb EXCEPT ![r] = [chain |-> onExit, step |-> 0]]
          /\ killTimer' = FALSE
          /\ UNCHANGED <<state, proc, strayKills, onExit, open, crashed>>
      BY <2>4 DEF Cleanup
    <3>2. After'
      BY <1>1, <2>0, <3>1 DEF After, KillComes, HasProcess, Alive, Signalling
    <3>3. \A q \in Runs : wpc'[q] \notin Unfinished
      BY <3>1, OneWaiter DEF TypeOK, Unfinished
    <3>4. Wrapped(onExit, 0) /\ \A q \in Runs : cb[q] = NoCallback
      BY <1>1, <3>1 DEF Callback, Unfinished
    <3>5. /\ cb'[r].chain = onExit /\ cb'[r].step = 0
          /\ \A q \in Runs : q # r => cb'[q] = NoCallback /\ cb[q] = NoCallback
      BY <3>1, <3>4 DEF TypeOK
    <3>6. Wrapped(cb'[r].chain, cb'[r].step)
      BY <3>4, <3>5
    <3>7. \A q \in Runs : Wrapped(cb'[q].chain, cb'[q].step)
      BY <1>1, <3>5, <3>6 DEF Callback
    <3>8. Callback'
      BY <3>1, <3>3, <3>5, <3>7 DEF Callback, Wrapped
    <3> QED
      BY <1>1, <3>1, <3>2, <3>8
  <2>5. CASE ExitCallback(r)
    <3> DEFINE c == cb[r].chain
               s == cb[r].step
               i == s \div 2 + 1
    <3>1. /\ UNCHANGED <<state, proc, killTimer, strayKills, pc, wpc>>
          /\ i \in DOMAIN c /\ c \in Seq(Waits) /\ s \in Nat
      BY <2>5 DEF ExitCallback, TypeOK, Callbacks
    <3>2. After'
      BY <1>1, <2>0, <3>1 DEF After, KillComes, HasProcess, Alive
    <3>3. cb[r] # NoCallback
      BY <3>1 DEF NoCallback
    <3>4. \A q \in Runs : wpc[q] \notin Unfinished
      BY <1>1, <3>3 DEF Callback
    <3>5. \A q \in Runs : q # r => cb[q] = NoCallback
      BY <1>1, <3>3 DEF Callback
    <3>6. /\ \A q \in Runs : q # r => cb'[q] = NoCallback
          /\ cb'[r] = NoCallback \/ cb'[r] = [chain |-> c, step |-> s + 1]
      BY <2>5, <3>5 DEF ExitCallback, TypeOK
    <3>7. Wrapped(c, s)
      BY <1>1 DEF Callback
    <3>8. ~crashed' /\ (\A k \in DOMAIN c : s + 1 < 2 * k - 1 => c[k] \in open')
      <4>0. \A k \in DOMAIN c : s + 1 < 2 * k - 1 => s < 2 * k - 1
        BY <3>1
      <4>1. CASE s % 2 = 0
        <5>1. crashed' = (c[i] \notin open) /\ open' = open \ {c[i]}
          BY <2>5, <4>1 DEF ExitCallback
        <5>2. s < 2 * i - 1 /\ ~(s + 1 < 2 * i - 1)
          BY <3>1, <4>1
        <5>3. c[i] \in open
          BY <3>1, <3>7, <5>2 DEF Wrapped
        <5>4. \A k \in DOMAIN c : s + 1 < 2 * k - 1 => c[k] \in open /\ c[k] # c[i]
          BY <3>1, <3>7, <4>0, <5>2 DEF Wrapped
        <5> QED
          BY <5>1, <5>3, <5>4
      <4>2. CASE s % 2 # 0
        <5>1. crashed' = crashed /\ open' = open
          BY <2>5, <4>2 DEF ExitCallback
        <5> QED
          BY <1>1, <3>7, <4>0, <5>1 DEF Wrapped
      <4> QED
        BY <4>1, <4>2
    <3>9. \A k, l \in DOMAIN c : c[k] = c[l] => k = l
      BY <3>7 DEF Wrapped
    <3> HIDE DEF c, s, i
    <3>10. Callback'
      <4>1. /\ \A q \in Runs : cb'[q] = NoCallback \/ cb'[q] = [chain |-> c, step |-> s + 1]
            /\ \A q \in Runs : cb'[q] # NoCallback => q = r
        BY <3>6
      <4>2. \A q \in Runs :
               /\ \A k, l \in DOMAIN cb'[q].chain : cb'[q].chain[k] = cb'[q].chain[l] => k = l
               /\ \A k \in DOMAIN cb'[q].chain : cb'[q].step < 2 * k - 1 => cb'[q].chain[k] \in open'
        <5> TAKE q \in Runs
        <5>1. CASE cb'[q] = NoCallback
          BY <5>1 DEF NoCallback
        <5>2. CASE cb'[q] = [chain |-> c, step |-> s + 1]
          BY <3>8, <3>9, <5>2
        <5> QED
          BY <4>1, <5>1, <5>2
      <4> QED
        BY <3>1, <3>4, <4>1, <4>2 DEF Callback, Wrapped
    <3> QED
      BY <3>2, <3>8, <3>10
  <2> QED
    BY <1>9, <2>1, <2>2, <2>3, <2>4, <2>5 DEF Exiting
<1> QED
  BY <1>1, <1>2, <1>3, <1>4, <1>5, <1>6, <1>7, <1>8, <1>9 DEF Next, Halted

LEMMA OnceStep ==
    ASSUME TypeOK, RestartInv, NoRestart, OnceInv, Once, [Next]_vars
    PROVE  OnceInv'
<1>1. CASE UNCHANGED vars
  BY <1>1 DEF vars, OnceInv, Quiet, Before, During, After, Callback, Wrapped, Starters, KillComes,
     Alive, HasProcess
<1>2. CASE Next
  BY <1>2, OnceBefore, OnceDuring, OnceAfter DEF TypeOK
<1> QED
  BY <1>1, <1>2

LEMMA OnceInvariant ==
    ASSUME Once
    PROVE  Spec => []OnceInv
<1>1. Init => OnceInv
  BY DEF Init, OnceInv, Quiet, Before, During, Starters, StartLabels, InStop, KillComes
<1>2. TypeOK /\ RestartInv /\ NoRestart /\ OnceInv /\ [Next]_vars => OnceInv'
  BY OnceStep
<1>3. Init => NoRestart
  BY DEF Init, NoRestart
<1>4. TypeOK /\ NoRestart /\ [Next]_vars => NoRestart'
  BY NoRestartStep DEF Once
<1>5. Spec => []RestartInv
  BY RestartInvariant DEF Once
<1> QED
  BY <1>1, <1>2, <1>3, <1>4, <1>5, TypeCorrect, PTL DEF Spec

\* IsRunning never says no while a process is alive (process.go:41-43), for a process
\* without reconnect that nobody stops: Kill, limits and a silent output only end it.
THEOREM RunningIsSeen ==
    ASSUME Once
    PROVE  Spec => []RunningWhileAlive
<1>1. TypeOK /\ RestartInv /\ OnceInv => RunningWhileAlive
  <2> SUFFICES ASSUME TypeOK, RestartInv, OnceInv, NEW r \in Runs, proc[r] = "alive"
               PROVE  IsRunning
    BY DEF RunningWhileAlive
  <2>1. cmd = r /\ (wpc[r] \in {"Read", "Wait"} \/ (owner \in Actors /\ pc[owner] = "Run"))
    BY DEF RestartInv, AliveWatched
  <2>2. order = "start"
    BY <2>1 DEF RestartInv, StoppedBefore, NothingToWaitFor, Starters, StartLabels, TypeOK
  <2>3. CASE Starters = {}
    BY <2>1, <2>2, <2>3 DEF OnceInv, After, Alive, IsRunning
  <2>4. CASE Starters # {}
    <3>1. PICK t \in Starters : TRUE
      BY <2>4
    <3>2. pc[t] = "Run"
      BY <3>1, LastStarter
    <3> QED
      BY <3>1, <3>2 DEF OnceInv, During, IsRunning
  <2> QED
    BY <2>3, <2>4
<1>2. Spec => []RestartInv
  BY RestartInvariant DEF Once
<1> QED
  BY <1>1, <1>2, OnceInvariant, TypeCorrect, PTL

\* Neither a signal nor a kill finds p.cmd without a process, and no WaitGroup of a
\* waiting Kill is done twice (process.go stop, the kill timer, onExit).
THEOREM NeverPanics ==
    ASSUME Once
    PROVE  Spec => []NoPanic
BY OnceInvariant, PTL DEF OnceInv, NoPanic

\* The kill timer of stop() is set when the state is finishing only, and as long as
\* the process it was meant for is alive the state stays that (process.go:623-624).
THEOREM KillsOnlyFinishing ==
    ASSUME Once
    PROVE  Spec => KillOnlyFinishing
<1>1. TypeOK /\ RestartInv /\ OnceInv /\ [Next]_vars => [killed' \subseteq killed \/ state = "finishing"]_vars
  <2> SUFFICES ASSUME TypeOK, RestartInv, OnceInv, Next PROVE killed' \subseteq killed \/ state = "finishing"
    BY DEF vars
  <2>1. CASE UNCHANGED killed \/ (\E t \in Actors : Command(t))
    BY <2>1 DEF Command
  <2>2. CASE KillProcess
    <3>1. KillComes
      BY <2>2 DEF KillProcess, KillComes, TypeOK
    <3>2. order = "start" /\ Starters = {} /\ After
      BY <3>1 DEF OnceInv, Quiet, TypeOK
    <3>3. CASE Alive
      BY <3>1, <3>2, <3>3 DEF After
    <3>4. CASE ~Alive
      BY <2>2, <3>4 DEF KillProcess, Alive
    <3> QED
      BY <3>3, <3>4
  <2>3. UNCHANGED killed \/ (\E t \in Actors : Command(t)) \/ KillProcess
    <3> USE DEF osVars
    <3>1. CASE \E t \in Actors : Locking(t) \/ Stopping(t)
      BY <3>1 DEF Locking, LockStart, LockStop, LockKill, Stopping, Check, Unreconnect, Get, Mark,
         Signal, Arm, Await, Fail
    <3>2. CASE \E t \in Actors : Starting(t)
      BY <3>2 DEF Starting, Begin, ExecFails, Exec, Run, Watcher
    <3>3. CASE \E r \in Runs : Staling(r) \/ Exiting(r)
      BY <3>3 DEF Exiting, Exit, Read, Wait, SetExit, StopLimits, Cleanup, LockReconnect,
         ExitCallback, Staling, StaleCancelled, StaleTimeout
    <3>4. CASE LimitExceeded \/ \E t \in Callers : \E m \in Ops : Call(t, m)
      BY <3>4 DEF LimitExceeded, Call
    <3>5. CASE Timers
      BY <3>5 DEF Timers, TimerFire, LockTimer, KillExpire
    <3> QED
      BY <3>1, <3>2, <3>3, <3>4, <3>5 DEF Next, Halted, vars
  <2> QED
    BY <2>1, <2>2, <2>3
<1>2. Spec => []RestartInv
  BY RestartInvariant DEF Once
<1> QED
  BY <1>1, <1>2, OnceInvariant, TypeCorrect, PTL DEF Spec, KillOnlyFinishing
=============================================================================
