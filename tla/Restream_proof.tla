--------------------------- MODULE Restream_proof ---------------------------
(***************************************************************************)
(* Theorems about Restream, for every set of ids, configurations, ports    *)
(* and AddProcess calls, with requests at any time or not: the types and   *)
(* the shape of the tasks, what a crash keeps, whose the playout ports     *)
(* are, the counter and the limit of running processes, and the clean up   *)
(* rules in force.                                                         *)
(***************************************************************************)
EXTENDS Restream, FiniteSetTheorems, TLAPS

-----------------------------------------------------------------------------
(* Types, and the tasks that run *)

\* What the helpers of the code need of a table and what they keep.
Table(ts) ==
    /\ ts \in [DOMAIN ts -> Task]
    /\ \A id \in DOMAIN ts : TaskOK(ts[id])

\* A number of tasks is an integer.
LEMMA Counts ==
    ASSUME NEW S, DOMAIN tasks \subseteq Ids, S \subseteq DOMAIN tasks
    PROVE  Cardinality(S) \in Int
<1>1. IsFiniteSet(S)
  BY FS_Subset, IdsAssumption
<1> QED
  BY <1>1, FS_CardinalityType

LEMMA IdleTyped == IdleAdder \in Adder
BY ConfigsAssumption DEF IdleAdder, Adder

\* startProcess changes the order and the ffmpeg of one task, and the counter.
LEMMA StartKeeps ==
    ASSUME NEW s, NEW id, Table(s.tasks), s.nProc \in Int
    PROVE  /\ Table(startProcess(s, id).tasks)
           /\ startProcess(s, id).nProc \in Int
           /\ DOMAIN startProcess(s, id).tasks = DOMAIN s.tasks
           /\ \A x \in DOMAIN s.tasks \ {id} : startProcess(s, id).tasks[x] = s.tasks[x]
           /\ \A x \in DOMAIN s.tasks :
                 /\ startProcess(s, id).tasks[x].config = s.tasks[x].config
                 /\ startProcess(s, id).tasks[x].playout = s.tasks[x].playout
<1>1. CASE startProcess(s, id) = s
  BY <1>1
<1>2. CASE startProcess(s, id) # s
  <2> DEFINE t == Ordered(s.tasks[id], "start", "start")
  <2>1. id \in DOMAIN s.tasks /\ s.tasks[id].valid
    BY <1>2 DEF startProcess, Refused
  <2>2. /\ startProcess(s, id).tasks = [s.tasks EXCEPT ![id] = t]
        /\ startProcess(s, id).nProc = s.nProc + 1
    BY <1>2, <2>1 DEF startProcess
  <2>3. t \in Task /\ t.config = s.tasks[id].config /\ t.playout = s.tasks[id].playout
    BY <2>1 DEF Table, Task, Orders, Ordered
  <2>4. TaskOK(t)
    BY <2>1 DEF Table, Task, TaskOK, Ordered
  <2> HIDE DEF t
  <2> QED
    BY <2>1, <2>2, <2>3, <2>4 DEF Table
<1> QED
  BY <1>1, <1>2

\* So does stopProcess.
LEMMA StopKeeps ==
    ASSUME NEW s, NEW id \in DOMAIN s.tasks, Table(s.tasks), s.nProc \in Int
    PROVE  /\ Table(stopProcess(s, id).tasks)
           /\ stopProcess(s, id).nProc \in Int
           /\ DOMAIN stopProcess(s, id).tasks = DOMAIN s.tasks
           /\ \A x \in DOMAIN s.tasks \ {id} : stopProcess(s, id).tasks[x] = s.tasks[x]
           /\ \A x \in DOMAIN s.tasks :
                 /\ stopProcess(s, id).tasks[x].config = s.tasks[x].config
                 /\ stopProcess(s, id).tasks[x].playout = s.tasks[x].playout
<1>1. CASE stopProcess(s, id) = s
  BY <1>1
<1>2. CASE stopProcess(s, id) # s
  <2> DEFINE t == Ordered(s.tasks[id], "stop", "stop")
  <2>1. s.tasks[id].ffmpeg # "none"
    BY <1>2 DEF stopProcess
  <2>2. /\ stopProcess(s, id).tasks = [s.tasks EXCEPT ![id] = t]
        /\ stopProcess(s, id).nProc = s.nProc - 1
    BY <1>2 DEF stopProcess
  <2>3. t \in Task /\ t.config = s.tasks[id].config /\ t.playout = s.tasks[id].playout
    BY DEF Table, Task, Orders, Ordered
  <2>4. TaskOK(t)
    BY <2>1 DEF Table, Task, TaskOK, Ordered
  <2> HIDE DEF t
  <2> QED
    BY <2>2, <2>3, <2>4 DEF Table
<1> QED
  BY <1>1, <1>2

\* createTask makes a task of the ports it got, if they are as many as it asked for.
LEMMA NewTaskOK ==
    ASSUME NEW c \in Configs, NEW P \in SUBSET Ports, Cardinality(P) = c.playout,
           NEW order \in Orders
    PROVE  /\ NewTask(c, P, order) \in Task /\ TaskOK(NewTask(c, P, order))
           /\ NewTask(c, P, order).config = c /\ NewTask(c, P, order).playout = P
BY DEF NewTask, Task, TaskOK, Orders

LEMMA WithKeeps ==
    ASSUME NEW ts, NEW id, NEW t \in Task, Table(ts), TaskOK(t)
    PROVE  Table(With(ts, id, t)) /\ DOMAIN With(ts, id, t) = DOMAIN ts \cup {id}
BY DEF With, Table

LEMMA WithoutKeeps ==
    ASSUME NEW ts, NEW id, Table(ts)
    PROVE  Table(Without(ts, id)) /\ DOMAIN Without(ts, id) = DOMAIN ts \ {id}
BY DEF Without, Table

LEMMA StoreTyped ==
    ASSUME NEW ts, Table(ts)
    PROVE  ToStore(ts) \in [DOMAIN ts -> Saved] /\ DOMAIN ToStore(ts) = DOMAIN ts
BY DEF ToStore, Table, Task, Saved

\* The ports of Ways are ports of the set, as many as asked for.
LEMMA WaysTyped ==
    ASSUME NEW n, NEW S, NEW P \in Ways(n, S)
    PROVE  P \subseteq S /\ Cardinality(P) = n
BY DEF Ways

LEMMA ConfigTyped ==
    \A c \in Configs : c \in Config /\ c.id \in Ids
BY ConfigsAssumption DEF Config

-----------------------------------------------------------------------------
(* The table and the AddProcess calls between two critical sections *)

TableInv == TypeOK /\ TasksOK

\* What the actions need of the invariant.
LEMMA Known ==
    ASSUME TableInv
    PROVE  /\ Table(tasks) /\ Table(Desk.tasks) /\ Desk.nProc \in Int
           /\ Desk.tasks = tasks /\ Desk.nProc = nProc /\ DOMAIN tasks \subseteq Ids
           /\ \A id \in DOMAIN tasks :
                 /\ tasks[id].config \in Configs /\ tasks[id].order \in Orders
                 /\ tasks[id].playout \in SUBSET Ports
BY DEF TableInv, TypeOK, TasksOK, Table, Desk, Task

\* A step keeps the invariant if it keeps the type of what it changes, the tasks as
\* TaskOK says, and the work of load as it is (or has none). First a step that leaves
\* the AddProcess calls alone, then one of such a call.
LEMMA Frame ==
    ASSUME TableInv, Table(tasks'), DOMAIN tasks' \subseteq Ids, nProc' \in Int,
           phase' \in {"down", "loading", "loaded", "started", "stopped"},
           inUse' \subseteq Ports, rules' \in [Ids -> SUBSET Configs],
           stored' \in [DOMAIN stored' -> Saved], DOMAIN stored' \subseteq Ids,
           UNCHANGED adders, ticked' \in BOOLEAN,
           \A id \in pending' : id \in DOMAIN tasks' /\ tasks'[id].ffmpeg = "none",
           pending' # {} => phase' = "loading"
    PROVE  TableInv'
BY DEF TableInv, TypeOK, TasksOK, Table

LEMMA AdderFrame ==
    ASSUME TableInv, NEW a \in Adders, NEW d \in Adder,
           d.pc = "insert" => Cardinality(d.ports) = d.config.playout,
           adders' = [adders EXCEPT ![a] = d], Table(tasks'), DOMAIN tasks' \subseteq Ids,
           nProc' \in Int, inUse' \subseteq Ports, rules' \in [Ids -> SUBSET Configs],
           stored' \in [DOMAIN stored' -> Saved], DOMAIN stored' \subseteq Ids,
           UNCHANGED <<phase, pending, ticked>>,
           \A id \in pending : id \in DOMAIN tasks' /\ tasks'[id].ffmpeg = "none"
    PROVE  TableInv'
BY DEF TableInv, TypeOK, TasksOK, Table

LEMMA RulesTyped ==
    /\ \A c \in Configs : RulesOf(c) \subseteq Configs
    /\ NoRules \in [Ids -> SUBSET Configs]
BY DEF RulesOf, NoRules

LEMMA IncompleteOK ==
    ASSUME NEW t \in Task, TaskOK(t), NEW P \in SUBSET Ports,
           t.ffmpeg # "none" => P = t.playout
    PROVE  Incomplete(t, P) \in Task /\ TaskOK(Incomplete(t, P))
BY DEF Incomplete, Task, TaskOK

LEMMA OrderedOK ==
    ASSUME NEW t \in Task, TaskOK(t), NEW o \in Orders, NEW f \in Orders,
           t.ffmpeg # "none", f = "start" => o = "start"
    PROVE  Ordered(t, o, f) \in Task /\ TaskOK(Ordered(t, o, f))
BY DEF Ordered, Task, TaskOK, Orders

\* The table keeps its type and its tasks stay as TaskOK says.
LEMMA TableInit == Init => TableInv
<1> SUFFICES ASSUME Init PROVE TableInv
  OBVIOUS
<1>1. tasks \in [DOMAIN tasks -> Task] /\ DOMAIN tasks = {}
  BY DEF Init
<1>2. stored \in [DOMAIN stored -> Saved] /\ DOMAIN stored = {}
  BY DEF Init
<1>3. adders \in [Adders -> Adder] /\ \A a \in Adders : adders[a].pc = "idle"
  BY IdleTyped DEF Init, IdleAdder
<1>4. /\ phase = "down" /\ nProc = 0 /\ inUse = {} /\ pending = {} /\ ticked = FALSE
      /\ rules \in [Ids -> SUBSET Configs]
  BY RulesTyped DEF Init
<1>5. TypeOK
  <2>1. tasks \in [DOMAIN tasks -> Task]
    BY <1>1
  <2>2. stored \in [DOMAIN stored -> Saved]
    BY <1>2
  <2>3. DOMAIN tasks \subseteq Ids /\ DOMAIN stored \subseteq Ids /\ pending \subseteq DOMAIN tasks
    BY <1>1, <1>2, <1>4
  <2>4. adders \in [Adders -> Adder]
    BY <1>3
  <2>5. /\ phase \in {"down", "loading", "loaded", "started", "stopped"}
        /\ nProc \in Int /\ inUse \subseteq Ports
    BY <1>4
  <2>6. ticked \in BOOLEAN
    BY <1>4
  <2> QED
    BY <1>4, <2>1, <2>2, <2>3, <2>4, <2>5, <2>6 DEF TypeOK
<1>6. TasksOK
  BY <1>1, <1>3, <1>4 DEF TasksOK
<1> QED
  BY <1>5, <1>6 DEF TableInv

LEMMA LifeStep ==
    ASSUME TableInv,
           \/ Load \/ (\E id \in Ids : LoadTask(id)) \/ Loaded
           \/ Start \/ Stop \/ Down \/ Tick \/ Observe
    PROVE  TableInv'
<1> USE Known, RulesTyped
<1>1. CASE Load
  <2>1. Table(tasks') /\ DOMAIN tasks' = DOMAIN stored /\ pending' = DOMAIN stored
        /\ \A id \in DOMAIN tasks' : tasks'[id].ffmpeg = "none"
    BY <1>1 DEF Load, Table, Task, TaskOK, TableInv, TypeOK, Saved, Orders
  <2> QED
    BY <1>1, <2>1, Frame DEF Load, TableInv, TypeOK
<1>2. CASE \E id \in Ids : LoadTask(id)
  <2> PICK id \in Ids : LoadTask(id)
    BY <1>2
  <2>a. id \in DOMAIN tasks /\ tasks[id] \in Task /\ TaskOK(tasks[id]) /\ tasks[id].ffmpeg = "none"
    BY DEF LoadTask, TableInv, TypeOK, TasksOK, Table
  <2>1. /\ Table(tasks') /\ DOMAIN tasks' = DOMAIN tasks /\ inUse' \subseteq Ports
        /\ \A x \in DOMAIN tasks \ {id} : tasks'[x] = tasks[x]
    <3>1. CASE UNCHANGED <<tasks, inUse>>
      BY <3>1 DEF TableInv, TypeOK
    <3>2. CASE /\ tasks' = [tasks EXCEPT ![id] = Incomplete(tasks[id], Free)]
               /\ inUse' = Ports
      BY <3>2, <2>a, IncompleteOK DEF Table, Free
    <3>3. CASE \E P \in Ways(tasks[id].config.playout, Free) :
                  /\ tasks' = [tasks EXCEPT ![id] = NewTask(tasks[id].config, P, tasks[id].order)]
                  /\ inUse' = inUse \cup P
      <4> PICK P \in Ways(tasks[id].config.playout, Free) :
                  /\ tasks' = [tasks EXCEPT ![id] = NewTask(tasks[id].config, P, tasks[id].order)]
                  /\ inUse' = inUse \cup P
        BY <3>3
      <4>1. P \in SUBSET Ports /\ Cardinality(P) = tasks[id].config.playout
        BY WaysTyped DEF Free
      <4>2. inUse \subseteq Ports
        BY DEF TableInv, TypeOK
      <4> QED
        BY <4>1, <4>2, <2>a, NewTaskOK DEF Table
    <3> QED
      BY <3>1, <3>2, <3>3 DEF LoadTask
  <2>2. pending' = pending \ {id} /\ phase' = phase
    BY DEF LoadTask
  <2>3. \A x \in pending' : x \in DOMAIN tasks' /\ tasks'[x].ffmpeg = "none"
    BY <2>1, <2>2 DEF TableInv, TypeOK, TasksOK
  <2> QED
    BY <2>1, <2>2, <2>3, Frame DEF LoadTask, TableInv, TypeOK, TasksOK
<1>3. CASE Loaded
  BY <1>3, StoreTyped, Frame DEF Loaded, TableInv, TypeOK, TasksOK
<1>4. CASE Start
  <2>1. PICK S \in SUBSET Startable :
          /\ tasks' = [id \in DOMAIN tasks |->
                          IF id \in S THEN Ordered(tasks[id], "start", "start") ELSE tasks[id]]
          /\ nProc' = nProc + Cardinality(S)
    BY <1>4 DEF Start
  <2>2. \A id \in S : id \in DOMAIN tasks /\ tasks[id].ffmpeg = "stop"
    BY <2>1 DEF Startable
  <2>3. Table(tasks') /\ DOMAIN tasks' = DOMAIN tasks
    BY <2>1, <2>2, OrderedOK DEF Table, Orders
  <2>4. nProc' \in Int
    BY <2>1, <2>2, Counts DEF TableInv, TypeOK
  <2>5. pending = {}
    BY <1>4 DEF Start, TableInv, TasksOK
  <2>6. rules' \in [Ids -> SUBSET Configs]
    BY <1>4 DEF Start, TableInv, TypeOK
  <2> QED
    BY <1>4, <2>3, <2>4, <2>5, <2>6, Frame DEF Start, TableInv, TypeOK
<1>5. CASE Stop
  <2>1. Table(tasks') /\ DOMAIN tasks' = DOMAIN tasks
    BY <1>5, OrderedOK DEF Stop, Table, Orders
  <2>2. pending = {}
    BY <1>5 DEF Stop, TableInv, TasksOK
  <2>3. rules' \in [Ids -> SUBSET Configs]
    BY <1>5 DEF Stop, TableInv, TypeOK
  <2> QED
    BY <1>5, <2>1, <2>2, <2>3, Frame DEF Stop, TableInv, TypeOK
<1>6. CASE Down
  <2>1. tasks' \in [DOMAIN tasks' -> Task] /\ DOMAIN tasks' = {}
    BY <1>6 DEF Down
  <2>2. adders' \in [Adders -> Adder] /\ \A a \in Adders : adders'[a].pc = "idle"
    BY <1>6, IdleTyped DEF Down, IdleAdder
  <2>3. /\ phase' = "down" /\ nProc' = 0 /\ inUse' = {} /\ pending' = {}
        /\ ticked' = FALSE /\ rules' \in [Ids -> SUBSET Configs] /\ stored' = stored
    BY <1>6 DEF Down
  <2>4. ticked' \in BOOLEAN /\ pending' \subseteq DOMAIN tasks' /\ DOMAIN tasks' \subseteq Ids
    BY <2>1, <2>3
  <2>6. TypeOK'
    BY <2>1, <2>2, <2>3, <2>4 DEF TableInv, TypeOK
  <2>5. TasksOK'
    BY <2>1, <2>2, <2>3 DEF TasksOK
  <2> QED
    BY <2>5, <2>6 DEF TableInv
<1>7. CASE Tick
  BY <1>7, Frame DEF Tick, TableInv, TypeOK, TasksOK
<1>8. CASE Observe
  <2> DEFINE S == {id \in DOMAIN tasks : /\ tasks[id].valid /\ tasks[id].config.disk
                                         /\ tasks[id].order = "start"}
  <2>1. /\ tasks' = [id \in DOMAIN tasks |->
                       IF id \in S THEN Ordered(tasks[id], "stop", "stop") ELSE tasks[id]]
        /\ nProc' = nProc - Cardinality(S)
    BY <1>8 DEF Observe
  <2>2. \A id \in S : tasks[id].ffmpeg # "none"
    BY DEF TableInv, TasksOK, TaskOK
  <2>3. nProc' \in Int
    BY <2>1, Counts DEF TableInv, TypeOK
  <2> HIDE DEF S
  <2>4. /\ Table(tasks') /\ DOMAIN tasks' = DOMAIN tasks
        /\ \A id \in DOMAIN tasks \ S : tasks'[id] = tasks[id]
    BY <2>1, <2>2, OrderedOK DEF Table, Orders
  <2>5. \A id \in pending : id \in DOMAIN tasks' /\ tasks'[id].ffmpeg = "none"
    BY <2>2, <2>4 DEF TableInv, TypeOK, TasksOK
  <2> QED
    BY <1>8, <2>3, <2>4, <2>5, Frame DEF Observe, TableInv, TypeOK, TasksOK
<1> QED
  BY <1>1, <1>2, <1>3, <1>4, <1>5, <1>6, <1>7, <1>8

LEMMA AddStep ==
    ASSUME TableInv, NEW a \in Adders,
           \/ (\E c \in Configs : AddBegin(a, c)) \/ AddPort(a) \/ AddNoPort(a) \/ AddInsert(a)
    PROVE  TableInv'
<1> USE Known, RulesTyped
<1>a. adders[a] \in Adder /\ adders[a].config \in Configs /\ adders[a].ports \in SUBSET Ports
  BY DEF TableInv, TypeOK, Adder
<1>b. \A c \in Configs, P \in SUBSET Ports :
         /\ [pc |-> AddPc(c, P), config |-> c, ports |-> P] \in Adder
         /\ AddPc(c, P) = "insert" => Cardinality(P) = c.playout
  BY DEF AddPc, Adder
<1>c. \A id \in pending : id \in DOMAIN tasks /\ tasks[id].ffmpeg = "none"
  BY DEF TableInv, TypeOK, TasksOK
<1>1. CASE \E c \in Configs : AddBegin(a, c)
  <2> PICK c \in Configs : AddBegin(a, c)
    BY <1>1
  <2> DEFINE d == [pc |-> AddPc(c, {}), config |-> c, ports |-> {}]
  <2>1. d \in Adder /\ (d.pc = "insert" => Cardinality(d.ports) = d.config.playout)
    BY <1>b
  <2>2. adders' = [adders EXCEPT ![a] = d]
    BY DEF AddBegin
  <2> HIDE DEF d
  <2> QED
    BY <2>1, <2>2, <1>c, AdderFrame DEF AddBegin, TableInv, TypeOK
<1>2. CASE AddPort(a)
  <2> DEFINE c == adders[a].config
  <2> PICK p \in Free :
        /\ adders' = [adders EXCEPT ![a] =
              [pc |-> AddPc(c, adders[a].ports \cup {p}), config |-> c,
               ports |-> adders[a].ports \cup {p}]]
        /\ inUse' = inUse \cup {p}
    BY <1>2 DEF AddPort
  <2> DEFINE P == adders[a].ports \cup {p}
  <2> DEFINE d == [pc |-> AddPc(c, P), config |-> c, ports |-> P]
  <2>1. P \in SUBSET Ports /\ inUse' \subseteq Ports
    BY <1>a DEF Free, TableInv, TypeOK
  <2>2. d \in Adder /\ (d.pc = "insert" => Cardinality(d.ports) = d.config.playout)
    BY <2>1, <1>a, <1>b
  <2>3. adders' = [adders EXCEPT ![a] = d]
    OBVIOUS
  <2> HIDE DEF d
  <2> QED
    BY <1>2, <2>1, <2>2, <2>3, <1>c, AdderFrame DEF AddPort, TableInv, TypeOK
<1>3. CASE AddNoPort(a)
  BY <1>3, <1>c, IdleTyped, AdderFrame DEF AddNoPort, TableInv, TypeOK, IdleAdder
<1>4. CASE AddInsert(a)
  <2> DEFINE c  == adders[a].config
  <2> DEFINE n  == NewTask(c, adders[a].ports, "stop")
  <2> DEFINE s  == [tasks |-> With(tasks, c.id, n), nProc |-> nProc]
  <2> DEFINE s1 == IF c.autostart THEN startProcess(s, c.id) ELSE s
  <2>1. n \in Task /\ TaskOK(n)
    <3>1. Cardinality(adders[a].ports) = c.playout
      BY <1>4 DEF AddInsert, TableInv, TasksOK
    <3> QED
      BY <3>1, <1>a, NewTaskOK DEF Orders
  <2>2. /\ Table(s.tasks) /\ s.nProc \in Int /\ DOMAIN s.tasks = DOMAIN tasks \cup {c.id}
        /\ \A x \in DOMAIN tasks \ {c.id} : s.tasks[x] = tasks[x]
    <3> HIDE DEF n
    <3>1. s.tasks = With(tasks, c.id, n) /\ s.nProc = nProc
      OBVIOUS
    <3>2. nProc \in Int
      BY DEF TableInv, TypeOK
    <3> HIDE DEF s, c
    <3>3. Table(With(tasks, c.id, n)) /\ DOMAIN With(tasks, c.id, n) = DOMAIN tasks \cup {c.id}
      BY <2>1, WithKeeps
    <3>4. \A x \in DOMAIN tasks \ {c.id} : With(tasks, c.id, n)[x] = tasks[x]
      BY DEF With
    <3> QED
      BY <3>1, <3>2, <3>3, <3>4
  <2>3. /\ Table(s1.tasks) /\ s1.nProc \in Int /\ DOMAIN s1.tasks = DOMAIN tasks \cup {c.id}
        /\ \A x \in DOMAIN tasks \ {c.id} : s1.tasks[x] = tasks[x]
    <3> HIDE DEF s
    <3> QED
      BY <2>2, StartKeeps
  <2>4. /\ \/ tasks' = tasks /\ nProc' = nProc /\ stored' = stored
           \/ /\ c.id \notin DOMAIN tasks
              /\ tasks' = s1.tasks /\ nProc' = s1.nProc /\ stored' = ToStore(s1.tasks)
        /\ \/ rules' = rules
           \/ rules' = [rules EXCEPT ![c.id] = rules[c.id] \cup RulesOf(c)]
        /\ adders' = [adders EXCEPT ![a] = IdleAdder]
        /\ UNCHANGED <<phase, inUse, pending, ticked>>
    BY <1>4 DEF AddInsert
  <2>5. rules' \in [Ids -> SUBSET Configs]
    BY <2>4, <1>a, ConfigTyped DEF TableInv, TypeOK
  <2> HIDE DEF s1
  <2>6. /\ Table(tasks') /\ DOMAIN tasks' \subseteq Ids /\ nProc' \in Int
        /\ stored' \in [DOMAIN stored' -> Saved] /\ DOMAIN stored' \subseteq Ids
        /\ \A id \in pending : id \in DOMAIN tasks' /\ tasks'[id].ffmpeg = "none"
    <3>1. CASE tasks' = tasks /\ nProc' = nProc /\ stored' = stored
      BY <3>1, <1>c DEF TableInv, TypeOK
    <3>2. CASE /\ c.id \notin DOMAIN tasks
               /\ tasks' = s1.tasks /\ nProc' = s1.nProc /\ stored' = ToStore(s1.tasks)
      BY <3>2, <2>3, <1>a, <1>c, ConfigTyped, StoreTyped
    <3> QED
      BY <2>4, <3>1, <3>2
  <2> QED
    BY <2>4, <2>5, <2>6, IdleTyped, AdderFrame DEF IdleAdder, TableInv, TypeOK
<1> QED
  BY <1>1, <1>2, <1>3, <1>4

\* Requests that take the write lock come when load is done.
LEMMA NothingPending ==
    ASSUME TableInv, Request
    PROVE  pending = {}
BY DEF TableInv, TasksOK, Request, Serving

\* A request that saves the table it leaves.
LEMMA SaveFrame ==
    ASSUME TableInv, Request, Table(tasks'), DOMAIN tasks' \subseteq Ids, nProc' \in Int,
           inUse' \subseteq Ports, rules' \in [Ids -> SUBSET Configs],
           stored' = ToStore(tasks') \/ stored' = stored, UNCHANGED <<phase, pending, adders, ticked>>
    PROVE  TableInv'
<1>1. stored' \in [DOMAIN stored' -> Saved] /\ DOMAIN stored' \subseteq Ids
  BY StoreTyped DEF TableInv, TypeOK
<1> QED
  BY <1>1, NothingPending, Frame DEF TableInv, TypeOK

LEMMA RequestStep ==
    ASSUME TableInv, NEW id \in Ids,
           \/ StartProcess(id) \/ StopProcess(id) \/ DeleteProcess(id)
           \/ (\E c \in Configs : UpdateFails(id, c)) \/ (\E c \in Configs : UpdateProcess(id, c))
           \/ ReloadFails(id) \/ ReloadProcess(id)
    PROVE  TableInv'
<1> USE Known, RulesTyped
<1>a. inUse \subseteq Ports /\ rules \in [Ids -> SUBSET Configs]
  BY DEF TableInv, TypeOK
<1>1. CASE StartProcess(id)
  BY <1>1, <1>a, StartKeeps, SaveFrame DEF StartProcess
<1>2. CASE StopProcess(id)
  BY <1>2, <1>a, StopKeeps, SaveFrame DEF StopProcess
<1>3. CASE DeleteProcess(id)
  <2>1. Table(tasks') /\ DOMAIN tasks' \subseteq Ids
    BY <1>3, WithoutKeeps DEF DeleteProcess
  <2>2. inUse' \subseteq Ports /\ rules' \in [Ids -> SUBSET Configs]
    BY <1>3, <1>a DEF DeleteProcess
  <2> QED
    BY <1>3, <2>1, <2>2, SaveFrame DEF DeleteProcess, TableInv, TypeOK
<1>4. CASE \E c \in Configs : UpdateFails(id, c)
  <2> PICK c \in Configs : UpdateFails(id, c)
    BY <1>4
  <2>1. inUse' \subseteq Ports
    BY <1>a, WaysTyped DEF UpdateFails, Free
  <2> QED
    BY <2>1, <1>a, SaveFrame DEF UpdateFails
<1>5. CASE \E c \in Configs : UpdateProcess(id, c)
  <2> PICK c \in Configs : UpdateProcess(id, c)
    BY <1>5
  <2> DEFINE order == tasks[id].order
  <2> DEFINE s == stopProcess(Desk, id)
  <2> DEFINE s1(P) == [tasks |-> With(Without(s.tasks, id), c.id, NewTask(c, P, order)),
                       nProc |-> s.nProc]
  <2> DEFINE s2(P) == IF order = "start" THEN startProcess(s1(P), c.id) ELSE s1(P)
  <2>1. PICK P \in Ways(c.playout, Free) :
          /\ inUse' = (inUse \cup P) \ tasks[id].playout
          /\ \/ /\ tasks' = s2(P).tasks /\ nProc' = s2(P).nProc /\ stored' = ToStore(s2(P).tasks)
                /\ rules' = [x \in Ids |->
                        (IF x = id THEN {} ELSE rules[x]) \cup (IF x = c.id THEN RulesOf(c) ELSE {})]
             \/ /\ tasks' = Without(tasks, id)
                /\ rules' = [rules EXCEPT ![id] = {}]
                /\ UNCHANGED <<nProc, stored>>
    BY DEF UpdateProcess
  <2>2. Request /\ id \in DOMAIN tasks /\ UNCHANGED <<phase, pending, adders, ticked>>
    BY DEF UpdateProcess
  <2>3. P \in SUBSET Ports /\ Cardinality(P) = c.playout
    BY WaysTyped DEF Free
  <2>4. /\ Table(Without(s.tasks, id)) /\ s.nProc \in Int
        /\ DOMAIN Without(s.tasks, id) \subseteq Ids
    <3>1. Table(s.tasks) /\ s.nProc \in Int /\ DOMAIN s.tasks = DOMAIN tasks
      BY <2>2, StopKeeps
    <3> HIDE DEF s
    <3> DEFINE ts == s.tasks
    <3>2. Table(ts) /\ DOMAIN ts \subseteq Ids
      BY <3>1
    <3> HIDE DEF ts
    <3>3. Table(Without(ts, id)) /\ DOMAIN Without(ts, id) \subseteq Ids
      BY <3>2, WithoutKeeps
    <3> QED
      BY <3>1, <3>3 DEF ts
  <2> DEFINE r1 == s1(P)
  <2> DEFINE r2 == IF order = "start" THEN startProcess(r1, c.id) ELSE r1
  <2>10. \/ tasks' = r2.tasks /\ nProc' = r2.nProc /\ stored' = ToStore(r2.tasks)
         \/ tasks' = Without(tasks, id) /\ UNCHANGED <<nProc, stored>>
    BY <2>1
  <2> HIDE DEF s
  <2>5. /\ Table(r1.tasks) /\ r1.nProc \in Int /\ DOMAIN r1.tasks \subseteq Ids
    <3> DEFINE n == NewTask(c, P, order)
    <3>1. n \in Task /\ TaskOK(n) /\ c.id \in Ids
      BY <2>2, <2>3, NewTaskOK, ConfigTyped
    <3> HIDE DEF n
    <3> DEFINE ts == Without(s.tasks, id)
    <3>2. Table(ts) /\ DOMAIN ts \subseteq Ids
      BY <2>4
    <3>3. r1.tasks = With(ts, c.id, n) /\ r1.nProc = s.nProc
      BY DEF n, ts
    <3> HIDE DEF r1, ts
    <3>4. Table(With(ts, c.id, n)) /\ DOMAIN With(ts, c.id, n) = DOMAIN ts \cup {c.id}
      BY <3>1, <3>2, WithKeeps
    <3> QED
      BY <2>4, <3>1, <3>2, <3>3, <3>4
  <2> HIDE DEF r1
  <2>6. /\ Table(r2.tasks) /\ r2.nProc \in Int /\ DOMAIN r2.tasks \subseteq Ids
    BY <2>5, StartKeeps
  <2> HIDE DEF r2
  <2>7. inUse' \subseteq Ports /\ rules' \in [Ids -> SUBSET Configs]
    BY <2>1, <2>3, <1>a
  <2>8. CASE tasks' = r2.tasks /\ nProc' = r2.nProc /\ stored' = ToStore(r2.tasks)
    BY <2>2, <2>6, <2>7, <2>8, SaveFrame
  <2>9. CASE tasks' = Without(tasks, id) /\ UNCHANGED <<nProc, stored>>
    <3>1. Table(tasks') /\ DOMAIN tasks' \subseteq Ids
      BY <2>9, WithoutKeeps
    <3> QED
      BY <2>2, <2>7, <2>9, <3>1, SaveFrame
  <2> QED
    BY <2>8, <2>9, <2>10
<1>6. CASE ReloadFails(id)
  <2> DEFINE c == tasks[id].config
  <2> DEFINE pool == Free \cup tasks[id].playout
  <2>1. id \in DOMAIN tasks /\ tasks[id] \in Task /\ TaskOK(tasks[id])
    BY <1>6 DEF ReloadFails, Table
  <2>2. CASE tasks' = [tasks EXCEPT ![id] = Incomplete(tasks[id], tasks[id].playout)] /\ UNCHANGED inUse
    <3>1. Table(tasks')
      BY <2>1, <2>2, IncompleteOK DEF Table
    <3> QED
      BY <1>6, <1>a, <2>2, <3>1, SaveFrame DEF ReloadFails
  <2>3. CASE /\ Ways(c.playout, pool) = {} /\ inUse' = Ports
             /\ tasks' = [tasks EXCEPT ![id] = Incomplete(tasks[id], pool)]
    \* the ports the task held would have done
    <3>1. tasks[id].ffmpeg = "none"
      <4>1. Cardinality(tasks[id].playout) # c.playout
        BY <2>3 DEF Ways
      <4> QED
        BY <2>1, <4>1 DEF TaskOK
    <3>2. pool \in SUBSET Ports
      BY <2>1 DEF Free
    <3>3. Table(tasks')
      BY <2>1, <2>3, <3>1, <3>2, IncompleteOK DEF Table
    <3> QED
      BY <1>6, <1>a, <2>3, <3>3, SaveFrame DEF ReloadFails
  <2> QED
    BY <1>6, <2>2, <2>3 DEF ReloadFails
<1>7. CASE ReloadProcess(id)
  <2> DEFINE c == tasks[id].config
  <2> DEFINE order == tasks[id].order
  <2> DEFINE s == IF order = "start" THEN stopProcess(Desk, id) ELSE Desk
  <2> DEFINE s1(P) == [tasks |-> With(s.tasks, id, NewTask(c, P, s.tasks[id].order)),
                       nProc |-> s.nProc]
  <2> DEFINE s2(P) == IF order = "start" THEN startProcess(s1(P), id) ELSE s1(P)
  <2>1. PICK P \in Ways(c.playout, Free \cup tasks[id].playout) :
          /\ tasks' = s2(P).tasks /\ nProc' = s2(P).nProc /\ stored' = ToStore(s2(P).tasks)
          /\ inUse' = (inUse \ tasks[id].playout) \cup P
    BY <1>7 DEF ReloadProcess
  <2>2. Request /\ id \in DOMAIN tasks /\ UNCHANGED <<phase, rules, pending, adders, ticked>>
    BY <1>7 DEF ReloadProcess
  <2>3. P \in SUBSET Ports /\ Cardinality(P) = c.playout
    BY <2>2, WaysTyped DEF Free
  <2>4. /\ Table(s.tasks) /\ s.nProc \in Int /\ DOMAIN s.tasks = DOMAIN tasks
    BY <2>2, StopKeeps
  <2>5. s.tasks[id].order \in Orders
    BY <2>2, <2>4 DEF Table, Task
  <2> DEFINE r1 == s1(P)
  <2> DEFINE r2 == IF order = "start" THEN startProcess(r1, id) ELSE r1
  <2>8. tasks' = r2.tasks /\ nProc' = r2.nProc /\ stored' = ToStore(r2.tasks)
    BY <2>1
  <2> HIDE DEF s
  <2>6. /\ Table(r1.tasks) /\ r1.nProc \in Int /\ DOMAIN r1.tasks \subseteq Ids
    <3> DEFINE n == NewTask(c, P, s.tasks[id].order)
    <3>1. n \in Task /\ TaskOK(n)
      BY <2>2, <2>3, <2>5, NewTaskOK
    <3> HIDE DEF n
    <3> DEFINE ts == s.tasks
    <3>2. Table(ts) /\ DOMAIN ts \subseteq Ids
      BY <2>4
    <3>3. r1.tasks = With(ts, id, n) /\ r1.nProc = s.nProc
      BY DEF n, ts
    <3> HIDE DEF r1, ts
    <3>4. Table(With(ts, id, n)) /\ DOMAIN With(ts, id, n) = DOMAIN ts \cup {id}
      BY <3>1, <3>2, WithKeeps
    <3> QED
      BY <2>4, <3>1, <3>2, <3>3, <3>4
  <2> HIDE DEF r1
  <2>7. /\ Table(r2.tasks) /\ r2.nProc \in Int /\ DOMAIN r2.tasks \subseteq Ids
    BY <2>6, StartKeeps
  <2> HIDE DEF r2
  <2> QED
    <3>1. inUse' \subseteq Ports
      BY <1>a, <2>1, <2>3
    <3> QED
      BY <1>a, <2>2, <2>7, <2>8, <3>1, SaveFrame
<1> QED
  BY <1>1, <1>2, <1>3, <1>4, <1>5, <1>6, <1>7

LEMMA TableStep == TableInv /\ [Next]_vars => TableInv'
<1> SUFFICES ASSUME TableInv, [Next]_vars PROVE TableInv'
  OBVIOUS
<1>1. CASE UNCHANGED vars
  BY <1>1 DEF vars, TableInv, TypeOK, TasksOK
<1>2. CASE Next
  BY <1>2, LifeStep, AddStep, RequestStep DEF Next
<1> QED
  BY <1>1, <1>2

\* The maps and tasks of restream.go keep their types through requests, failed
\* reloads, crashes and starts of the service, and tasks keep their shape.
THEOREM TypeCorrect == Spec => [](TypeOK /\ TasksOK)
<1>1. TypeOK /\ TasksOK <=> TableInv
  BY DEF TableInv
<1> QED
  BY <1>1, TableInit, TableStep, PTL DEF Spec

\* An ffmpeg has exactly the ports its task holds, as many as the configuration asks
\* for, also after a reload that failed half-way (reloadProcess, createTask).
THEOREM TasksKeepShape == Spec => []TasksOK
BY TypeCorrect, PTL

-----------------------------------------------------------------------------
(* What a crash keeps, and whose the playout ports are *)

\* What a request saves is durable.
LEMMA SavedDurable ==
    ASSUME stored' = ToStore(tasks')
    PROVE  Durable'
BY DEF Durable, ToStore

\* The store stays right for a table that gains no task, configuration or start order.
LEMMA KeptDurable ==
    ASSUME Durable, UNCHANGED stored, DOMAIN tasks' \subseteq DOMAIN tasks,
           \A x \in DOMAIN tasks' : /\ tasks'[x].config = tasks[x].config
                                    /\ tasks'[x].order = "start" => tasks[x].order = "start"
    PROVE  Durable'
BY DEF Durable

LEMMA DurableStep ==
    ASSUME TableInv, Durable, [Next]_vars
    PROVE  Durable'
<1>1. CASE UNCHANGED vars
  BY <1>1 DEF vars, Durable
<1>2. CASE Load
  BY <1>2 DEF Load, Durable
<1>3. CASE \E id \in Ids : LoadTask(id)
  <2> PICK id \in Ids : LoadTask(id)
    BY <1>3
  <2>1. id \in DOMAIN tasks
    BY DEF LoadTask, TableInv, TypeOK
  <2>2. /\ UNCHANGED stored /\ DOMAIN tasks' = DOMAIN tasks
        /\ \A x \in DOMAIN tasks : /\ tasks'[x].config = tasks[x].config
                                   /\ tasks'[x].order = tasks[x].order
    BY <2>1 DEF LoadTask, Incomplete, NewTask
  <2> QED
    BY <2>2, KeptDurable
<1>4. CASE Loaded
  BY <1>4, SavedDurable DEF Loaded, ToStore
<1>5. CASE Start
  BY <1>5, KeptDurable DEF Start, Startable, Ordered
<1>6. CASE Stop
  BY <1>6, KeptDurable DEF Stop, Ordered
<1>7. CASE Down
  BY <1>7 DEF Down, Durable
<1>8. CASE Tick \/ Observe
  BY <1>8, KeptDurable DEF Tick, Observe, Ordered
<1>9. CASE \E a \in Adders : AddPort(a) \/ AddNoPort(a) \/ \E c \in Configs : AddBegin(a, c)
  BY <1>9, KeptDurable DEF AddPort, AddNoPort, AddBegin
<1>10. CASE \E a \in Adders : AddInsert(a)
  BY <1>10, KeptDurable, SavedDurable DEF AddInsert
<1>11. CASE \E id \in Ids : StartProcess(id) \/ StopProcess(id) \/ DeleteProcess(id)
  BY <1>11, SavedDurable DEF StartProcess, StopProcess, DeleteProcess
<1>12. CASE \E id \in Ids, c \in Configs : UpdateFails(id, c)
  BY <1>12, KeptDurable DEF UpdateFails
<1>13. CASE \E id \in Ids, c \in Configs : UpdateProcess(id, c)
  BY <1>13, KeptDurable, SavedDurable DEF UpdateProcess, Without
<1>14. CASE \E id \in Ids : ReloadFails(id)
  BY <1>14, KeptDurable DEF ReloadFails, Incomplete
<1>15. CASE \E id \in Ids : ReloadProcess(id)
  BY <1>15, SavedDurable DEF ReloadProcess
<1> QED
  BY <1>1, <1>2, <1>3, <1>4, <1>5, <1>6, <1>7, <1>8, <1>9, <1>10, <1>11, <1>12, <1>13,
     <1>14, <1>15 DEF Next

\* A crash at any moment forgets no process, no configuration and no order to run.
THEOREM CrashForgetsNothing == Spec => []Durable
<1>1. Init => Durable
  BY DEF Init, Durable
<1>2. TableInv /\ Durable /\ [Next]_vars => Durable'
  BY DurableStep
<1> QED
  BY <1>1, <1>2, TableInit, TableStep, PTL DEF Spec

-----------------------------------------------------------------------------
(* The playout ports *)

\* A step releases the ports O of tasks that are gone or are given others, and hands
\* out P, at most to the task id. Nobody else's ports change.
LEMMA Handed ==
    ASSUME PortsApart, NEW id, NEW O, NEW P,
           P \cap (inUse \ O) = {}, (inUse \ O) \cup P \subseteq inUse', UNCHANGED adders,
           \A a \in Adders : adders[a].ports \cap O = {},
           \A x \in DOMAIN tasks' \ {id} : /\ x \in DOMAIN tasks
                                           /\ tasks'[x].playout = tasks[x].playout
                                           /\ tasks[x].playout \cap O = {},
           id \in DOMAIN tasks' => tasks'[id].playout \subseteq P
    PROVE  PortsApart'
<1>1. \A x \in DOMAIN tasks' \ {id} : tasks'[x].playout \subseteq inUse \ O
  BY DEF PortsApart
<1>2. \A a \in Adders : adders[a].ports \subseteq inUse \ O
  BY DEF PortsApart
<1>3. \A x \in DOMAIN tasks' : tasks'[x].playout \subseteq inUse'
  BY <1>1
<1>4. \A i, j \in DOMAIN tasks' : i # j => tasks'[i].playout \cap tasks'[j].playout = {}
  <2> SUFFICES ASSUME NEW i \in DOMAIN tasks', NEW j \in DOMAIN tasks', i # j
               PROVE  tasks'[i].playout \cap tasks'[j].playout = {}
    OBVIOUS
  <2>1. CASE i = id
    BY <1>1, <2>1
  <2>2. CASE j = id
    BY <1>1, <2>2
  <2>3. CASE i # id /\ j # id
    BY <2>3 DEF PortsApart
  <2> QED
    BY <2>1, <2>2, <2>3
<1>5. \A a \in Adders, x \in DOMAIN tasks' : adders[a].ports \cap tasks'[x].playout = {}
  <2> SUFFICES ASSUME NEW a \in Adders, NEW x \in DOMAIN tasks'
               PROVE  adders[a].ports \cap tasks'[x].playout = {}
    OBVIOUS
  <2>1. CASE x = id
    BY <1>2, <2>1
  <2>2. CASE x # id
    BY <2>2 DEF PortsApart
  <2> QED
    BY <2>1, <2>2
<1> QED
  BY <1>2, <1>3, <1>4, <1>5 DEF PortsApart

\* A step that releases no port.
LEMMA Given ==
    ASSUME PortsApart, NEW id, NEW P, P \cap inUse = {}, inUse \cup P \subseteq inUse',
           UNCHANGED adders,
           \A x \in DOMAIN tasks' \ {id} : x \in DOMAIN tasks /\ tasks'[x].playout = tasks[x].playout,
           id \in DOMAIN tasks' => tasks'[id].playout \subseteq P
    PROVE  PortsApart'
<1> DEFINE O == {}
<1>1. P \cap (inUse \ O) = {} /\ (inUse \ O) \cup P \subseteq inUse'
  OBVIOUS
<1>2. \A S : S \cap O = {}
  OBVIOUS
<1> HIDE DEF O
<1>3. \A a \in Adders : adders[a].ports \cap O = {}
  BY <1>2
<1>4. \A x \in DOMAIN tasks' \ {id} : /\ x \in DOMAIN tasks
                                       /\ tasks'[x].playout = tasks[x].playout
                                       /\ tasks[x].playout \cap O = {}
  BY <1>2
<1> QED
  BY <1>1, <1>3, <1>4, Handed

\* No port changes hands; some may be lost.
LEMMA NotHanded ==
    ASSUME PortsApart, UNCHANGED adders, inUse \subseteq inUse', DOMAIN tasks' \subseteq DOMAIN tasks,
           \A x \in DOMAIN tasks' : tasks'[x].playout = tasks[x].playout
    PROVE  PortsApart'
BY DEF PortsApart

LEMMA PortsLife ==
    ASSUME TableInv, PortsApart,
           \/ Load \/ (\E id \in Ids : LoadTask(id)) \/ Loaded
           \/ Start \/ Stop \/ Down \/ Tick \/ Observe
    PROVE  PortsApart'
<1>1. CASE Load
  BY <1>1 DEF Load, PortsApart
<1>2. CASE \E id \in Ids : LoadTask(id)
  <2> PICK id \in Ids : LoadTask(id)
    BY <1>2
  <2>1. id \in DOMAIN tasks
    BY DEF LoadTask, TableInv, TypeOK
  <2>2. UNCHANGED adders
    BY DEF LoadTask
  <2>3. CASE UNCHANGED <<tasks, inUse>>
    BY <2>2, <2>3, NotHanded
  <2>4. CASE /\ tasks' = [tasks EXCEPT ![id] = Incomplete(tasks[id], Free)]
             /\ inUse' = Ports
    <3>1. inUse \subseteq Ports
      BY DEF TableInv, TypeOK
    <3>2. /\ DOMAIN tasks' = DOMAIN tasks /\ tasks'[id].playout = Free
          /\ \A x \in DOMAIN tasks \ {id} : tasks'[x] = tasks[x]
      BY <2>1, <2>4 DEF Incomplete
    <3> QED
      BY <2>2, <2>4, <3>1, <3>2, Given DEF Free
  <2>5. CASE \E P \in Ways(tasks[id].config.playout, Free) :
                /\ tasks' = [tasks EXCEPT ![id] = NewTask(tasks[id].config, P, tasks[id].order)]
                /\ inUse' = inUse \cup P
    <3> PICK P \in Ways(tasks[id].config.playout, Free) :
                /\ tasks' = [tasks EXCEPT ![id] = NewTask(tasks[id].config, P, tasks[id].order)]
                /\ inUse' = inUse \cup P
      BY <2>5
    <3>1. P \subseteq Free
      BY WaysTyped
    <3>2. /\ DOMAIN tasks' = DOMAIN tasks /\ tasks'[id].playout = P
          /\ \A x \in DOMAIN tasks \ {id} : tasks'[x] = tasks[x]
      BY <2>1 DEF NewTask
    <3> QED
      BY <2>2, <3>1, <3>2, Given DEF Free
  <2> QED
    BY <2>3, <2>4, <2>5 DEF LoadTask
<1>3. CASE Loaded \/ Tick
  BY <1>3, NotHanded DEF Loaded, Tick
<1>4. CASE Start
  BY <1>4, NotHanded DEF Start, Ordered
<1>5. CASE Stop
  BY <1>5, NotHanded DEF Stop, Ordered
<1>6. CASE Down
  BY <1>6 DEF Down, IdleAdder, PortsApart
<1>7. CASE Observe
  BY <1>7, NotHanded DEF Observe, Ordered
<1> QED
  BY <1>1, <1>2, <1>3, <1>4, <1>5, <1>6, <1>7

\* The tasks of the table ts are those of the table with the ports they hold, except
\* that the one with this id holds P if it is there; O is what others released.
Holding(ts, id, O, P) ==
    /\ \A x \in DOMAIN ts \ {id} : /\ x \in DOMAIN tasks
                                   /\ ts[x].playout = tasks[x].playout
                                   /\ tasks[x].playout \cap O = {}
    /\ id \in DOMAIN ts => ts[id].playout \subseteq P

LEMMA HandedHolding ==
    ASSUME PortsApart, NEW id, NEW O, NEW P,
           P \cap (inUse \ O) = {}, (inUse \ O) \cup P \subseteq inUse', UNCHANGED adders,
           \A a \in Adders : adders[a].ports \cap O = {},
           Holding(tasks', id, O, P)
    PROVE  PortsApart'
BY Handed DEF Holding

\* startProcess leaves the ports alone.
LEMMA StartHolding ==
    ASSUME NEW s, NEW id, NEW i, NEW O, NEW P, Table(s.tasks), s.nProc \in Int,
           Holding(s.tasks, i, O, P)
    PROVE  Holding(startProcess(s, id).tasks, i, O, P)
BY StartKeeps DEF Holding

LEMMA PortsAdd ==
    ASSUME TableInv, PortsApart, NEW a \in Adders,
           \/ (\E c \in Configs : AddBegin(a, c)) \/ AddPort(a) \/ AddNoPort(a) \/ AddInsert(a)
    PROVE  PortsApart'
<1> USE Known
<1>a. adders[a] \in Adder /\ \A x \in Adders \ {a} : adders'[x] = adders[x]
  BY DEF AddBegin, AddPort, AddNoPort, AddInsert, TableInv, TypeOK
<1>1. CASE \E c \in Configs : AddBegin(a, c)
  <2>1. UNCHANGED <<tasks, inUse>> /\ adders'[a].ports = {}
    BY <1>1 DEF AddBegin, TableInv, TypeOK
  <2> QED
    BY <1>a, <2>1 DEF PortsApart
<1>2. CASE AddPort(a)
  <2>1. PICK p \in Free : /\ adders'[a].ports = adders[a].ports \cup {p}
                          /\ inUse' = inUse \cup {p}
    BY <1>2 DEF AddPort, TableInv, TypeOK
  <2>2. UNCHANGED tasks
    BY <1>2 DEF AddPort
  <2> QED
    BY <1>a, <2>1, <2>2 DEF PortsApart, Free
<1>3. CASE AddNoPort(a)
  <2>1. UNCHANGED <<tasks, inUse>> /\ adders'[a].ports = {}
    BY <1>3 DEF AddNoPort, IdleAdder, TableInv, TypeOK
  <2> QED
    BY <1>a, <2>1 DEF PortsApart
<1>4. CASE AddInsert(a)
  <2> DEFINE c  == adders[a].config
  <2> DEFINE n  == NewTask(c, adders[a].ports, "stop")
  <2> DEFINE s  == [tasks |-> With(tasks, c.id, n), nProc |-> nProc]
  <2> DEFINE s1 == IF c.autostart THEN startProcess(s, c.id) ELSE s
  <2>1. /\ UNCHANGED inUse /\ adders'[a].ports = {}
        /\ UNCHANGED tasks \/ (c.id \notin DOMAIN tasks /\ tasks' = s1.tasks)
    BY <1>4 DEF AddInsert, IdleAdder, TableInv, TypeOK
  <2>2. CASE UNCHANGED tasks
    BY <1>a, <2>1, <2>2 DEF PortsApart
  <2>3. CASE c.id \notin DOMAIN tasks /\ tasks' = s1.tasks
    <3>1. /\ DOMAIN s.tasks = DOMAIN tasks \cup {c.id}
          /\ s.tasks[c.id].playout = adders[a].ports
          /\ \A x \in DOMAIN tasks : s.tasks[x].playout = tasks[x].playout
      BY <2>3 DEF With, NewTask
    <3>2. Table(s.tasks) /\ s.nProc \in Int
      <4>1. Cardinality(adders[a].ports) = c.playout /\ c \in Configs
        BY <1>a, <1>4 DEF AddInsert, TableInv, TasksOK, Adder
      <4>2. n \in Task /\ TaskOK(n)
        BY <1>a, <4>1, NewTaskOK DEF Adder, Orders
      <4> HIDE DEF n, c
      <4>3. Table(With(tasks, c.id, n))
        BY <4>2, WithKeeps
      <4> QED
        BY <4>3
    <3> HIDE DEF s
    <3>3. /\ DOMAIN tasks' = DOMAIN tasks \cup {c.id}
          /\ tasks'[c.id].playout = adders[a].ports
          /\ \A x \in DOMAIN tasks : tasks'[x].playout = tasks[x].playout
      BY <2>3, <3>1, <3>2, StartKeeps
    <3> HIDE DEF c
    <3> QED
      BY <1>a, <2>1, <2>3, <3>3 DEF PortsApart
  <2> QED
    BY <2>1, <2>2, <2>3
<1> QED
  BY <1>1, <1>2, <1>3, <1>4

\* Update and reload give the ports O of the task they replace back and take P.
LEMMA PortsReplaced ==
    ASSUME TableInv, PortsApart, NEW id \in DOMAIN tasks, NEW i, NEW P,
           P \cap (inUse \ tasks[id].playout) = {},
           inUse' = (inUse \ tasks[id].playout) \cup P, UNCHANGED adders,
           \A x \in DOMAIN tasks' \ {i} : /\ x \in DOMAIN tasks \ {id}
                                          /\ tasks'[x].playout = tasks[x].playout,
           i \in DOMAIN tasks' => tasks'[i].playout = P
    PROVE  PortsApart'
<1> DEFINE O == tasks[id].playout
<1>1. \A a \in Adders : adders[a].ports \cap O = {}
  BY DEF PortsApart
<1>2. \A x \in DOMAIN tasks \ {id} : tasks[x].playout \cap O = {}
  BY DEF PortsApart
<1>3. P \cap (inUse \ O) = {} /\ (inUse \ O) \cup P \subseteq inUse'
  OBVIOUS
<1>4. Holding(tasks', i, O, P)
  BY <1>2 DEF Holding
<1> HIDE DEF O
<1> QED
  BY <1>1, <1>3, <1>4, HandedHolding

LEMMA PortsRequest ==
    ASSUME TableInv, PortsApart, NEW id \in Ids,
           \/ StartProcess(id) \/ StopProcess(id) \/ DeleteProcess(id)
           \/ (\E c \in Configs : UpdateFails(id, c)) \/ (\E c \in Configs : UpdateProcess(id, c))
           \/ ReloadFails(id) \/ ReloadProcess(id)
    PROVE  PortsApart'
<1> USE Known
<1>a. inUse \subseteq Ports
  BY DEF TableInv, TypeOK
<1>b. id \in DOMAIN tasks => tasks[id].playout \subseteq inUse
  BY DEF PortsApart
<1>1. CASE StartProcess(id)
  BY <1>1, StartKeeps, NotHanded DEF StartProcess
<1>2. CASE StopProcess(id)
  BY <1>2, StopKeeps, NotHanded DEF StopProcess
<1>3. CASE DeleteProcess(id)
  <2>1. /\ id \in DOMAIN tasks /\ UNCHANGED adders
        /\ inUse' = (inUse \ tasks[id].playout) \cup {}
        /\ DOMAIN tasks' = DOMAIN tasks \ {id}
        /\ \A x \in DOMAIN tasks' : tasks'[x] = tasks[x]
    BY <1>3 DEF DeleteProcess, Without
  <2> QED
    BY <2>1 DEF PortsApart
<1>4. CASE \E c \in Configs : UpdateFails(id, c)
  BY <1>4, <1>a, NotHanded DEF UpdateFails
<1>5. CASE \E c \in Configs : UpdateProcess(id, c)
  <2> PICK c \in Configs : UpdateProcess(id, c)
    BY <1>5
  <2> DEFINE order == tasks[id].order
  <2> DEFINE s == stopProcess(Desk, id)
  <2> DEFINE s1(P) == [tasks |-> With(Without(s.tasks, id), c.id, NewTask(c, P, order)),
                       nProc |-> s.nProc]
  <2> DEFINE s2(P) == IF order = "start" THEN startProcess(s1(P), c.id) ELSE s1(P)
  <2>1. PICK P \in Ways(c.playout, Free) :
          /\ inUse' = (inUse \cup P) \ tasks[id].playout
          /\ tasks' = s2(P).tasks \/ tasks' = Without(tasks, id)
    BY DEF UpdateProcess
  <2>2. /\ id \in DOMAIN tasks /\ (c.id = id \/ c.id \notin DOMAIN tasks) /\ UNCHANGED adders
    BY DEF UpdateProcess
  <2>3. P \in SUBSET Ports /\ P \cap inUse = {} /\ Cardinality(P) = c.playout
    BY WaysTyped DEF Free
  <2>4. inUse' = (inUse \ tasks[id].playout) \cup P /\ P \cap (inUse \ tasks[id].playout) = {}
    BY <1>b, <2>1, <2>2, <2>3
  <2>5. /\ Table(s.tasks) /\ s.nProc \in Int /\ DOMAIN s.tasks = DOMAIN tasks
        /\ \A x \in DOMAIN tasks : s.tasks[x].playout = tasks[x].playout
    BY <2>2, StopKeeps
  <2> DEFINE r1 == s1(P)
  <2> DEFINE r2 == IF order = "start" THEN startProcess(r1, c.id) ELSE r1
  <2>6. tasks' = r2.tasks \/ tasks' = Without(tasks, id)
    BY <2>1
  <2> HIDE DEF s
  <2>7. /\ DOMAIN r1.tasks = (DOMAIN tasks \ {id}) \cup {c.id} /\ r1.tasks[c.id].playout = P
        /\ \A x \in DOMAIN r1.tasks \ {c.id} : r1.tasks[x].playout = tasks[x].playout
    BY <2>5 DEF With, Without, NewTask
  <2>8. Table(r1.tasks) /\ r1.nProc \in Int
    <3> DEFINE n == NewTask(c, P, order)
    <3> DEFINE ts == s.tasks
    <3> DEFINE us == Without(ts, id)
    <3>1. n \in Task /\ TaskOK(n)
      BY <2>2, <2>3, NewTaskOK
    <3>2. r1.tasks = With(us, c.id, n) /\ r1.nProc = s.nProc /\ Table(ts)
      BY <2>5
    <3> HIDE DEF n, ts, r1
    <3>3. Table(us)
      BY <3>2, WithoutKeeps
    <3> HIDE DEF us
    <3>4. Table(With(us, c.id, n))
      BY <3>1, <3>3, WithKeeps
    <3> QED
      BY <2>5, <3>2, <3>4
  <2> HIDE DEF r1
  <2>9. CASE tasks' = r2.tasks
    <3>1. /\ DOMAIN tasks' = (DOMAIN tasks \ {id}) \cup {c.id} /\ tasks'[c.id].playout = P
          /\ \A x \in DOMAIN tasks' \ {c.id} : tasks'[x].playout = tasks[x].playout
      BY <2>7, <2>8, <2>9, StartKeeps
    <3> QED
      BY <2>2, <2>4, <3>1, PortsReplaced
  <2>10. CASE tasks' = Without(tasks, id)
    <3>1. /\ DOMAIN tasks' = DOMAIN tasks \ {id}
          /\ \A x \in DOMAIN tasks' : tasks'[x] = tasks[x]
      BY <2>10 DEF Without
    <3> QED
      BY <2>2, <2>4, <3>1, PortsReplaced
  <2> QED
    BY <2>6, <2>9, <2>10
<1>6. CASE ReloadFails(id)
  <2> DEFINE pool == Free \cup tasks[id].playout
  <2>1. id \in DOMAIN tasks /\ UNCHANGED adders
    BY <1>6 DEF ReloadFails
  <2>2. CASE tasks' = [tasks EXCEPT ![id] = Incomplete(tasks[id], tasks[id].playout)] /\ UNCHANGED inUse
    BY <2>1, <2>2, NotHanded DEF Incomplete
  <2>3. CASE /\ inUse' = Ports
             /\ tasks' = [tasks EXCEPT ![id] = Incomplete(tasks[id], pool)]
    <3>1. /\ DOMAIN tasks' = DOMAIN tasks /\ tasks'[id].playout = pool
          /\ \A x \in DOMAIN tasks \ {id} : tasks'[x] = tasks[x]
      BY <2>1, <2>3 DEF Incomplete
    <3>2. /\ pool \cap (inUse \ tasks[id].playout) = {}
          /\ inUse' = (inUse \ tasks[id].playout) \cup pool
      BY <1>a, <1>b, <2>1, <2>3 DEF Free
    <3> QED
      BY <2>1, <3>1, <3>2, PortsReplaced
  <2> QED
    BY <1>6, <2>2, <2>3 DEF ReloadFails
<1>7. CASE ReloadProcess(id)
  <2> DEFINE c == tasks[id].config
  <2> DEFINE order == tasks[id].order
  <2> DEFINE s == IF order = "start" THEN stopProcess(Desk, id) ELSE Desk
  <2> DEFINE s1(P) == [tasks |-> With(s.tasks, id, NewTask(c, P, s.tasks[id].order)),
                       nProc |-> s.nProc]
  <2> DEFINE s2(P) == IF order = "start" THEN startProcess(s1(P), id) ELSE s1(P)
  <2>1. PICK P \in Ways(c.playout, Free \cup tasks[id].playout) :
          /\ tasks' = s2(P).tasks
          /\ inUse' = (inUse \ tasks[id].playout) \cup P
    BY <1>7 DEF ReloadProcess
  <2>2. id \in DOMAIN tasks /\ UNCHANGED adders
    BY <1>7 DEF ReloadProcess
  <2>3. /\ P \in SUBSET Ports /\ P \subseteq Free \cup tasks[id].playout
        /\ Cardinality(P) = c.playout
    BY <2>2, WaysTyped DEF Free
  <2>4. P \cap (inUse \ tasks[id].playout) = {}
    BY <2>3 DEF Free
  <2>5. /\ Table(s.tasks) /\ s.nProc \in Int /\ DOMAIN s.tasks = DOMAIN tasks
        /\ \A x \in DOMAIN tasks : s.tasks[x].playout = tasks[x].playout
    BY <2>2, StopKeeps
  <2> DEFINE r1 == s1(P)
  <2> DEFINE r2 == IF order = "start" THEN startProcess(r1, id) ELSE r1
  <2>6. tasks' = r2.tasks
    BY <2>1
  <2>7. s.tasks[id].order \in Orders
    BY <2>2, <2>5 DEF Table, Task
  <2> HIDE DEF s
  <2>8. /\ DOMAIN r1.tasks = DOMAIN tasks /\ r1.tasks[id].playout = P
        /\ \A x \in DOMAIN tasks \ {id} : r1.tasks[x].playout = tasks[x].playout
    BY <2>2, <2>5 DEF With, NewTask
  <2>9. Table(r1.tasks) /\ r1.nProc \in Int
    <3> DEFINE n == NewTask(c, P, s.tasks[id].order)
    <3> DEFINE ts == s.tasks
    <3>1. n \in Task /\ TaskOK(n)
      BY <2>2, <2>3, <2>7, NewTaskOK
    <3>2. r1.tasks = With(ts, id, n) /\ r1.nProc = s.nProc /\ Table(ts)
      BY <2>5
    <3> HIDE DEF n, ts, r1
    <3>3. Table(With(ts, id, n))
      BY <3>1, <3>2, WithKeeps
    <3> QED
      BY <2>5, <3>2, <3>3
  <2> HIDE DEF r1
  <2>10. /\ DOMAIN tasks' = DOMAIN tasks /\ tasks'[id].playout = P
         /\ \A x \in DOMAIN tasks \ {id} : tasks'[x].playout = tasks[x].playout
    BY <2>2, <2>6, <2>8, <2>9, StartKeeps
  <2> QED
    BY <2>1, <2>2, <2>4, <2>10, PortsReplaced
<1> QED
  BY <1>1, <1>2, <1>3, <1>4, <1>5, <1>6, <1>7

LEMMA PortsStep == TableInv /\ PortsApart /\ [Next]_vars => PortsApart'
<1> SUFFICES ASSUME TableInv, PortsApart, [Next]_vars PROVE PortsApart'
  OBVIOUS
<1>1. CASE UNCHANGED vars
  BY <1>1 DEF vars, PortsApart
<1>2. CASE Next
  BY <1>2, PortsLife, PortsAdd, PortsRequest DEF Next
<1> QED
  BY <1>1, <1>2

\* Every port is held by one task or call at most, and handed out as long as it is.
THEOREM PortsHaveOneHolder == Spec => []PortsApart
<1>1. Init => PortsApart
  BY DEF Init, IdleAdder, PortsApart
<1>2. TableInv /\ PortsApart /\ [Next]_vars => PortsApart'
  BY PortsStep
<1> QED
  BY <1>1, <1>2, TableInit, TableStep, PTL DEF Spec

\* No two running ffmpegs use the same port, and nobody is given a port one uses.
THEOREM RunningPortsExclusive == Spec => []PlayoutPortsExclusive
<1>1. TypeOK /\ TasksOK /\ PortsApart => PlayoutPortsExclusive
  <2> SUFFICES ASSUME TasksOK, PortsApart PROVE PlayoutPortsExclusive
    OBVIOUS
  <2>1. \A id \in Running(tasks) : id \in DOMAIN tasks /\ tasks[id].command = tasks[id].playout
    BY DEF Running, TasksOK, TaskOK
  <2> QED
    BY <2>1 DEF PlayoutPortsExclusive, PortsApart
<1> QED
  BY <1>1, TypeCorrect, PortsHaveOneHolder, PTL

-----------------------------------------------------------------------------
(* The counter and the limit of running processes, and the clean up rules *)

\* The tasks ordered to run, of the table or of the store.
Ordering(ts) == {id \in DOMAIN ts : ts[id].order = "start"}

\* A desk counts its running processes; but for id, nothing that can run waits for it.
Counted(s) == s.nProc = Cardinality(Running(s.tasks))
Settled(s) == \A id \in DOMAIN s.tasks : s.tasks[id].ffmpeg = "stop" => s.tasks[id].order = "stop"
SettledBut(s, id) ==
    \A x \in DOMAIN s.tasks \ {id} : s.tasks[x].ffmpeg = "stop" => s.tasks[x].order = "stop"

LEMMA FiniteParts ==
    ASSUME NEW ts, DOMAIN ts \subseteq Ids
    PROVE  /\ IsFiniteSet(Running(ts)) /\ Cardinality(Running(ts)) \in Nat
           /\ IsFiniteSet(Ordering(ts)) /\ Cardinality(Ordering(ts)) \in Nat
<1>1. Running(ts) \in SUBSET Ids /\ Ordering(ts) \in SUBSET Ids
  BY DEF Running, Ordering
<1>2. IsFiniteSet(Running(ts)) /\ IsFiniteSet(Ordering(ts))
  BY <1>1, FS_Subset, IdsAssumption
<1> QED
  BY <1>2, FS_CardinalityType

\* startProcess counts what it starts, and starts what can run if there is room.
LEMMA StartCounts ==
    ASSUME NEW s, NEW id \in DOMAIN s.tasks, Table(s.tasks), DOMAIN s.tasks \subseteq Ids,
           Counted(s), SettledBut(s, id)
    PROVE  /\ Counted(startProcess(s, id))
           /\ SettledBut(startProcess(s, id), id)
           /\ s.tasks[id].valid /\ (MaxProc = 0 \/ s.nProc < MaxProc) =>
                 Settled(startProcess(s, id))
           /\ startProcess(s, id).nProc <= s.nProc \/ MaxProc = 0 \/ startProcess(s, id).nProc <= MaxProc
<1> DEFINE S == Running(s.tasks)
<1>a. IsFiniteSet(S) /\ s.nProc \in Int
  BY FiniteParts DEF Counted
<1>1. CASE Refused(s, id) \/ (s.tasks[id].order = "start" /\ s.tasks[id].ffmpeg = "start")
  <2>1. startProcess(s, id) = s
    BY <1>1 DEF startProcess
  <2>2. s.tasks[id].valid /\ (MaxProc = 0 \/ s.nProc < MaxProc) => ~Refused(s, id)
    BY <1>a, LimitsAssumption DEF Refused
  <2>3. s.tasks[id].valid /\ (MaxProc = 0 \/ s.nProc < MaxProc) => Settled(s)
    BY <1>1, <2>2 DEF Settled, SettledBut
  <2> QED
    BY <1>a, <2>1, <2>3
<1>2. CASE ~(Refused(s, id) \/ (s.tasks[id].order = "start" /\ s.tasks[id].ffmpeg = "start"))
  <2> DEFINE t == Ordered(s.tasks[id], "start", "start")
  <2> DEFINE r == startProcess(s, id)
  <2>1. r.tasks = [s.tasks EXCEPT ![id] = t] /\ r.nProc = s.nProc + 1
    BY <1>2 DEF startProcess
  <2>2. t.ffmpeg = "start" /\ t.order = "start"
    BY DEF Ordered
  <2>3. s.tasks[id].ffmpeg # "start"
    BY <1>2 DEF Table, TaskOK
  <2>4. MaxProc = 0 \/ s.nProc < MaxProc
    BY <1>a, <1>2, LimitsAssumption DEF Refused
  <2> HIDE DEF t, r
  <2>5. Running(r.tasks) = S \cup {id} /\ id \notin S
    BY <2>1, <2>2, <2>3 DEF Running
  <2>6. Cardinality(S \cup {id}) = Cardinality(S) + 1
    BY <1>a, <2>5, FS_AddElement
  <2>7. Counted(r)
    BY <2>1, <2>5, <2>6 DEF Counted
  <2>8. Settled(r) /\ SettledBut(r, id)
    BY <2>1, <2>2 DEF SettledBut, Settled
  <2>9. MaxProc = 0 \/ r.nProc <= MaxProc
    BY <1>a, <2>1, <2>4, LimitsAssumption
  <2> QED
    BY <2>7, <2>8, <2>9 DEF r
<1> QED
  BY <1>1, <1>2

\* stopProcess uncounts what it stops.
LEMMA StopCounts ==
    ASSUME NEW s, NEW id \in DOMAIN s.tasks, Table(s.tasks), DOMAIN s.tasks \subseteq Ids,
           Counted(s), Settled(s)
    PROVE  /\ Counted(stopProcess(s, id)) /\ Settled(stopProcess(s, id))
           /\ stopProcess(s, id).tasks[id].ffmpeg # "start"
           /\ stopProcess(s, id).nProc <= s.nProc
           /\ s.tasks[id].ffmpeg = "start" => stopProcess(s, id).nProc = s.nProc - 1
           /\ \A x \in DOMAIN s.tasks : stopProcess(s, id).tasks[x].valid = s.tasks[x].valid
           /\ stopProcess(s, id).tasks[id].order = "start" => s.tasks[id].ffmpeg = "none"
<1> DEFINE S == Running(s.tasks)
<1>a. IsFiniteSet(S) /\ s.nProc \in Int
  BY FiniteParts DEF Counted
<1>b. s.tasks[id].ffmpeg \in {"start", "stop", "none"} /\ s.tasks[id].order \in Orders
  BY DEF Table, Task, Orders
<1>1. CASE s.tasks[id].ffmpeg # "start"
  <2>1. stopProcess(s, id) = s
    BY <1>1, <1>b DEF stopProcess, Settled
  <2> QED
    BY <1>1, <1>a, <1>b, <2>1 DEF Settled
<1>2. CASE s.tasks[id].ffmpeg = "start"
  <2> DEFINE t == Ordered(s.tasks[id], "stop", "stop")
  <2> DEFINE r == stopProcess(s, id)
  <2>1. r.tasks = [s.tasks EXCEPT ![id] = t] /\ r.nProc = s.nProc - 1
    BY <1>2 DEF stopProcess
  <2>2. t.ffmpeg = "stop" /\ t.order = "stop" /\ t.valid = s.tasks[id].valid
    BY DEF Ordered
  <2> HIDE DEF t, r
  <2>3. Running(r.tasks) = S \ {id} /\ id \in S
    BY <1>2, <2>1, <2>2 DEF Running
  <2>4. Cardinality(S \ {id}) = Cardinality(S) - 1
    BY <1>a, <2>3, FS_RemoveElement
  <2>5. Counted(r)
    BY <2>1, <2>3, <2>4 DEF Counted
  <2>6. Settled(r)
    BY <2>1, <2>2 DEF Settled
  <2>7. r.tasks[id] = t /\ \A x \in DOMAIN s.tasks : r.tasks[x].valid = s.tasks[x].valid
    BY <2>1, <2>2
  <2> QED
    BY <1>2, <1>a, <2>1, <2>2, <2>5, <2>6, <2>7 DEF r
<1> QED
  BY <1>1, <1>2

\* A task that does not run may take the place of one that does not run.
LEMMA PlacedCounts ==
    ASSUME NEW s, NEW r, NEW id, NEW t, Counted(s), Settled(s), r.nProc = s.nProc,
           t.ffmpeg = "stop", r.tasks[id] = t, id \in DOMAIN r.tasks,
           DOMAIN r.tasks \ {id} \subseteq DOMAIN s.tasks,
           \A x \in DOMAIN r.tasks \ {id} : r.tasks[x] = s.tasks[x],
           \A x \in DOMAIN s.tasks \ DOMAIN r.tasks : s.tasks[x].ffmpeg # "start",
           id \in DOMAIN s.tasks => s.tasks[id].ffmpeg # "start"
    PROVE  Counted(r) /\ SettledBut(r, id) /\ (t.order = "stop" => Settled(r))
<1>1. Running(r.tasks) = Running(s.tasks)
  BY DEF Running
<1>2. Counted(r)
  BY <1>1 DEF Counted
<1>3. SettledBut(r, id)
  BY DEF SettledBut, Settled
<1>4. t.order = "stop" => Settled(r)
  BY DEF Settled
<1> QED
  BY <1>2, <1>3, <1>4

\* Several that run are stopped at once.
LEMMA Fewer ==
    ASSUME NEW S, NEW T, IsFiniteSet(S), T \subseteq S
    PROVE  /\ Cardinality(S \ T) = Cardinality(S) - Cardinality(T)
           /\ Cardinality(T) \in Nat /\ Cardinality(S) \in Nat /\ Cardinality(T) <= Cardinality(S)
<1>1. T \in SUBSET S /\ S \cap T = T
  OBVIOUS
<1>2. IsFiniteSet(T)
  BY <1>1, FS_Subset
<1>3. Cardinality(S \ T) = Cardinality(S) - Cardinality(S \cap T)
  BY FS_Difference
<1> QED
  BY <1>1, <1>2, <1>3, FS_Subset, FS_CardinalityType

\* startProcess and stopProcess leave it to others whether a task is complete.
LEMMA StartValid ==
    ASSUME NEW s, NEW id
    PROVE  \A x \in DOMAIN s.tasks : startProcess(s, id).tasks[x].valid = s.tasks[x].valid
BY DEF startProcess, Refused, Ordered

\* What was not ordered is ordered, and counted as that, when it is started.
LEMMA StartOrders ==
    ASSUME NEW s, NEW id \in DOMAIN s.tasks, DOMAIN s.tasks \subseteq Ids,
           s.tasks[id].order = "stop", s.nProc = Cardinality(Ordering(s.tasks))
    PROVE  LET r == startProcess(s, id) IN
           /\ r.nProc = Cardinality(Ordering(r.tasks))
           /\ MaxProc > 0 /\ s.nProc <= MaxProc => r.nProc <= MaxProc
<1> DEFINE S == Ordering(s.tasks)
<1> DEFINE r == startProcess(s, id)
<1>a. IsFiniteSet(S) /\ s.nProc \in Int
  BY FiniteParts
<1>1. CASE Refused(s, id)
  <2>1. r = s
    BY <1>1 DEF startProcess
  <2> QED
    BY <2>1
<1>2. CASE ~Refused(s, id)
  <2> DEFINE t == Ordered(s.tasks[id], "start", "start")
  <2>1. r.tasks = [s.tasks EXCEPT ![id] = t] /\ r.nProc = s.nProc + 1
    BY <1>2 DEF startProcess
  <2>2. t.order = "start"
    BY DEF Ordered
  <2>3. MaxProc > 0 => s.nProc < MaxProc
    BY <1>a, <1>2, LimitsAssumption DEF Refused
  <2> HIDE DEF t, r
  <2>4. Ordering(r.tasks) = S \cup {id} /\ id \notin S
    BY <2>1, <2>2 DEF Ordering
  <2>5. Cardinality(S \cup {id}) = Cardinality(S) + 1
    BY <1>a, <2>4, FS_AddElement
  <2> QED
    BY <1>a, <2>1, <2>3, <2>4, <2>5, LimitsAssumption DEF r
<1> QED
  BY <1>1, <1>2

-----------------------------------------------------------------------------
(* The limit of processes *)

BeforeStart == phase \in {"down", "loading", "loaded"}

\* Nothing has run, asked or measured before Start: the tasks load completed have an
\* ffmpeg that stands still, the others have none.
Untouched ==
    BeforeStart =>
        /\ nProc = 0 /\ ~ticked
        /\ \A a \in Adders : adders[a].pc = "idle"
        /\ \A id \in DOMAIN tasks : tasks[id].ffmpeg = IF tasks[id].valid THEN "stop" ELSE "none"

\* Where there is a limit, neither the table nor the store orders more processes to
\* run, the counter counts those of the table, and load completes every task.
Fits ==
    MaxProc > 0 =>
        /\ Cardinality(Ordering(tasks)) <= MaxProc
        /\ Cardinality(Ordering(stored)) <= MaxProc
        /\ ~BeforeStart => nProc = Cardinality(Ordering(tasks))
        /\ \A id \in DOMAIN tasks \ pending : tasks[id].valid

LimitInv ==
    /\ Untouched
    /\ phase = "started" => Settled(Desk) /\ Counted(Desk)
    /\ Fits

\* Requests come between Start and Stop, and a table with a limit has only processes
\* load can always complete: neither references nor playout ports.
Usage ==
    /\ ~Window /\ ~Again
    /\ MaxProc = 0 \/ \A c \in Configs : c.ref = NoId /\ c.playout = 0

\* A table of complete tasks none of which waits to run orders what runs.
LEMMA OrderedRun ==
    ASSUME NEW ts, Table(ts), \A id \in DOMAIN ts : ts[id].valid,
           \A id \in DOMAIN ts : ts[id].ffmpeg = "stop" => ts[id].order = "stop"
    PROVE  Ordering(ts) = Running(ts)
<1>1. \A id \in DOMAIN ts : ts[id].order = "start" <=> ts[id].ffmpeg = "start"
  <2> SUFFICES ASSUME NEW id \in DOMAIN ts
               PROVE  ts[id].order = "start" <=> ts[id].ffmpeg = "start"
    OBVIOUS
  <2>1. ts[id].ffmpeg \in {"start", "stop", "none"} /\ ts[id].ffmpeg # "none"
    BY DEF Table, Task, Orders, TaskOK
  <2> QED
    BY <2>1 DEF Table, TaskOK
<1> QED
  BY <1>1 DEF Ordering, Running

LEMMA StoreOrders ==
    ASSUME NEW ts
    PROVE  Ordering(ToStore(ts)) = Ordering(ts)
BY DEF Ordering, ToStore

\* A step of the running service that leaves the table in this state.
LEMMA RunningFrame ==
    ASSUME TableInv, LimitInv, Table(tasks'), DOMAIN tasks' \subseteq Ids, phase' = "started",
           NEW r, r.tasks = tasks', r.nProc = nProc', Settled(r), Counted(r),
           MaxProc > 0 => (\A id \in DOMAIN tasks' : tasks'[id].valid) /\ nProc' <= MaxProc,
           stored' = ToStore(tasks') \/ UNCHANGED stored
    PROVE  LimitInv'
<1>1. Settled(Desk)' /\ Counted(Desk)'
  BY DEF Settled, Counted, Desk, Running
<1>2. Untouched'
  BY DEF Untouched, BeforeStart
<1>3. ASSUME MaxProc > 0
      PROVE  nProc' = Cardinality(Ordering(tasks'))
  <2>1. Ordering(tasks') = Running(tasks')
    BY <1>3, OrderedRun DEF Settled
  <2> QED
    BY <2>1 DEF Counted
<1>4. ASSUME MaxProc > 0
      PROVE  Cardinality(Ordering(stored')) <= MaxProc
  BY <1>3, <1>4, StoreOrders DEF LimitInv, Fits
<1>5. Fits'
  BY <1>3, <1>4 DEF Fits
<1> QED
  BY <1>1, <1>2, <1>5 DEF LimitInv

LEMMA LimitInit == Init => LimitInv
<1> SUFFICES ASSUME Init PROVE LimitInv
  OBVIOUS
<1>1. DOMAIN tasks = {} /\ DOMAIN stored = {} /\ Ordering(tasks) = {} /\ Ordering(stored) = {}
  BY DEF Init, Ordering
<1>2. Untouched
  BY <1>1 DEF Init, Untouched, IdleAdder
<1>3. Fits
  BY <1>1, FS_EmptySet, LimitsAssumption DEF Init, Fits, BeforeStart
<1> QED
  BY <1>2, <1>3 DEF Init, LimitInv

\* Load, before the service runs.
LEMMA LimitLoad ==
    ASSUME TableInv, LimitInv, Usage, Load \/ (\E id \in Ids : LoadTask(id)) \/ Loaded
    PROVE  LimitInv'
<1> USE Known
<1>1. CASE Load
  <2>1. DOMAIN tasks' = DOMAIN stored /\ Ordering(tasks') = Ordering(stored)
    BY <1>1 DEF Load, Ordering
  <2>2. phase' = "loading" /\ pending' = DOMAIN tasks' /\ UNCHANGED stored
    BY <1>1, <2>1 DEF Load
  <2>3. Untouched'
    BY <1>1 DEF Load, LimitInv, Untouched, BeforeStart
  <2>4. Fits'
    BY <2>1, <2>2 DEF LimitInv, Fits, BeforeStart
  <2> QED
    BY <2>2, <2>3, <2>4 DEF LimitInv
<1>2. CASE \E id \in Ids : LoadTask(id)
  <2> PICK id \in Ids : LoadTask(id)
    BY <1>2
  <2> DEFINE c == tasks[id].config
  <2>1. /\ id \in DOMAIN tasks /\ phase = "loading" /\ phase' = "loading" /\ UNCHANGED stored
        /\ tasks[id].ffmpeg = "none" /\ pending' = pending \ {id}
        /\ UNCHANGED <<nProc, adders, ticked>>
    BY DEF LoadTask, TableInv, TypeOK, TasksOK
  <2>2. /\ DOMAIN tasks' = DOMAIN tasks /\ tasks'[id].order = tasks[id].order
        /\ \A x \in DOMAIN tasks \ {id} : tasks'[x] = tasks[x]
        /\ tasks'[id].ffmpeg = IF tasks'[id].valid THEN "stop" ELSE "none"
    BY <2>1 DEF LoadTask, Incomplete, NewTask, LimitInv, Untouched, BeforeStart
  <2>3. Ordering(tasks') = Ordering(tasks)
    BY <2>2 DEF Ordering
  <2>4. ASSUME MaxProc > 0 PROVE tasks'[id].valid
    <3>1. c.ref = NoId /\ c.playout = 0
      BY <2>1, <2>4, LimitsAssumption DEF Usage
    <3>2. {} \in Ways(c.playout, Free)
      BY <3>1, FS_EmptySet DEF Ways
    <3>3. Resolves(tasks, c)
      BY <3>1 DEF Resolves
    <3> QED
      BY <2>1, <3>2, <3>3 DEF LoadTask, NewTask
  <2>5. Untouched'
    BY <2>1, <2>2 DEF LimitInv, Untouched, BeforeStart
  <2>6. Fits'
    BY <2>1, <2>2, <2>3, <2>4 DEF LimitInv, Fits, BeforeStart
  <2> QED
    BY <2>1, <2>5, <2>6 DEF LimitInv
<1>3. CASE Loaded
  <2>1. /\ phase = "loading" /\ phase' = "loaded" /\ pending = {} /\ stored' = ToStore(tasks)
        /\ UNCHANGED <<tasks, nProc, pending, adders, ticked>>
    BY <1>3 DEF Loaded
  <2>2. Untouched'
    BY <2>1 DEF LimitInv, Untouched, BeforeStart
  <2>3. Fits'
    BY <2>1, StoreOrders DEF LimitInv, Fits, BeforeStart
  <2> QED
    BY <2>1, <2>2, <2>3 DEF LimitInv
<1> QED
  BY <1>1, <1>2, <1>3

LEMMA LimitStart ==
    ASSUME TableInv, TableInv', LimitInv, Usage, Start
    PROVE  LimitInv'
<1> USE Known
<1>1. phase = "loaded" /\ phase' = "started" /\ pending = {} /\ UNCHANGED <<stored, pending>>
  BY DEF Start, Usage, TableInv, TasksOK
<1>2. nProc = 0 /\ \A id \in DOMAIN tasks : tasks[id].ffmpeg = IF tasks[id].valid THEN "stop" ELSE "none"
  BY <1>1 DEF LimitInv, Untouched, BeforeStart
<1>3. PICK S \in SUBSET Startable :
        /\ Cardinality(S) = Room
        /\ tasks' = [id \in DOMAIN tasks |->
                        IF id \in S THEN Ordered(tasks[id], "start", "start") ELSE tasks[id]]
        /\ nProc' = nProc + Cardinality(S)
  BY DEF Start
<1>4. Startable \subseteq Ordering(tasks) /\ IsFiniteSet(Ordering(tasks))
  BY FiniteParts DEF Startable, Ordering
<1>5. /\ IsFiniteSet(Startable) /\ Cardinality(Startable) \in Nat
      /\ Cardinality(Startable) <= Cardinality(Ordering(tasks))
      /\ Cardinality(Ordering(tasks)) \in Nat
  <2>1. Startable \in SUBSET Ordering(tasks)
    BY <1>4
  <2> QED
    BY <1>4, <2>1, FS_Subset, FS_CardinalityType
<1>6. Room = Cardinality(Startable)
  BY <1>2, <1>5, LimitsAssumption DEF Room, Least, LimitInv, Fits
\* everything that can run is started
<1>7. S = Startable
  BY <1>3, <1>5, <1>6, FS_Subset
<1>8. Running(tasks') = S /\ DOMAIN tasks' = DOMAIN tasks
  BY <1>2, <1>3 DEF Running, Startable, Ordered
<1> DEFINE r == [tasks |-> tasks', nProc |-> nProc']
<1>9. Counted(r)
  BY <1>2, <1>3, <1>5, <1>7, <1>8 DEF Counted
<1>10. Settled(r)
  <2> SUFFICES ASSUME NEW id \in DOMAIN tasks, tasks'[id].ffmpeg = "stop"
               PROVE  tasks'[id].order = "stop"
    BY <1>8 DEF Settled
  <2>1. id \notin S /\ tasks'[id] = tasks[id]
    BY <1>3 DEF Ordered
  <2>2. tasks[id].valid
    BY <1>2, <2>1
  <2> QED
    BY <1>7, <2>1, <2>2 DEF Startable, Orders
<1>11. MaxProc > 0 => (\A id \in DOMAIN tasks' : tasks'[id].valid) /\ nProc' <= MaxProc
  <2> SUFFICES ASSUME MaxProc > 0
               PROVE  (\A id \in DOMAIN tasks' : tasks'[id].valid) /\ nProc' <= MaxProc
    OBVIOUS
  <2>1. \A id \in DOMAIN tasks : tasks[id].valid
    BY <1>1 DEF LimitInv, Fits
  <2>2. \A id \in DOMAIN tasks' : tasks'[id].valid
    BY <1>3, <2>1 DEF Ordered
  <2>3. nProc' = Cardinality(Startable)
    BY <1>2, <1>3, <1>5, <1>7
  <2> QED
    BY <1>5, <2>2, <2>3, LimitsAssumption DEF LimitInv, Fits
<1>12. Table(tasks') /\ DOMAIN tasks' \subseteq Ids
  BY DEF TableInv, TypeOK, TasksOK, Table
<1>13. r.tasks = tasks' /\ r.nProc = nProc'
  OBVIOUS
<1> HIDE DEF r
<1> QED
  BY <1>1, <1>9, <1>10, <1>11, <1>12, <1>13, RunningFrame

LEMMA LimitLife ==
    ASSUME TableInv, TableInv', LimitInv, Usage, Stop \/ Down \/ Tick \/ Observe
    PROVE  LimitInv'
<1> USE Known
<1>1. CASE Stop
  <2>1. /\ phase = "started" /\ phase' = "stopped" /\ UNCHANGED <<nProc, stored, pending>>
        /\ DOMAIN tasks' = DOMAIN tasks
        /\ \A id \in DOMAIN tasks : /\ tasks'[id].order = tasks[id].order
                                    /\ tasks'[id].valid = tasks[id].valid
    BY <1>1 DEF Stop, Ordered
  <2>2. Ordering(tasks') = Ordering(tasks)
    BY <2>1 DEF Ordering
  <2>3. Fits'
    BY <2>1, <2>2 DEF LimitInv, Fits, BeforeStart
  <2>4. Untouched'
    BY <2>1 DEF Untouched, BeforeStart
  <2> QED
    BY <2>1, <2>3, <2>4 DEF LimitInv
<1>2. CASE Down
  <2>1. /\ phase' = "down" /\ nProc' = 0 /\ ~ticked' /\ DOMAIN tasks' = {} /\ UNCHANGED stored
        /\ \A a \in Adders : adders'[a].pc = "idle"
    BY <1>2 DEF Down, IdleAdder
  <2>2. Ordering(tasks') = {}
    BY <2>1 DEF Ordering
  <2>3. Fits'
    BY <2>1, <2>2, FS_EmptySet, LimitsAssumption DEF LimitInv, Fits, BeforeStart
  <2>4. Untouched'
    BY <2>1 DEF Untouched, BeforeStart
  <2> QED
    BY <2>1, <2>3, <2>4 DEF LimitInv
<1>3. CASE Tick
  <2>1. phase = "started" /\ UNCHANGED <<phase, tasks, nProc, stored, pending>>
    BY <1>3 DEF Tick
  <2>2. Untouched'
    BY <2>1 DEF Untouched, BeforeStart
  <2> QED
    BY <2>1, <2>2 DEF LimitInv, Fits, BeforeStart, Settled, Counted, Desk
<1>4. CASE Observe
  <2> DEFINE S == {id \in DOMAIN tasks : /\ tasks[id].valid /\ tasks[id].config.disk
                                         /\ tasks[id].order = "start"}
  <2>1. /\ tasks' = [id \in DOMAIN tasks |->
                       IF id \in S THEN Ordered(tasks[id], "stop", "stop") ELSE tasks[id]]
        /\ nProc' = nProc - Cardinality(S)
        /\ UNCHANGED <<phase, stored, pending>> /\ ticked
    BY <1>4 DEF Observe
  <2>2. ~BeforeStart /\ ~BeforeStart'
    BY <2>1 DEF LimitInv, Untouched, BeforeStart
  <2>3. Untouched'
    BY <2>2 DEF Untouched
  <2>4. S \subseteq Ordering(tasks) /\ IsFiniteSet(Ordering(tasks)) /\ S \subseteq DOMAIN tasks
        /\ \A id \in S : tasks[id].valid
    BY FiniteParts DEF Ordering
  <2> HIDE DEF S
  <2>5. /\ DOMAIN tasks' = DOMAIN tasks
        /\ \A id \in DOMAIN tasks \ S : tasks'[id] = tasks[id]
        /\ \A id \in S : /\ tasks'[id].order = "stop" /\ tasks'[id].ffmpeg = "stop"
                         /\ tasks'[id].valid
    BY <2>1, <2>4 DEF Ordered
  <2>6. Ordering(tasks') = Ordering(tasks) \ S
    BY <2>4, <2>5 DEF Ordering
  <2>7. /\ Cardinality(Ordering(tasks')) = Cardinality(Ordering(tasks)) - Cardinality(S)
        /\ Cardinality(S) \in Nat /\ Cardinality(Ordering(tasks)) \in Nat
    BY <2>4, <2>6, Fewer
  <2>8. Fits'
    BY <2>1, <2>2, <2>5, <2>7, LimitsAssumption DEF LimitInv, Fits
  <2>9. ASSUME phase = "started"
        PROVE  Settled(Desk)' /\ Counted(Desk)'
    <3>1. S \subseteq Running(tasks)
      BY <2>4, <2>9 DEF LimitInv, Settled, Running, Ordering, Table, Task, TaskOK, Orders
    <3>2. Running(tasks') = Running(tasks) \ S
      BY <2>4, <2>5 DEF Running
    <3>3. Cardinality(Running(tasks')) = Cardinality(Running(tasks)) - Cardinality(S)
      BY <3>1, <3>2, Fewer, FiniteParts
    <3>4. Counted(Desk)'
      BY <2>1, <2>9, <3>3 DEF LimitInv, Counted, Desk
    <3>5. Settled(Desk)'
      BY <2>5, <2>9 DEF LimitInv, Settled, Desk
    <3> QED
      BY <3>4, <3>5
  <2> QED
    BY <2>1, <2>3, <2>8, <2>9 DEF LimitInv
<1> QED
  BY <1>1, <1>2, <1>3, <1>4

LEMMA LimitAdd ==
    ASSUME TableInv, TableInv', LimitInv, Usage, NEW a \in Adders,
           \/ (\E c \in Configs : AddBegin(a, c)) \/ AddPort(a) \/ AddNoPort(a) \/ AddInsert(a)
    PROVE  LimitInv'
<1> USE Known
<1>1. CASE (\E c \in Configs : AddBegin(a, c)) \/ AddPort(a) \/ AddNoPort(a)
  <2>1. UNCHANGED <<phase, tasks, nProc, stored, pending, ticked>>
    BY <1>1 DEF AddBegin, AddPort, AddNoPort
  <2>2. ~BeforeStart
    BY <1>1 DEF AddBegin, AddPort, AddNoPort, Serving, Usage, LimitInv, Untouched, BeforeStart
  <2>3. Untouched'
    BY <2>1, <2>2 DEF Untouched, BeforeStart
  <2>4. Fits'
    BY <2>1 DEF LimitInv, Fits, BeforeStart
  <2> QED
    BY <2>1, <2>3, <2>4 DEF LimitInv, Settled, Counted, Desk
<1>2. CASE AddInsert(a)
  <2> DEFINE c  == adders[a].config
  <2> DEFINE n  == NewTask(c, adders[a].ports, "stop")
  <2> DEFINE s  == [tasks |-> With(tasks, c.id, n), nProc |-> nProc]
  <2> DEFINE s1 == IF c.autostart THEN startProcess(s, c.id) ELSE s
  <2>1. /\ \/ UNCHANGED <<tasks, nProc, stored>>
           \/ /\ c.id \notin DOMAIN tasks
              /\ tasks' = s1.tasks /\ nProc' = s1.nProc /\ stored' = ToStore(s1.tasks)
        /\ UNCHANGED <<phase, pending, ticked>> /\ adders[a].pc = "insert"
    BY <1>2 DEF AddInsert
  <2>2. ~BeforeStart /\ ~BeforeStart'
    BY <2>1 DEF LimitInv, Untouched, BeforeStart
  <2>3. Untouched'
    BY <2>2 DEF Untouched
  <2>4. CASE UNCHANGED <<tasks, nProc, stored>>
    <3>1. Fits'
      BY <2>1, <2>4 DEF LimitInv, Fits, BeforeStart
    <3> QED
      BY <2>1, <2>3, <2>4, <3>1 DEF LimitInv, Settled, Counted, Desk
  <2>5. CASE /\ c.id \notin DOMAIN tasks
             /\ tasks' = s1.tasks /\ nProc' = s1.nProc /\ stored' = ToStore(s1.tasks)
    <3>1. n.ffmpeg = "stop" /\ n.order = "stop" /\ n.valid
      BY DEF NewTask
    <3>2. c \in Configs /\ c.id \in Ids /\ adders[a].ports \in SUBSET Ports
          /\ Cardinality(adders[a].ports) = c.playout
      BY <2>1, ConfigTyped DEF TableInv, TypeOK, TasksOK, Adder
    <3>3. n \in Task /\ TaskOK(n)
      BY <3>2, NewTaskOK DEF Orders
    <3> HIDE DEF n, c
    <3>4. /\ DOMAIN s.tasks = DOMAIN tasks \cup {c.id} /\ s.tasks[c.id] = n /\ s.nProc = nProc
          /\ \A x \in DOMAIN tasks : s.tasks[x] = tasks[x]
      BY <2>5 DEF With
    <3>5. Table(s.tasks) /\ c.id \in DOMAIN s.tasks /\ DOMAIN s.tasks \subseteq Ids /\ s.nProc \in Int
      <4>1. Table(With(tasks, c.id, n))
        BY <3>3, WithKeeps
      <4> QED
        BY <3>2, <3>4, <4>1
    <3> HIDE DEF s
    <3>6. /\ Table(s1.tasks) /\ DOMAIN s1.tasks = DOMAIN s.tasks
          /\ \A x \in DOMAIN s.tasks : s1.tasks[x].valid = s.tasks[x].valid
      BY <3>5, StartKeeps, StartValid
    <3>7. ASSUME phase = "started"
          PROVE  Counted(s1) /\ Settled(s1)
      <4>1. Counted(Desk) /\ Settled(Desk)
        BY <3>7 DEF LimitInv
      <4>2. Counted(s) /\ SettledBut(s, c.id) /\ Settled(s)
        BY <4>1, <3>1, <3>4, <2>5, PlacedCounts
      <4>3. CASE c.autostart
        <5>1. Counted(startProcess(s, c.id)) /\ SettledBut(startProcess(s, c.id), c.id)
          BY <3>5, <4>2, StartCounts
        <5>2. startProcess(s, c.id).tasks[c.id].ffmpeg = "stop" =>
                 startProcess(s, c.id).tasks[c.id].order = "stop"
          BY <3>1, <3>4, <3>5 DEF startProcess, Ordered
        <5> QED
          BY <4>3, <5>1, <5>2 DEF Settled, SettledBut
      <4> QED
        BY <4>2, <4>3
    <3>8. (Settled(Desk)' /\ Counted(Desk)') \/ phase # "started"
      BY <3>7, <2>5 DEF Settled, Counted, Desk, Running
    <3>9. Fits'
      <4> SUFFICES ASSUME MaxProc > 0
                   PROVE  /\ Cardinality(Ordering(tasks')) <= MaxProc
                          /\ Cardinality(Ordering(stored')) <= MaxProc
                          /\ nProc' = Cardinality(Ordering(tasks'))
                          /\ \A id \in DOMAIN tasks' \ pending' : tasks'[id].valid
        BY <2>2 DEF Fits
      <4>1. nProc = Cardinality(Ordering(tasks)) /\ nProc <= MaxProc
        BY <2>2 DEF LimitInv, Fits
      <4>2. Ordering(s.tasks) = Ordering(tasks)
        BY <3>1, <3>4, <2>5 DEF Ordering
      <4>3. s1.nProc = Cardinality(Ordering(s1.tasks)) /\ s1.nProc <= MaxProc
        BY <3>1, <3>4, <3>5, <4>1, <4>2, StartOrders
      <4>4. \A id \in DOMAIN tasks' \ pending' : tasks'[id].valid
        <5>1. \A id \in DOMAIN tasks \ pending : tasks[id].valid
          BY DEF LimitInv, Fits
        <5>2. \A id \in DOMAIN s.tasks \ pending : s.tasks[id].valid
          BY <3>1, <3>4, <5>1
        <5> QED
          BY <2>1, <2>5, <3>6, <5>2
      <4> QED
        BY <2>5, <4>3, <4>4, StoreOrders
    <3> QED
      BY <2>1, <2>3, <3>8, <3>9 DEF LimitInv
  <2> QED
    BY <2>1, <2>4, <2>5
<1> QED
  BY <1>1, <1>2

\* A task that does not run takes the place of a stopped one, and is started if it is
\* ordered to run and the process before it ran, or nothing limits the number.
LEMMA Replaced ==
    ASSUME NEW s, NEW r, NEW id, NEW t, Table(r.tasks), DOMAIN r.tasks \subseteq Ids,
           Counted(s), Settled(s), r.nProc = s.nProc,
           t.ffmpeg = "stop", t.valid, t.order \in Orders, r.tasks[id] = t, id \in DOMAIN r.tasks,
           DOMAIN r.tasks \ {id} \subseteq DOMAIN s.tasks,
           \A x \in DOMAIN r.tasks \ {id} : r.tasks[x] = s.tasks[x],
           \A x \in DOMAIN s.tasks \ DOMAIN r.tasks : s.tasks[x].ffmpeg # "start",
           id \in DOMAIN s.tasks => s.tasks[id].ffmpeg # "start",
           MaxProc > 0 => s.nProc <= MaxProc /\ (t.order = "start" => s.nProc < MaxProc),
           NEW u, u = IF t.order = "start" THEN startProcess(r, id) ELSE r
    PROVE  /\ Counted(u) /\ Settled(u)
           /\ MaxProc > 0 => u.nProc <= MaxProc
           /\ \A x \in DOMAIN r.tasks : u.tasks[x].valid = r.tasks[x].valid
           /\ DOMAIN u.tasks = DOMAIN r.tasks
<1>1. Counted(r) /\ SettledBut(r, id) /\ (t.order = "stop" => Settled(r))
  BY PlacedCounts
<1>2. CASE t.order = "stop"
  BY <1>1, <1>2
<1>3. CASE t.order = "start"
  <2>1. /\ Counted(u) /\ Settled(u)
        /\ u.nProc <= r.nProc \/ MaxProc = 0 \/ u.nProc <= MaxProc
    BY <1>1, <1>3, StartCounts, LimitsAssumption
  <2>2. r.nProc \in Int /\ u.nProc \in Int /\ DOMAIN u.tasks = DOMAIN r.tasks
    <3>1. r.nProc \in Int
      BY <1>1, FiniteParts DEF Counted
    <3> QED
      BY <1>3, <3>1, StartKeeps
  <2>3. MaxProc > 0 => u.nProc <= MaxProc
    BY <2>1, <2>2, LimitsAssumption
  <2> QED
    BY <1>3, <2>1, <2>2, <2>3, StartValid
<1> QED
  BY <1>2, <1>3 DEF Orders

LEMMA LimitRequest ==
    ASSUME TableInv, TableInv', LimitInv, Usage, NEW id \in Ids,
           \/ StartProcess(id) \/ StopProcess(id) \/ DeleteProcess(id)
           \/ (\E c \in Configs : UpdateFails(id, c)) \/ (\E c \in Configs : UpdateProcess(id, c))
           \/ ReloadFails(id) \/ ReloadProcess(id)
    PROVE  LimitInv'
<1> USE Known
<1>a. phase = "started" /\ pending = {}
  BY NothingPending DEF StartProcess, StopProcess, DeleteProcess, UpdateFails, UpdateProcess,
     ReloadFails, ReloadProcess, Request, Serving, Usage
<1>b. Counted(Desk) /\ Settled(Desk) /\ Table(Desk.tasks) /\ DOMAIN Desk.tasks \subseteq Ids
      /\ nProc \in Int
  BY <1>a DEF LimitInv
<1>c. MaxProc > 0 => (\A x \in DOMAIN tasks : tasks[x].valid) /\ nProc <= MaxProc
  BY <1>a DEF LimitInv, Fits, BeforeStart
<1>d. Table(tasks') /\ DOMAIN tasks' \subseteq Ids
  BY DEF TableInv, TypeOK, TasksOK, Table
<1>e. \A x \in DOMAIN tasks : tasks[x].ffmpeg \in {"start", "stop", "none"} /\ tasks[x].order \in Orders
                              /\ (tasks[x].valid => tasks[x].ffmpeg # "none")
                              /\ (tasks[x].ffmpeg = "start" => tasks[x].order = "start")
  BY DEF Table, Task, TaskOK, Orders
<1>1. CASE StartProcess(id)
  <2> DEFINE s == startProcess(Desk, id)
  <2>1. tasks' = s.tasks /\ nProc' = s.nProc /\ stored' = ToStore(s.tasks) /\ phase' = phase
        /\ ~Refused(Desk, id)
    BY <1>1 DEF StartProcess
  <2>2. id \in DOMAIN tasks /\ tasks[id].valid
    BY <2>1 DEF Refused
  <2>3. Counted(s) /\ SettledBut(s, id) /\ DOMAIN s.tasks = DOMAIN tasks
        /\ (s.nProc <= nProc \/ MaxProc = 0 \/ s.nProc <= MaxProc)
    BY <1>b, <2>2, StartCounts, StartKeeps DEF Settled, SettledBut
  <2>4. Settled(s)
    BY <1>b, <2>1, <2>2, <2>3 DEF startProcess, Ordered, Settled, SettledBut
  <2>5. \A x \in DOMAIN tasks : s.tasks[x].valid = tasks[x].valid
    BY StartValid
  <2>6. s.nProc \in Int
    BY <1>b, StartKeeps
  <2> HIDE DEF s
  <2>7. MaxProc > 0 => (\A x \in DOMAIN s.tasks : s.tasks[x].valid) /\ s.nProc <= MaxProc
    BY <1>b, <1>c, <2>3, <2>5, <2>6, LimitsAssumption
  <2> QED
    BY <1>a, <1>d, <2>1, <2>3, <2>4, <2>7, RunningFrame
<1>2. CASE StopProcess(id)
  <2> DEFINE s == stopProcess(Desk, id)
  <2>1. tasks' = s.tasks /\ nProc' = s.nProc /\ stored' = ToStore(s.tasks) /\ phase' = phase
        /\ id \in DOMAIN tasks
    BY <1>2 DEF StopProcess
  <2>2. /\ Counted(s) /\ Settled(s) /\ DOMAIN s.tasks = DOMAIN tasks /\ s.nProc <= nProc
        /\ s.nProc \in Int /\ \A x \in DOMAIN tasks : s.tasks[x].valid = tasks[x].valid
    BY <1>b, <2>1, StopCounts, StopKeeps
  <2> HIDE DEF s
  <2>3. MaxProc > 0 => (\A x \in DOMAIN s.tasks : s.tasks[x].valid) /\ s.nProc <= MaxProc
    BY <1>b, <1>c, <2>2, LimitsAssumption
  <2> QED
    BY <1>a, <1>d, <2>1, <2>2, <2>3, RunningFrame
<1>3. CASE DeleteProcess(id)
  <2>1. /\ id \in DOMAIN tasks /\ tasks[id].order = "stop" /\ tasks' = Without(tasks, id)
        /\ stored' = ToStore(tasks') /\ UNCHANGED <<phase, nProc>>
    BY <1>3 DEF DeleteProcess
  <2>2. DOMAIN tasks' \subseteq DOMAIN tasks /\ \A x \in DOMAIN tasks' : tasks'[x] = tasks[x]
    BY <2>1 DEF Without
  <2>3. Running(tasks') = Running(tasks)
    BY <1>e, <2>1 DEF Running, Without
  <2> DEFINE r == [tasks |-> tasks', nProc |-> nProc']
  <2>4. Counted(r) /\ Settled(r) /\ r.tasks = tasks' /\ r.nProc = nProc'
    BY <1>b, <2>1, <2>2, <2>3 DEF Counted, Settled
  <2> HIDE DEF r
  <2>5. MaxProc > 0 => (\A x \in DOMAIN tasks' : tasks'[x].valid) /\ nProc' <= MaxProc
    BY <1>c, <2>1, <2>2
  <2> QED
    BY <1>a, <1>d, <2>1, <2>4, <2>5, RunningFrame
<1>4. CASE \E c \in Configs : UpdateFails(id, c)
  <2>1. UNCHANGED <<phase, tasks, nProc, stored>>
    BY <1>4 DEF UpdateFails
  <2> QED
    BY <1>a, <1>b, <1>c, <1>d, <2>1, RunningFrame
<1>5. CASE \E c \in Configs : UpdateProcess(id, c)
  <2> PICK c \in Configs : UpdateProcess(id, c)
    BY <1>5
  <2> DEFINE order == tasks[id].order
  <2> DEFINE s == stopProcess(Desk, id)
  <2> DEFINE s1(P) == [tasks |-> With(Without(s.tasks, id), c.id, NewTask(c, P, order)),
                       nProc |-> s.nProc]
  <2> DEFINE s2(P) == IF order = "start" THEN startProcess(s1(P), c.id) ELSE s1(P)
  <2>1. PICK P \in Ways(c.playout, Free) :
           \/ /\ tasks[id].ffmpeg # "none"
              /\ tasks' = s2(P).tasks /\ nProc' = s2(P).nProc /\ stored' = ToStore(s2(P).tasks)
           \/ /\ tasks[id].ffmpeg = "none" /\ order = "stop"
              /\ tasks' = Without(tasks, id)
              /\ UNCHANGED <<nProc, stored>>
    BY DEF UpdateProcess
  <2>2. /\ id \in DOMAIN tasks /\ (c.id = id \/ c.id \notin DOMAIN tasks) /\ UNCHANGED phase
    BY DEF UpdateProcess
  <2>3. P \in SUBSET Ports /\ Cardinality(P) = c.playout /\ order \in Orders
    BY <2>2, <1>e, WaysTyped DEF Free
  <2> DEFINE n == NewTask(c, P, order)
  <2> DEFINE r == s1(P)
  <2> DEFINE u == IF order = "start" THEN startProcess(r, c.id) ELSE r
  <2>4. \/ tasks[id].ffmpeg # "none" /\ tasks' = u.tasks /\ nProc' = u.nProc /\ stored' = ToStore(u.tasks)
        \/ /\ tasks[id].ffmpeg = "none" /\ tasks' = Without(tasks, id) /\ UNCHANGED <<nProc, stored>>
    BY <2>1
  <2>5. n \in Task /\ TaskOK(n) /\ c.id \in Ids
        /\ n.ffmpeg = "stop" /\ n.valid /\ n.order = order
    <3>1. n \in Task /\ TaskOK(n) /\ c.id \in Ids
      BY <2>3, NewTaskOK, ConfigTyped
    <3>2. n.ffmpeg = "stop" /\ n.valid /\ n.order = order
      BY DEF NewTask
    <3> QED
      BY <3>1, <3>2
  <2>6. CASE tasks[id].ffmpeg # "none" /\ tasks' = u.tasks /\ nProc' = u.nProc /\ stored' = ToStore(u.tasks)
    <3>1. /\ Table(s.tasks) /\ DOMAIN s.tasks = DOMAIN tasks
          /\ Counted(s) /\ Settled(s) /\ s.tasks[id].ffmpeg # "start" /\ s.nProc <= nProc
          /\ s.nProc \in Int
          /\ \A x \in DOMAIN tasks : s.tasks[x].valid = tasks[x].valid
          /\ tasks[id].ffmpeg = "start" => s.nProc = nProc - 1
      BY <1>b, <2>2, StopCounts, StopKeeps
    <3>2. order = "start" => tasks[id].ffmpeg = "start"
      BY <1>b, <1>e, <2>2, <2>6 DEF Settled
    <3>3. MaxProc > 0 => s.nProc <= MaxProc /\ (order = "start" => s.nProc < MaxProc)
      BY <1>b, <1>c, <3>1, <3>2, LimitsAssumption
    <3> HIDE DEF s, n, order
    <3>4. /\ r.nProc = s.nProc /\ r.tasks[c.id] = n
          /\ DOMAIN r.tasks = (DOMAIN s.tasks \ {id}) \cup {c.id}
          /\ \A x \in DOMAIN r.tasks \ {c.id} : r.tasks[x] = s.tasks[x]
      BY <3>1 DEF With, Without, n
    <3>5. Table(r.tasks) /\ DOMAIN r.tasks \subseteq Ids
      <4> DEFINE ts == s.tasks
      <4> DEFINE us == Without(ts, id)
      <4>1. r.tasks = With(us, c.id, n) /\ Table(ts)
        BY <3>1 DEF n
      <4> HIDE DEF ts, r
      <4>2. Table(us)
        BY <4>1, WithoutKeeps
      <4> HIDE DEF us
      <4>3. Table(With(us, c.id, n))
        BY <2>5, <4>2, WithKeeps
      <4> QED
        BY <2>5, <3>1, <3>4, <4>1, <4>3
    <3> HIDE DEF r
    <3>6. /\ c.id \in DOMAIN r.tasks /\ DOMAIN r.tasks \ {c.id} \subseteq DOMAIN s.tasks
          /\ \A x \in DOMAIN s.tasks \ DOMAIN r.tasks : s.tasks[x].ffmpeg # "start"
          /\ c.id \in DOMAIN s.tasks => s.tasks[c.id].ffmpeg # "start"
      BY <2>2, <3>1, <3>4
    <3>7. u = IF n.order = "start" THEN startProcess(r, c.id) ELSE r
      BY <2>5
    <3> HIDE DEF u
    <3>8. /\ Counted(u) /\ Settled(u) /\ (MaxProc > 0 => u.nProc <= MaxProc)
          /\ \A x \in DOMAIN r.tasks : u.tasks[x].valid = r.tasks[x].valid
          /\ DOMAIN u.tasks = DOMAIN r.tasks
      BY <2>3, <2>5, <3>1, <3>3, <3>4, <3>5, <3>6, <3>7, Replaced
    <3>9. MaxProc > 0 => \A x \in DOMAIN u.tasks : u.tasks[x].valid
      BY <1>c, <2>5, <3>1, <3>4, <3>8
    <3> QED
      BY <1>a, <1>d, <2>2, <2>6, <3>8, <3>9, RunningFrame
  <2>7. CASE tasks[id].ffmpeg = "none" /\ tasks' = Without(tasks, id) /\ UNCHANGED <<nProc, stored>>
    <3>1. DOMAIN tasks' \subseteq DOMAIN tasks /\ \A x \in DOMAIN tasks' : tasks'[x] = tasks[x]
      BY <2>7 DEF Without
    <3>2. Running(tasks') = Running(tasks)
      BY <2>7 DEF Running, Without
    <3> DEFINE d == [tasks |-> tasks', nProc |-> nProc']
    <3>3. Counted(d) /\ Settled(d) /\ d.tasks = tasks' /\ d.nProc = nProc'
      BY <1>b, <2>7, <3>1, <3>2 DEF Counted, Settled
    <3> HIDE DEF d
    <3>4. MaxProc > 0 => (\A x \in DOMAIN tasks' : tasks'[x].valid) /\ nProc' <= MaxProc
      BY <1>c, <2>7, <3>1
    <3> QED
      BY <1>a, <1>d, <2>2, <2>7, <3>3, <3>4, RunningFrame
  <2> QED
    BY <2>4, <2>6, <2>7
<1>6. CASE ReloadFails(id)
  <2> DEFINE c == tasks[id].config
  <2> DEFINE pool == Free \cup tasks[id].playout
  <2>1. id \in DOMAIN tasks /\ UNCHANGED <<phase, nProc, stored>>
        /\ \/ ~Resolves(tasks, c) /\ tasks' = [tasks EXCEPT ![id] = Incomplete(tasks[id], tasks[id].playout)]
           \/ Ways(c.playout, pool) = {} /\ tasks' = [tasks EXCEPT ![id] = Incomplete(tasks[id], pool)]
    BY <1>6 DEF ReloadFails
  <2>2. MaxProc = 0
    <3> SUFFICES ASSUME MaxProc # 0 PROVE FALSE
      OBVIOUS
    <3>1. c.ref = NoId /\ c.playout = 0
      BY <2>1 DEF Usage
    <3>2. {} \in Ways(c.playout, pool)
      BY <3>1, FS_EmptySet DEF Ways
    <3>3. Resolves(tasks, c)
      BY <3>1 DEF Resolves
    <3> QED
      BY <2>1, <3>2, <3>3
  <2>3. /\ DOMAIN tasks' = DOMAIN tasks
        /\ \A x \in DOMAIN tasks : tasks'[x].ffmpeg = tasks[x].ffmpeg /\ tasks'[x].order = tasks[x].order
    BY <2>1 DEF Incomplete
  <2>4. Running(tasks') = Running(tasks)
    BY <2>3 DEF Running
  <2> DEFINE d == [tasks |-> tasks', nProc |-> nProc']
  <2>5. Counted(d) /\ Settled(d) /\ d.tasks = tasks' /\ d.nProc = nProc'
    BY <1>b, <2>1, <2>3, <2>4 DEF Counted, Settled
  <2> HIDE DEF d
  <2> QED
    BY <1>a, <1>d, <2>1, <2>2, <2>5, RunningFrame
<1>7. CASE ReloadProcess(id)
  <2> DEFINE c == tasks[id].config
  <2> DEFINE order == tasks[id].order
  <2> DEFINE s == IF order = "start" THEN stopProcess(Desk, id) ELSE Desk
  <2> DEFINE s1(P) == [tasks |-> With(s.tasks, id, NewTask(c, P, s.tasks[id].order)),
                       nProc |-> s.nProc]
  <2> DEFINE s2(P) == IF order = "start" THEN startProcess(s1(P), id) ELSE s1(P)
  <2>1. PICK P \in Ways(c.playout, Free \cup tasks[id].playout) :
          tasks' = s2(P).tasks /\ nProc' = s2(P).nProc /\ stored' = ToStore(s2(P).tasks)
    BY <1>7 DEF ReloadProcess
  <2>2. id \in DOMAIN tasks /\ UNCHANGED phase
    BY <1>7 DEF ReloadProcess
  <2>3. P \in SUBSET Ports /\ Cardinality(P) = c.playout /\ order \in Orders
    BY <2>2, <1>e, WaysTyped DEF Free
  <2>4. /\ Table(s.tasks) /\ DOMAIN s.tasks = DOMAIN tasks
        /\ Counted(s) /\ Settled(s) /\ s.tasks[id].ffmpeg # "start" /\ s.nProc <= nProc
        /\ s.nProc \in Int
        /\ \A x \in DOMAIN tasks : s.tasks[x].valid = tasks[x].valid
        /\ tasks[id].ffmpeg = "start" => s.nProc = nProc - 1
    <3>1. CASE order = "start"
      BY <1>b, <2>2, <3>1, StopCounts, StopKeeps
    <3>2. CASE order # "start"
      BY <1>b, <1>e, <2>2, <3>2
    <3> QED
      BY <3>1, <3>2
  <2> DEFINE o == s.tasks[id].order
  <2>5. o \in Orders /\ (o = "start" => order = "start")
    <3>1. o \in Orders
      BY <2>2, <2>4 DEF Table, Task
    <3> QED
      BY <3>1
  <2> DEFINE n == NewTask(c, P, o)
  <2> DEFINE r == s1(P)
  <2> DEFINE u == IF order = "start" THEN startProcess(r, id) ELSE r
  <2>6. tasks' = u.tasks /\ nProc' = u.nProc /\ stored' = ToStore(u.tasks)
    BY <2>1
  <2>7. n \in Task /\ TaskOK(n) /\ n.ffmpeg = "stop" /\ n.valid /\ n.order = o
    <3> HIDE DEF o
    <3>1. n \in Task /\ TaskOK(n)
      BY <2>2, <2>3, <2>5, NewTaskOK
    <3>2. n.ffmpeg = "stop" /\ n.valid /\ n.order = o
      BY DEF NewTask
    <3> QED
      BY <3>1, <3>2
  <2>8. /\ MaxProc > 0 => s.nProc <= MaxProc /\ (order = "start" => s.nProc < MaxProc)
    <3>1. MaxProc > 0 /\ order = "start" => tasks[id].ffmpeg = "start"
      BY <1>b, <1>c, <1>e, <2>2 DEF Settled
    <3> QED
      BY <1>b, <1>c, <2>4, <3>1, LimitsAssumption
  <2> HIDE DEF s, n, order, o
  <2>9. /\ r.nProc = s.nProc /\ r.tasks[id] = n /\ DOMAIN r.tasks = DOMAIN s.tasks
        /\ \A x \in DOMAIN r.tasks \ {id} : r.tasks[x] = s.tasks[x]
    BY <2>2, <2>4 DEF With, n, o
  <2>10. Table(r.tasks) /\ DOMAIN r.tasks \subseteq Ids
    <3> DEFINE ts == s.tasks
    <3>1. r.tasks = With(ts, id, n) /\ Table(ts)
      BY <2>4 DEF n, o
    <3> HIDE DEF ts, r
    <3>2. Table(With(ts, id, n))
      BY <2>7, <3>1, WithKeeps
    <3> QED
      BY <2>4, <2>9, <3>1, <3>2
  <2> HIDE DEF r
  <2>11. Counted(r) /\ SettledBut(r, id)
    BY <2>2, <2>4, <2>7, <2>9, PlacedCounts
  <2>12. Counted(u) /\ Settled(u) /\ (MaxProc > 0 => u.nProc <= MaxProc)
         /\ DOMAIN u.tasks = DOMAIN r.tasks
         /\ \A x \in DOMAIN r.tasks : u.tasks[x].valid = r.tasks[x].valid
    <3>1. CASE order = "start"
      <4>1. u = startProcess(r, id) /\ r.tasks[id].valid /\ (MaxProc = 0 \/ r.nProc < MaxProc)
        BY <3>1, <2>7, <2>8, <2>9, LimitsAssumption
      <4>2. r.nProc \in Int /\ id \in DOMAIN r.tasks
        BY <2>2, <2>4, <2>9
      <4>3. u.nProc \in Int /\ DOMAIN u.tasks = DOMAIN r.tasks
        BY <2>10, <4>1, <4>2, StartKeeps
      <4>4. Counted(u) /\ Settled(u) /\ (u.nProc <= r.nProc \/ MaxProc = 0 \/ u.nProc <= MaxProc)
        BY <2>10, <2>11, <4>1, <4>2, StartCounts
      <4>5. MaxProc > 0 => u.nProc <= MaxProc
        BY <4>1, <4>2, <4>3, <4>4, LimitsAssumption
      <4> QED
        BY <4>1, <4>3, <4>4, <4>5, StartValid
    <3>2. CASE order # "start"
      <4>1. u = r /\ o = "stop"
        BY <2>5, <3>2 DEF Orders
      <4>2. Settled(u)
        BY <2>7, <2>11, <2>9, <4>1 DEF SettledBut, Settled
      <4> QED
        BY <2>8, <2>9, <2>11, <4>1, <4>2
    <3> QED
      BY <3>1, <3>2
  <2> HIDE DEF u
  <2>13. MaxProc > 0 => \A x \in DOMAIN u.tasks : u.tasks[x].valid
    BY <1>c, <2>4, <2>7, <2>9, <2>12
  <2> QED
    BY <1>a, <1>d, <2>2, <2>6, <2>12, <2>13, RunningFrame
<1> QED
  BY <1>1, <1>2, <1>3, <1>4, <1>5, <1>6, <1>7

LEMMA LimitStep ==
    ASSUME Usage
    PROVE  TableInv /\ LimitInv /\ [Next]_vars => LimitInv'
<1> SUFFICES ASSUME TableInv, LimitInv, [Next]_vars PROVE LimitInv'
  OBVIOUS
<1>1. TableInv'
  BY TableStep
<1>2. CASE UNCHANGED vars
  BY <1>2 DEF vars, LimitInv, Untouched, BeforeStart, Fits, Settled, Counted, Desk
<1>3. CASE Next
  BY <1>1, <1>3, LimitLoad, LimitStart, LimitLife, LimitAdd, LimitRequest DEF Next
<1> QED
  BY <1>2, <1>3

\* r.nProc counts the running processes of the running service, whatever is added,
\* started, stopped, updated, reloaded and deleted, provided that requests come between
\* Start and Stop, and that nothing is limited or load can complete every task.
THEOREM CounterCounts ==
    ASSUME ~Window, ~Again, MaxProc = 0 \/ \A c \in Configs : c.ref = NoId /\ c.playout = 0
    PROVE  Spec => []CountsRunning
<1>1. Usage
  BY DEF Usage
<1>2. LimitInv => CountsRunning
  BY DEF LimitInv, CountsRunning, Counted, Desk
<1> QED
  BY <1>1, <1>2, TableInit, TableStep, LimitInit, LimitStep, PTL DEF Spec

\* Config.MaxProcesses is respected across crashes too, for processes load can always
\* complete: the store never orders more of them to run.
THEOREM LimitRespected ==
    ASSUME ~Window, ~Again, \A c \in Configs : c.ref = NoId /\ c.playout = 0
    PROVE  Spec => []MaxRespected
<1>1. Usage
  BY DEF Usage
<1>2. TypeOK /\ TasksOK /\ LimitInv => MaxRespected
  <2> SUFFICES ASSUME TypeOK, TasksOK, LimitInv, MaxProc > 0
               PROVE  Cardinality(Running(tasks)) <= MaxProc
    BY DEF MaxRespected
  <2>1. Running(tasks) \in SUBSET Ordering(tasks)
    BY DEF TasksOK, TaskOK, Running, Ordering
  <2>2. Cardinality(Running(tasks)) <= Cardinality(Ordering(tasks))
    BY <2>1, FiniteParts, FS_Subset DEF TypeOK
  <2> QED
    BY <2>2, FiniteParts, LimitsAssumption DEF TypeOK, LimitInv, Fits
<1>3. TypeOK /\ TasksOK <=> TableInv
  BY DEF TableInv
<1> QED
  BY <1>1, <1>2, <1>3, TableInit, TableStep, LimitInit, LimitStep, PTL DEF Spec

-----------------------------------------------------------------------------
(* The clean up rules *)

\* Rules in force are those of the configuration in the table; before Start and after
\* Stop they may be missing.
RulesInv ==
    /\ \A id \in Ids : rules[id] \subseteq
                          IF id \in DOMAIN tasks THEN RulesOf(tasks[id].config) ELSE {}
    /\ phase = "down" => \A id \in Ids : rules[id] = {}
    /\ RulesMatch

\* A refused start would leave the rules of a process that is not entered.
NoRulesLeft == MaxProc = 0 \/ \A c \in Configs : c.cleanup => ~c.autostart

\* Steps that change neither rules nor the configurations of the table.
LEMMA SameRules ==
    ASSUME TableInv, RulesInv, UNCHANGED rules, phase' = phase, DOMAIN tasks' = DOMAIN tasks,
           \A id \in DOMAIN tasks : tasks'[id].config = tasks[id].config
    PROVE  RulesInv'
BY DEF RulesInv, RulesMatch, TableInv, TypeOK

LEMMA RulesLife ==
    ASSUME TableInv, RulesInv,
           \/ Load \/ (\E id \in Ids : LoadTask(id)) \/ Loaded
           \/ Start \/ Stop \/ Down \/ Tick \/ Observe
    PROVE  RulesInv'
<1> USE Known
<1>1. CASE Load
  BY <1>1 DEF Load, RulesInv, RulesMatch
<1>2. CASE \E id \in Ids : LoadTask(id)
  <2> PICK id \in Ids : LoadTask(id)
    BY <1>2
  <2>1. id \in DOMAIN tasks
    BY DEF LoadTask, TableInv, TypeOK
  <2>2. /\ UNCHANGED <<rules, phase>> /\ DOMAIN tasks' = DOMAIN tasks
        /\ \A x \in DOMAIN tasks : tasks'[x].config = tasks[x].config
    BY <2>1 DEF LoadTask, Incomplete, NewTask
  <2> QED
    BY <2>2, SameRules
<1>3. CASE Loaded
  BY <1>3 DEF Loaded, RulesInv, RulesMatch
<1>4. CASE Start
  <2>1. /\ DOMAIN tasks' = DOMAIN tasks /\ phase' = "started"
        /\ \A x \in DOMAIN tasks : tasks'[x].config = tasks[x].config
        /\ rules' = [id \in Ids |-> IF id \in DOMAIN tasks
                                    THEN rules[id] \cup RulesOf(tasks[id].config) ELSE rules[id]]
    BY <1>4 DEF Start, Ordered
  <2>2. \A id \in Ids : rules'[id] = IF id \in DOMAIN tasks' THEN RulesOf(tasks'[id].config) ELSE {}
    BY <2>1 DEF RulesInv
  <2> QED
    BY <2>1, <2>2 DEF RulesInv, RulesMatch
<1>5. CASE Stop
  BY <1>5 DEF Stop, RulesInv, RulesMatch
<1>6. CASE Down
  BY <1>6 DEF Down, NoRules, RulesInv, RulesMatch
<1>7. CASE Tick
  BY <1>7, SameRules DEF Tick
<1>8. CASE Observe
  BY <1>8, SameRules DEF Observe, Ordered
<1> QED
  BY <1>1, <1>2, <1>3, <1>4, <1>5, <1>6, <1>7, <1>8

\* The rules of the ids in the table, for a step of requests.
LEMMA RulesFrame ==
    ASSUME phase' = phase, phase # "down",
           \A id \in Ids : rules'[id] \subseteq
                              IF id \in DOMAIN tasks' THEN RulesOf(tasks'[id].config) ELSE {},
           phase = "started" =>
              \A id \in Ids : rules'[id] = IF id \in DOMAIN tasks' THEN RulesOf(tasks'[id].config) ELSE {}
    PROVE  RulesInv'
BY DEF RulesInv, RulesMatch

LEMMA RulesAdd ==
    ASSUME TableInv, RulesInv, NoRulesLeft, phase = "down" => \A b \in Adders : adders[b].pc = "idle",
           NEW a \in Adders,
           \/ (\E c \in Configs : AddBegin(a, c)) \/ AddPort(a) \/ AddNoPort(a) \/ AddInsert(a)
    PROVE  RulesInv'
<1> USE Known
<1>1. CASE (\E c \in Configs : AddBegin(a, c)) \/ AddPort(a) \/ AddNoPort(a)
  BY <1>1, SameRules DEF AddBegin, AddPort, AddNoPort
<1>2. CASE AddInsert(a)
  <2> DEFINE c  == adders[a].config
  <2> DEFINE n  == NewTask(c, adders[a].ports, "stop")
  <2> DEFINE s  == [tasks |-> With(tasks, c.id, n), nProc |-> nProc]
  <2> DEFINE s1 == IF c.autostart THEN startProcess(s, c.id) ELSE s
  <2>0. phase # "down" /\ phase' = phase
    BY <1>2 DEF AddInsert
  <2>1. \/ /\ c.id \in DOMAIN tasks /\ UNCHANGED <<tasks, rules>>
        \/ /\ c.id \notin DOMAIN tasks /\ c.autostart /\ Refused(s, c.id) /\ UNCHANGED tasks
           /\ rules' = [rules EXCEPT ![c.id] = rules[c.id] \cup RulesOf(c)]
        \/ /\ c.id \notin DOMAIN tasks /\ tasks' = s1.tasks
           /\ rules' = [rules EXCEPT ![c.id] = rules[c.id] \cup RulesOf(c)]
    BY <1>2 DEF AddInsert
  <2>2. c \in Configs /\ c.id \in Ids /\ rules \in [Ids -> SUBSET Configs]
    BY <1>2, ConfigTyped DEF TableInv, TypeOK, Adder
  <2>3. /\ DOMAIN s.tasks = DOMAIN tasks \cup {c.id} /\ s.tasks[c.id] = n /\ s.nProc = nProc
        /\ \A x \in DOMAIN tasks \ {c.id} : s.tasks[x] = tasks[x]
    BY DEF With
  <2>4. n.config = c /\ n.valid /\ n.order = "stop"
    BY DEF NewTask
  <2>5. CASE c.id \in DOMAIN tasks /\ UNCHANGED <<tasks, rules>>
    BY <2>0, <2>5, SameRules
  <2>6. CASE /\ c.id \notin DOMAIN tasks /\ c.autostart /\ Refused(s, c.id) /\ UNCHANGED tasks
             /\ rules' = [rules EXCEPT ![c.id] = rules[c.id] \cup RulesOf(c)]
    \* a start is refused for the limit only
    <3>1. MaxProc # 0
      BY <2>3, <2>4, <2>6, LimitsAssumption DEF Refused
    <3>2. RulesOf(c) = {}
      BY <2>2, <2>6, <3>1 DEF NoRulesLeft, RulesOf
    <3>3. rules' = rules
      BY <2>2, <2>6, <3>2
    <3> QED
      BY <2>0, <2>6, <3>3, SameRules
  <2>7. CASE /\ c.id \notin DOMAIN tasks /\ tasks' = s1.tasks
             /\ rules' = [rules EXCEPT ![c.id] = rules[c.id] \cup RulesOf(c)]
    <3>1. Table(s.tasks) /\ s.nProc \in Int
      <4>1. n \in Task /\ TaskOK(n)
        <5>1. Cardinality(adders[a].ports) = c.playout /\ adders[a].ports \in SUBSET Ports
          BY <1>2 DEF AddInsert, TableInv, TypeOK, TasksOK, Adder
        <5> QED
          BY <2>2, <5>1, NewTaskOK DEF Orders
      <4> HIDE DEF n, c
      <4>2. Table(With(tasks, c.id, n))
        BY <4>1, WithKeeps
      <4> QED
        BY <4>2
    <3> HIDE DEF s, n
    <3>2. /\ DOMAIN s1.tasks = DOMAIN s.tasks
          /\ \A x \in DOMAIN s.tasks : s1.tasks[x].config = s.tasks[x].config
      BY <3>1, StartKeeps
    <3> HIDE DEF s1, c
    <3>3. /\ DOMAIN tasks' = DOMAIN tasks \cup {c.id} /\ tasks'[c.id].config = c
          /\ \A x \in DOMAIN tasks : tasks'[x].config = tasks[x].config
      BY <2>3, <2>4, <2>7, <3>2
    <3>4. rules[c.id] = {} /\ rules'[c.id] = RulesOf(c) /\ \A x \in Ids \ {c.id} : rules'[x] = rules[x]
      BY <2>2, <2>7 DEF RulesInv
    <3>5. \A id \in Ids : rules'[id] \subseteq
                              IF id \in DOMAIN tasks' THEN RulesOf(tasks'[id].config) ELSE {}
      BY <3>3, <3>4 DEF RulesInv
    <3>6. phase = "started" =>
              \A id \in Ids : rules'[id] = IF id \in DOMAIN tasks' THEN RulesOf(tasks'[id].config) ELSE {}
      BY <3>3, <3>4 DEF RulesInv, RulesMatch
    <3> QED
      BY <2>0, <3>5, <3>6, RulesFrame
  <2> QED
    BY <2>1, <2>5, <2>6, <2>7
<1> QED
  BY <1>1, <1>2

LEMMA RulesRequest ==
    ASSUME TableInv, RulesInv, NEW id \in Ids,
           \/ StartProcess(id) \/ StopProcess(id) \/ DeleteProcess(id)
           \/ (\E c \in Configs : UpdateFails(id, c)) \/ (\E c \in Configs : UpdateProcess(id, c))
           \/ ReloadFails(id) \/ ReloadProcess(id)
    PROVE  RulesInv'
<1> USE Known
<1>a. rules \in [Ids -> SUBSET Configs]
  BY DEF TableInv, TypeOK
<1>1. CASE StartProcess(id)
  BY <1>1, StartKeeps, SameRules DEF StartProcess
<1>2. CASE StopProcess(id)
  BY <1>2, StopKeeps, SameRules DEF StopProcess
<1>3. CASE DeleteProcess(id)
  <2>1. /\ DOMAIN tasks' = DOMAIN tasks \ {id} /\ \A x \in DOMAIN tasks' : tasks'[x] = tasks[x]
        /\ rules'[id] = {} /\ \A x \in Ids \ {id} : rules'[x] = rules[x]
        /\ phase' = phase /\ phase # "down"
    BY <1>3, <1>a DEF DeleteProcess, Without, Request, Serving
  <2> QED
    BY <2>1, RulesFrame DEF RulesInv, RulesMatch
<1>4. CASE \E c \in Configs : UpdateFails(id, c)
  BY <1>4, SameRules DEF UpdateFails
<1>5. CASE \E c \in Configs : UpdateProcess(id, c)
  <2> PICK c \in Configs : UpdateProcess(id, c)
    BY <1>5
  <2> DEFINE order == tasks[id].order
  <2> DEFINE s == stopProcess(Desk, id)
  <2> DEFINE s1(P) == [tasks |-> With(Without(s.tasks, id), c.id, NewTask(c, P, order)),
                       nProc |-> s.nProc]
  <2> DEFINE s2(P) == IF order = "start" THEN startProcess(s1(P), c.id) ELSE s1(P)
  <2>1. PICK P \in Ways(c.playout, Free) :
           \/ /\ tasks' = s2(P).tasks
              /\ rules' = [x \in Ids |->
                    (IF x = id THEN {} ELSE rules[x]) \cup (IF x = c.id THEN RulesOf(c) ELSE {})]
           \/ tasks' = Without(tasks, id) /\ rules' = [rules EXCEPT ![id] = {}]
    BY DEF UpdateProcess
  <2>2. /\ id \in DOMAIN tasks /\ (c.id = id \/ c.id \notin DOMAIN tasks)
        /\ phase' = phase /\ phase # "down" /\ c.id \in Ids
    BY ConfigTyped DEF UpdateProcess, Request, Serving
  <2>3. P \in SUBSET Ports /\ Cardinality(P) = c.playout
    BY WaysTyped DEF Free
  <2>4. CASE /\ tasks' = s2(P).tasks
             /\ rules' = [x \in Ids |->
                    (IF x = id THEN {} ELSE rules[x]) \cup (IF x = c.id THEN RulesOf(c) ELSE {})]
    <3> DEFINE n == NewTask(c, P, order)
    <3> DEFINE r == s1(P)
    <3> DEFINE u == IF order = "start" THEN startProcess(r, c.id) ELSE r
    <3>1. /\ Table(s.tasks) /\ DOMAIN s.tasks = DOMAIN tasks /\ s.nProc \in Int
          /\ \A x \in DOMAIN tasks : s.tasks[x].config = tasks[x].config
      BY <2>2, StopKeeps
    <3>2. n \in Task /\ TaskOK(n) /\ n.config = c
      BY <2>2, <2>3, NewTaskOK
    <3>3. tasks' = u.tasks
      BY <2>4
    <3> HIDE DEF s, n, order
    <3>4. /\ r.nProc = s.nProc /\ r.tasks[c.id] = n
          /\ DOMAIN r.tasks = (DOMAIN s.tasks \ {id}) \cup {c.id}
          /\ \A x \in DOMAIN r.tasks \ {c.id} : r.tasks[x] = s.tasks[x]
      BY <3>1 DEF With, Without, n
    <3>5. Table(r.tasks)
      <4> DEFINE ts == s.tasks
      <4> DEFINE us == Without(ts, id)
      <4>1. r.tasks = With(us, c.id, n) /\ Table(ts)
        BY <3>1 DEF n
      <4> HIDE DEF ts, r
      <4>2. Table(us)
        BY <4>1, WithoutKeeps
      <4> HIDE DEF us
      <4>3. Table(With(us, c.id, n))
        BY <3>2, <4>2, WithKeeps
      <4> QED
        BY <4>1, <4>3
    <3> HIDE DEF r
    <3>6. /\ DOMAIN u.tasks = DOMAIN r.tasks
          /\ \A x \in DOMAIN r.tasks : u.tasks[x].config = r.tasks[x].config
      BY <3>1, <3>4, <3>5, StartKeeps
    <3> HIDE DEF u
    <3>7. /\ DOMAIN tasks' = (DOMAIN tasks \ {id}) \cup {c.id} /\ tasks'[c.id].config = c
          /\ \A x \in DOMAIN tasks' \ {c.id} : tasks'[x].config = tasks[x].config
      BY <3>1, <3>2, <3>3, <3>4, <3>6
    <3>8. c.id # id => rules[c.id] = {}
      BY <2>2 DEF RulesInv
    <3>9. /\ rules'[c.id] = RulesOf(c) /\ (c.id # id => rules'[id] = {})
          /\ \A x \in Ids \ {id, c.id} : rules'[x] = rules[x]
      BY <2>2, <2>4, <3>8
    <3>10. \A x \in Ids : rules'[x] \subseteq
                              IF x \in DOMAIN tasks' THEN RulesOf(tasks'[x].config) ELSE {}
      BY <3>7, <3>9 DEF RulesInv
    <3>11. phase = "started" =>
              \A x \in Ids : rules'[x] = IF x \in DOMAIN tasks' THEN RulesOf(tasks'[x].config) ELSE {}
      BY <3>7, <3>9 DEF RulesInv, RulesMatch
    <3> QED
      BY <2>2, <3>10, <3>11, RulesFrame
  <2>5. CASE tasks' = Without(tasks, id) /\ rules' = [rules EXCEPT ![id] = {}]
    <3>1. /\ DOMAIN tasks' = DOMAIN tasks \ {id} /\ \A x \in DOMAIN tasks' : tasks'[x] = tasks[x]
          /\ rules'[id] = {} /\ \A x \in Ids \ {id} : rules'[x] = rules[x]
      BY <1>a, <2>5 DEF Without
    <3> QED
      BY <2>2, <3>1, RulesFrame DEF RulesInv, RulesMatch
  <2> QED
    BY <2>1, <2>4, <2>5
<1>6. CASE ReloadFails(id)
  <2>1. /\ UNCHANGED <<rules, phase>> /\ DOMAIN tasks' = DOMAIN tasks
        /\ \A x \in DOMAIN tasks : tasks'[x].config = tasks[x].config
    BY <1>6 DEF ReloadFails, Incomplete
  <2> QED
    BY <2>1, SameRules
<1>7. CASE ReloadProcess(id)
  <2> DEFINE c == tasks[id].config
  <2> DEFINE order == tasks[id].order
  <2> DEFINE s == IF order = "start" THEN stopProcess(Desk, id) ELSE Desk
  <2> DEFINE s1(P) == [tasks |-> With(s.tasks, id, NewTask(c, P, s.tasks[id].order)),
                       nProc |-> s.nProc]
  <2> DEFINE s2(P) == IF order = "start" THEN startProcess(s1(P), id) ELSE s1(P)
  <2>1. PICK P \in Ways(c.playout, Free \cup tasks[id].playout) : tasks' = s2(P).tasks
    BY <1>7 DEF ReloadProcess
  <2>2. id \in DOMAIN tasks /\ UNCHANGED <<rules, phase>>
    BY <1>7 DEF ReloadProcess
  <2>3. P \in SUBSET Ports /\ Cardinality(P) = c.playout
    BY <2>2, WaysTyped DEF Free
  <2>4. /\ Table(s.tasks) /\ DOMAIN s.tasks = DOMAIN tasks /\ s.nProc \in Int
        /\ \A x \in DOMAIN tasks : s.tasks[x].config = tasks[x].config
    BY <2>2, StopKeeps
  <2>5. s.tasks[id].order \in Orders
    BY <2>2, <2>4 DEF Table, Task
  <2> DEFINE n == NewTask(c, P, s.tasks[id].order)
  <2> DEFINE r == s1(P)
  <2> DEFINE u == IF order = "start" THEN startProcess(r, id) ELSE r
  <2>6. n \in Task /\ TaskOK(n) /\ n.config = c
    BY <2>2, <2>3, <2>5, NewTaskOK
  <2>7. tasks' = u.tasks
    BY <2>1
  <2> HIDE DEF s, n, order
  <2>8. /\ r.nProc = s.nProc /\ r.tasks[id] = n /\ DOMAIN r.tasks = DOMAIN s.tasks
        /\ \A x \in DOMAIN r.tasks \ {id} : r.tasks[x] = s.tasks[x]
    BY <2>2, <2>4 DEF With, n
  <2>9. Table(r.tasks)
    <3> DEFINE ts == s.tasks
    <3>1. r.tasks = With(ts, id, n) /\ Table(ts)
      BY <2>4 DEF n
    <3> HIDE DEF ts, r
    <3>2. Table(With(ts, id, n))
      BY <2>6, <3>1, WithKeeps
    <3> QED
      BY <3>1, <3>2
  <2> HIDE DEF r
  <2>10. /\ DOMAIN u.tasks = DOMAIN r.tasks
         /\ \A x \in DOMAIN r.tasks : u.tasks[x].config = r.tasks[x].config
    BY <2>4, <2>8, <2>9, StartKeeps
  <2> HIDE DEF u
  <2>11. /\ DOMAIN tasks' = DOMAIN tasks
         /\ \A x \in DOMAIN tasks : tasks'[x].config = tasks[x].config
    BY <2>4, <2>6, <2>7, <2>8, <2>10
  <2> QED
    BY <2>2, <2>11, SameRules
<1> QED
  BY <1>1, <1>2, <1>3, <1>4, <1>5, <1>6, <1>7

\* AddProcess is called at an instance of the service.
CallsOfInstance == phase = "down" => \A a \in Adders : adders[a].pc = "idle"

LEMMA CallsStep == TableInv /\ CallsOfInstance /\ [Next]_vars => CallsOfInstance'
<1> SUFFICES ASSUME TableInv, CallsOfInstance, [Next]_vars, phase' = "down"
             PROVE  \A a \in Adders : adders'[a].pc = "idle"
  BY DEF CallsOfInstance
<1>1. CASE Down
  BY <1>1 DEF Down, IdleAdder
<1>2. CASE ~Down
  <2>1. phase = "down"
    BY <1>2 DEF Next, vars, Load, LoadTask, Loaded, Start, Stop, Tick, Observe, AddBegin, AddPort,
       AddNoPort, AddInsert, StartProcess, StopProcess, DeleteProcess, UpdateFails,
       UpdateProcess, ReloadFails, ReloadProcess
  <2>2. \A a \in Adders : adders[a].pc = "idle"
    BY <2>1 DEF CallsOfInstance
  <2>3. UNCHANGED adders
    BY <1>2, <2>1, <2>2 DEF Next, vars, Load, LoadTask, Loaded, Start, Stop, Tick, Observe, AddBegin,
       AddPort, AddNoPort, AddInsert, StartProcess, StopProcess, DeleteProcess, UpdateFails,
       UpdateProcess, ReloadFails, ReloadProcess, Serving
  <2> QED
    BY <2>2, <2>3
<1> QED
  BY <1>1, <1>2

LEMMA RulesStep ==
    ASSUME NoRulesLeft
    PROVE  TableInv /\ CallsOfInstance /\ RulesInv /\ [Next]_vars => RulesInv'
<1> SUFFICES ASSUME TableInv, CallsOfInstance, RulesInv, [Next]_vars PROVE RulesInv'
  OBVIOUS
<1>1. CASE UNCHANGED vars
  BY <1>1 DEF vars, RulesInv, RulesMatch
<1>2. CASE Next
  BY <1>2, RulesLife, RulesAdd, RulesRequest DEF Next, CallsOfInstance
<1> QED
  BY <1>1, <1>2

\* The clean up rules in force are those of the processes of the table, through crashes
\* and starts, with requests at any time; if the limit can refuse the start of a new
\* process, only as long as those with rules are not started by AddProcess.
THEOREM RulesFollowTable ==
    ASSUME MaxProc = 0 \/ \A c \in Configs : c.cleanup => ~c.autostart
    PROVE  Spec => []RulesMatch
<1>1. NoRulesLeft
  BY DEF NoRulesLeft
<1>2. Init => CallsOfInstance /\ RulesInv
  BY DEF Init, CallsOfInstance, IdleAdder, NoRules, RulesInv, RulesMatch
<1>3. RulesInv => RulesMatch
  BY DEF RulesInv
<1> QED
  BY <1>1, <1>2, <1>3, TableInit, TableStep, CallsStep, RulesStep, PTL DEF Spec
=============================================================================
