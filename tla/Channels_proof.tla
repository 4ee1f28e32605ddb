---------------------------- MODULE Channels_proof ----------------------------
(* Theorems about Channels, for every number of windows, jobs, channels,
   publications and failing calls: recordings are removed only of channels that do
   not record, and a job that is over has achieved what it was for.

   RecordingsAtRest rests on StillRest, what a removal has seen of the channels it
   waits for. JobsComeTrue rests on PageFits and RemovalFits, what a job on its way
   still has to do: of each process it is for, the call that makes it so is to come,
   and is the last it makes for it, or was made and is undone by none to come. *)
EXTENDS Channels, FiniteSetTheorems, SequenceTheorems, TLAPS

-----------------------------------------------------------------------------
(* The invariant *)

\* The tables of the windows
Entries == [egresses : SUBSET Egresses, available : BOOLEAN]
IsTable(table) == DOMAIN table \subseteq Channels /\ table \in [DOMAIN table -> Entries]
WindowFits(window) ==
    /\ DOMAIN window = {"open", "table", "selected", "onConnect", "jobs"}
    /\ window.open => IsTable(window.table) /\ window.selected \in DOMAIN window.table

\* The fields of a job, and the calls of a page
Fields == {"type", "step", "channel", "egress", "calls", "number", "channels", "left", "stopped",
           "tries", "listed", "others", "failed"}
Ids(c) == {Ingest(c), Snapshot(c), Preview(c)} \cup { Egress(c, e) : e \in Egresses \cup {""} }
CallsFor(c) == [do : {"start", "stop", "delete", "upsert", "stopall"}, id : Ids(c)]

\* A call is to come and is the last for its process; there is none to come.
Coming(calls, call) ==
    \E i \in DOMAIN calls : /\ calls[i] = call
                            /\ \A k \in DOMAIN calls : k > i => calls[k].id # call.id
Gone(calls, call) == \A k \in DOMAIN calls : calls[k].id # call.id
\* The publications of a channel are to be stopped.
AllComing(calls, call) == call.id[1] = "egress" /\ \E i \in DOMAIN calls : calls[i].do = "stopall"
OnWay(calls, call) == Coming(calls, call) \/ AllComing(calls, call) \/ (Gone(calls, call) /\ Reached(call))

\* The call without which the others of a job are not made
Needed(j) ==
    CASE j.type = "edit" -> Stop(Ingest(j.channel))
      [] j.type = "restart egress" -> Stop(Egress(j.channel, j.egress))
      [] j.type \in {"save", "wizard"} -> Upsert(Ingest(j.channel))
Needing == {"edit", "restart egress", "save", "wizard"}
CallsFit(j, calls) ==
    /\ calls \in Seq(CallsFor(j.channel))
    /\ \A i \in DOMAIN calls :
          ~Persists(j.type, calls[i]) => i = Len(calls) \/ (j.type \in Needing /\ calls[i] = Needed(j))
    /\ \A i \in DOMAIN calls :
          calls[i].do = "stopall" =>
              /\ j.type \in {"disconnect", "reconnect"}
              /\ \A k \in DOMAIN calls : k # i => calls[k].id[1] # "egress" /\ calls[k].do # "stopall"

\* A job of a page: once it is under way, what it promises is on its way.
PageTypes == {"connect", "disconnect", "reconnect", "refresh", "delete", "save", "wizard", "edit",
              "publish", "update", "unpublish", "start egress", "stop egress", "restart egress",
              "reconnect egress"}
PageFits(j, table) ==
    /\ j.type \in PageTypes /\ CallsFit(j, j.calls)
    /\ j.calls = <<>> => j.step \in {"timer", "done"}
    /\ j.calls # <<>> => /\ j.step \in {"calls", "skip"}
                         /\ Head(j.calls).do = "stopall" => j.step = "skip" /\ There(j, table) = {}
    /\ j.step = "timer" => j.type = "refresh"
    /\ j.step # "timer" =>
          \A call \in Promised(j, table) \ j.failed : call.id \notin j.others => OnWay(j.calls, call)

\* A removal: what was stopped is to be started again.
RemovalFits(j) ==
    /\ j.type = "purge" /\ j.step \notin {"timer", "calls", "skip"}
    /\ j.step = "done" => j.left = {}
    /\ j.step \in {"restart", "done"} =>
          \A d \in j.stopped : Ingest(d) \notin j.others /\ Start(Ingest(d)) \notin j.failed =>
              d \in j.left \/ Reached(Start(Ingest(d)))

\* The channels of a removal the window may take for stopped: those it waited for,
\* and, when it has asked the manager, all it stopped.
Counted(j, c) ==
    /\ j.type = "purge" /\ c \in j.stopped
    /\ j.step = "answer" \/ (j.step = "wait" /\ c \notin j.left)
    /\ Ingest(c) \notin j.others /\ Stop(Ingest(c)) \notin j.failed
\* Nobody but the window itself has touched them, so they still do not run.
StillRest(j) == \A c : Counted(j, c) /\ Has(Ingest(c)) => ~process[Ingest(c)].running

JobFits(j, window) ==
    j # NoJob => /\ window.open /\ DOMAIN j = Fields
                 /\ PageFits(j, window.table) \/ RemovalFits(j)
                 /\ StillRest(j)

Inv ==
    /\ windows = [w \in Windows |-> windows[w]] /\ \A w \in Windows : WindowFits(windows[w])
    /\ job = [t \in Tasks |-> job[t]] /\ \A t \in Tasks : JobFits(job[t], windows[t[1]])

-----------------------------------------------------------------------------
(* Processes and calls *)

Dos == {"start", "stop", "delete", "upsert"}

LEMMA IdsApart ==
    ASSUME NEW c, NEW e
    PROVE  /\ Ingest(c)[1] = "ingest" /\ Snapshot(c)[1] = "snapshot"
           /\ Preview(c)[1] = "h264" /\ Egress(c, e)[1] = "egress"
           /\ Egress(c, e)[3] = e /\ Egress(c, e)[2] = c /\ Ingest(c)[2] = c
           /\ Snapshot(c)[2] = c /\ Preview(c)[2] = c
BY DEF Ingest, Snapshot, Preview, Egress

\* A step changes these processes only; others may end.
Untouched(ids) ==
    \A id : id \notin ids =>
        /\ Has(id)' <=> Has(id)
        /\ Has(id) => /\ process'[id].order = process[id].order
                      /\ ~process[id].running => ~process'[id].running

LEMMA QuietUntouched ==
    ASSUME process' = process, NEW ids PROVE Untouched(ids)
BY DEF Untouched, Has, Processes

LEMMA CallUntouched ==
    ASSUME NEW call, NEW ids, call.id \in ids, process' = process \/ process' = CoreAfter(call)
    PROVE  Untouched(ids)
<1>1. CASE process' = process
  BY <1>1, QuietUntouched
<1>2. CASE process' = CoreAfter(call) /\ call.do = "delete"
  BY <1>2 DEF CoreAfter, Restrict, Processes, Untouched, Has
<1>3. CASE process' = CoreAfter(call) /\ call.do # "delete"
  <2>1. CoreAfter(call) = process \/ \E order, running : CoreAfter(call) = With(call.id, order, running)
    BY <1>3 DEF CoreAfter
  <2>2. CASE CoreAfter(call) = process
    BY <1>3, <2>2, QuietUntouched
  <2>3. CASE \E order, running : CoreAfter(call) = With(call.id, order, running)
    BY <1>3, <2>3 DEF With, Processes, Untouched, Has
  <2> QED
    BY <2>1, <2>2, <2>3
<1> QED
  BY <1>1, <1>2, <1>3

LEMMA EndUntouched ==
    ASSUME NEW id \in Processes, Ends(id) PROVE Untouched({})
<1>1. process' = With(id, "stop", FALSE) /\ process[id].order = "stop"
  BY DEF Ends
<1>2. \A p : /\ p \in DOMAIN process' <=> p \in DOMAIN process
             /\ p \in DOMAIN process => process'[p].order = process[p].order
             /\ p \in DOMAIN process => process'[p].running = FALSE \/ process'[p] = process[p]
  BY <1>1 DEF With, Processes
<1> QED
  BY <1>2 DEF Untouched, Has, Processes

LEMMA ReachedStays ==
    ASSUME NEW ids, Untouched(ids), NEW call, call.do \in Dos, call.id \notin ids
    PROVE  Reached(call)' <=> Reached(call)
<1>1. /\ Has(call.id)' <=> Has(call.id)
      /\ Has(call.id) => process'[call.id].order = process[call.id].order
  BY DEF Untouched
<1>2. Runs(call.id)' <=> Runs(call.id)
  BY <1>1 DEF Runs
<1> QED
  BY <1>1, <1>2 DEF Reached, Dos

LEMMA CallReaches ==
    ASSUME NEW call, call.do \in Dos, NEW outcome, Answer(call, outcome), process' = CoreAfter(call)
    PROVE  Reached(call)'
<1>1. CASE call.do = "delete"
  BY <1>1 DEF CoreAfter, Restrict, Processes, Reached, Has
<1>2. CASE call.do = "start"
  <2>1. call.id \in Processes
    BY <1>2 DEF Answer
  <2>2. process' = With(call.id, "start", TRUE)
    BY <1>2, <2>1 DEF CoreAfter
  <2>3. call.id \in DOMAIN process' /\ process'[call.id].order = "start"
    BY <2>2 DEF With
  <2> QED
    BY <1>2, <2>3 DEF Processes, Reached, Runs, Has
<1>3. CASE call.do = "stop"
  <2>1. call.id \in Processes
    BY <1>3 DEF Answer
  <2>2. process' = With(call.id, "stop", process[call.id].running)
    BY <1>3, <2>1 DEF CoreAfter
  <2>3. call.id \in DOMAIN process' /\ process'[call.id].order = "stop"
    BY <2>2 DEF With
  <2> QED
    BY <1>3, <2>3 DEF Processes, Reached, Runs, Has
<1>4. CASE call.do = "upsert"
  <2>1. \E order, running : process' = With(call.id, order, running)
    BY <1>4 DEF CoreAfter
  <2>2. call.id \in DOMAIN process'
    BY <2>1 DEF With
  <2> QED
    BY <1>4, <2>2 DEF Processes, Reached, Has
<1> QED
  BY <1>1, <1>2, <1>3, <1>4 DEF Dos

-----------------------------------------------------------------------------
(* What a job promises *)

\* A job that is the same up to what touched it, what failed, and how far it is
Same(k, j) == /\ k.type = j.type /\ k.channel = j.channel /\ k.egress = j.egress
              /\ k.listed = j.listed /\ k.stopped = j.stopped

LEMMA PromisedCalls ==
    ASSUME NEW j, NEW table, NEW call \in Promised(j, table), j.type \in PageTypes
    PROVE  /\ call.do \in Dos
           /\ j.type \in {"disconnect", "reconnect"} /\ call.id[1] = "egress" =>
                 \E e \in There(j, table) : call = Stop(Egress(j.channel, e))
<1> DEFINE c == j.channel
           main == {Ingest(c), Snapshot(c)}
<1>1. \A id : /\ Stop(id).do = "stop" /\ Start(id).do = "start"
              /\ Delete(id).do = "delete" /\ Upsert(id).do = "upsert"
              /\ Stop(id).id = id /\ Start(id).id = id
  BY DEF Stop, Start, Delete, Upsert
<1>2. \A id \in main : id[1] # "egress"
  BY IdsApart
<1> HIDE DEF main
<1>3. CASE j.type = "disconnect"
  <2>1. \/ \E id \in main : call = Stop(id)
        \/ \E e \in There(j, table) : call = Stop(Egress(c, e))
    BY <1>3 DEF Promised, main
  <2> QED
    BY <1>1, <1>2, <2>1 DEF Dos
<1>4. CASE j.type = "reconnect"
  <2>1. \/ \E id \in main : call = Start(id)
        \/ \E e \in There(j, table) : call = Stop(Egress(c, e))
    BY <1>4 DEF Promised, main
  <2> QED
    BY <1>1, <1>2, <2>1 DEF Dos
<1>5. CASE j.type \in {"delete", "unpublish"}
  <2>1. \E id : call = Delete(id)
    BY <1>5 DEF Promised
  <2> QED
    BY <1>1, <1>5, <2>1 DEF Dos
<1>6. CASE j.type \in {"save", "wizard", "publish", "update"}
  <2>1. \E id : call = Upsert(id)
    BY <1>6 DEF Promised
  <2> QED
    BY <1>1, <1>6, <2>1 DEF Dos
<1>7. CASE j.type \in {"edit", "stop egress"}
  <2>1. \E id : call = Stop(id)
    BY <1>7 DEF Promised
  <2> QED
    BY <1>1, <1>7, <2>1 DEF Dos
<1>8. CASE j.type \in {"connect", "refresh", "restart egress", "start egress", "reconnect egress"}
  <2>1. \E id : call = Start(id)
    BY <1>8 DEF Promised
  <2> QED
    BY <1>1, <1>8, <2>1 DEF Dos
<1> QED
  BY <1>3, <1>4, <1>5, <1>6, <1>7, <1>8 DEF PageTypes

\* It promises no more when calls fail and its publications are withdrawn.
LEMMA PromisedLess ==
    ASSUME NEW j, NEW k, NEW table, NEW new, Same(k, j), j.type \in PageTypes,
           j.failed \subseteq k.failed, There(k, new) \subseteq There(j, table)
    PROVE  Promised(k, new) \subseteq Promised(j, table)
<1> USE DEF Same
<1>1. CASE j.type \in {"disconnect", "reconnect"}
  BY <1>1 DEF Promised
<1>2. CASE j.type \in {"delete", "connect", "refresh"}
  BY <1>2 DEF Promised
<1>3. CASE j.type = "edit"
  BY <1>3 DEF Promised
<1>4. CASE j.type \in {"save", "wizard"}
  BY <1>4 DEF Promised
<1>5. CASE j.type = "restart egress"
  BY <1>5 DEF Promised
<1>6. CASE j.type \in {"publish", "update", "unpublish", "stop egress", "start egress", "reconnect egress"}
  BY <1>6 DEF Promised
<1> QED
  BY <1>1, <1>2, <1>3, <1>4, <1>5, <1>6 DEF PageTypes

-----------------------------------------------------------------------------
(* Sequences of calls *)

LEMMA Concat ==
    ASSUME NEW S, NEW s \in Seq(S), NEW r \in Seq(S)
    PROVE  /\ s \o r \in Seq(S) /\ Len(s \o r) = Len(s) + Len(r)
           /\ \A i \in 1..Len(s) : (s \o r)[i] = s[i]
           /\ \A i \in 1..Len(r) : (s \o r)[Len(s) + i] = r[i]
           /\ \A i \in DOMAIN (s \o r) : i \in 1..Len(s) \/ \E k \in 1..Len(r) : i = Len(s) + k
           /\ DOMAIN (s \o r) = 1..(Len(s) + Len(r))
<1>1. /\ s \o r \in Seq(S) /\ Len(s \o r) = Len(s) + Len(r) /\ Len(s) \in Nat /\ Len(r) \in Nat
      /\ \A i \in 1..(Len(s) + Len(r)) : (s \o r)[i] = IF i <= Len(s) THEN s[i] ELSE r[i - Len(s)]
  OBVIOUS
<1>2. DOMAIN (s \o r) = 1..(Len(s) + Len(r))
  BY <1>1
<1>3. \A i \in 1..Len(s) : (s \o r)[i] = s[i]
  BY <1>1
<1>4. \A i \in 1..Len(r) : (s \o r)[Len(s) + i] = r[i]
  <2> TAKE i \in 1..Len(r)
  <2>1. Len(s) + i \in 1..(Len(s) + Len(r)) /\ ~(Len(s) + i <= Len(s)) /\ (Len(s) + i) - Len(s) = i
    BY <1>1
  <2> QED
    BY <1>1, <2>1
<1>5. \A i \in 1..(Len(s) + Len(r)) : i \in 1..Len(s) \/ \E k \in 1..Len(r) : i = Len(s) + k
  <2> TAKE i \in 1..(Len(s) + Len(r))
  <2>1. i \in 1..Len(s) \/ (i - Len(s) \in 1..Len(r) /\ i = Len(s) + (i - Len(s)))
    BY <1>1
  <2> QED
    BY <2>1
<1> QED
  BY <1>1, <1>2, <1>3, <1>4, <1>5

\* What is to come in the second part is to come; what is to come in the first, too,
\* when the second does not touch it.
LEMMA ComingConcat ==
    ASSUME NEW S, NEW s \in Seq(S), NEW r \in Seq(S), NEW call
    PROVE  /\ Coming(r, call) => Coming(s \o r, call)
           /\ Coming(s, call) /\ Gone(r, call) => Coming(s \o r, call)
           /\ Gone(s, call) /\ Gone(r, call) => Gone(s \o r, call)
<1> DEFINE q == s \o r
<1>0. Len(s) \in Nat /\ Len(r) \in Nat /\ DOMAIN s = 1..Len(s) /\ DOMAIN r = 1..Len(r)
  OBVIOUS
<1>1. /\ \A i \in 1..Len(s) : q[i] = s[i]
      /\ \A i \in 1..Len(r) : q[Len(s) + i] = r[i]
      /\ \A i \in DOMAIN q : i \in 1..Len(s) \/ \E k \in 1..Len(r) : i = Len(s) + k
      /\ DOMAIN q = 1..(Len(s) + Len(r))
  BY Concat
<1> HIDE DEF q
<1>2. ASSUME Coming(r, call) PROVE Coming(q, call)
  <2>1. PICK i \in DOMAIN r : r[i] = call /\ \A k \in DOMAIN r : k > i => r[k].id # call.id
    BY <1>2 DEF Coming
  <2>2. Len(s) + i \in DOMAIN q /\ q[Len(s) + i] = call
    BY <1>0, <1>1, <2>1
  <2>3. ASSUME NEW k \in DOMAIN q, k > Len(s) + i PROVE q[k].id # call.id
    <3>1. PICK m \in 1..Len(r) : k = Len(s) + m
      BY <1>0, <1>1, <2>3
    <3>2. m > i
      BY <1>0, <2>3, <3>1
    <3> QED
      BY <1>0, <1>1, <2>1, <3>1, <3>2
  <2> QED
    BY <2>2, <2>3 DEF Coming
<1>3. ASSUME Coming(s, call), Gone(r, call) PROVE Coming(q, call)
  <2>1. PICK i \in DOMAIN s : s[i] = call /\ \A k \in DOMAIN s : k > i => s[k].id # call.id
    BY <1>3 DEF Coming
  <2>2. i \in DOMAIN q /\ q[i] = call
    BY <1>0, <1>1, <2>1
  <2>3. ASSUME NEW k \in DOMAIN q, k > i PROVE q[k].id # call.id
    BY <1>0, <1>1, <1>3, <2>1, <2>3 DEF Gone
  <2> QED
    BY <2>2, <2>3 DEF Coming
<1>4. ASSUME Gone(s, call), Gone(r, call) PROVE Gone(q, call)
  BY <1>0, <1>1, <1>4 DEF Gone
<1> QED
  BY <1>2, <1>3, <1>4 DEF q

\* Of what is to come the first call is made now, or comes with the rest.
LEMMA ComingTail ==
    ASSUME NEW S, NEW s \in Seq(S), s # <<>>, NEW call
    PROVE  /\ Coming(s, call) => Coming(Tail(s), call) \/ (Head(s) = call /\ Gone(Tail(s), call))
           /\ Gone(s, call) => Gone(Tail(s), call) /\ Head(s).id # call.id
<1>1. /\ Len(s) \in Nat /\ Len(s) > 0 /\ Tail(s) \in Seq(S) /\ Head(s) = s[1]
      /\ DOMAIN s = 1..Len(s) /\ DOMAIN Tail(s) = 1..(Len(s) - 1)
      /\ \A i \in 1..(Len(s) - 1) : Tail(s)[i] = s[i + 1]
  OBVIOUS
<1>2. ASSUME Coming(s, call)
      PROVE  Coming(Tail(s), call) \/ (Head(s) = call /\ Gone(Tail(s), call))
  <2>1. PICK i \in DOMAIN s : s[i] = call /\ \A k \in DOMAIN s : k > i => s[k].id # call.id
    BY <1>2 DEF Coming
  <2>2. CASE i = 1
    <3>1. \A k \in 1..(Len(s) - 1) : k + 1 \in DOMAIN s /\ k + 1 > 1
      BY <1>1
    <3> QED
      BY <1>1, <2>1, <2>2, <3>1 DEF Gone
  <2>3. CASE i # 1
    <3>1. i - 1 \in 1..(Len(s) - 1) /\ (i - 1) + 1 = i
      BY <1>1, <2>1, <2>3
    <3>2. Tail(s)[i - 1] = call
      BY <1>1, <2>1, <3>1
    <3>3. ASSUME NEW k \in 1..(Len(s) - 1), k > i - 1 PROVE Tail(s)[k].id # call.id
      <4>1. k + 1 \in DOMAIN s /\ k + 1 > i
        BY <1>1, <3>1, <3>3
      <4> QED
        BY <1>1, <2>1, <4>1
    <3> QED
      BY <1>1, <3>1, <3>2, <3>3 DEF Coming
  <2> QED
    BY <2>2, <2>3
<1>3. ASSUME Gone(s, call) PROVE Gone(Tail(s), call) /\ Head(s).id # call.id
  <2>1. \A k \in 1..(Len(s) - 1) : k + 1 \in DOMAIN s
    BY <1>1
  <2> QED
    BY <1>1, <1>3, <2>1 DEF Gone
<1> QED
  BY <1>2, <1>3

\* The publications of a channel are all in the list of them, once.
LEMMA AllListed ==
    ASSUME NEW S, IsFiniteSet(S)
    PROVE  \E n \in Nat : /\ SetToSeq(S) \in [1..n -> S]
                          /\ \A e \in S : \E i \in 1..n : SetToSeq(S)[i] = e
                          /\ \A i, k \in 1..n : SetToSeq(S)[i] = SetToSeq(S)[k] => i = k
<1> DEFINE n == Cardinality(S)
           IsList(f) == f \in [1..n -> S] /\ IsInjective(f)
<1>1. n \in Nat
  BY FS_CardinalityType
<1>2. PICK g : g \in Bijection(1..n, S)
  BY FS_CardinalityType DEF ExistsBijection
<1>3. IsList(g)
  BY <1>2 DEF Bijection, Injection, IsInjective
<1>4. SetToSeq(S) = CHOOSE f : IsList(f)
  BY DEF SetToSeq
<1>5. IsList(SetToSeq(S))
  BY <1>3, <1>4
<1>6. SetToSeq(S) \in Injection(1..n, S)
  BY <1>5 DEF Injection
<1>7. Cardinality(1..n) = n /\ IsFiniteSet(1..n)
  BY <1>1, FS_Interval
<1>8. SetToSeq(S) \in Surjection(1..n, S)
  BY <1>6, <1>7, FS_Injection
<1>9. \A e \in S : \E i \in 1..n : SetToSeq(S)[i] = e
  BY <1>8 DEF Surjection
<1> QED
  BY <1>1, <1>5, <1>9 DEF IsInjective

\* The publications of a channel of a table: a list of calls for each of them
LEMMA ListOfCalls ==
    ASSUME NEW table, IsTable(table), NEW c \in DOMAIN table,
           NEW do \in {"stop", "delete"}, NEW calls,
           calls = [i \in DOMAIN Listed(table, c) |-> [do |-> do, id |-> Egress(c, Listed(table, c)[i])]]
    PROVE  /\ calls \in Seq(CallsFor(c))
           /\ \A i \in DOMAIN calls : calls[i].do = do /\ calls[i].id[1] = "egress"
           /\ \A e \in table[c].egresses : Coming(calls, [do |-> do, id |-> Egress(c, e)])
<1> DEFINE S == table[c].egresses
           f == Listed(table, c)
<1>1. S \subseteq Egresses
  BY DEF IsTable, Entries
<1>2. IsFiniteSet(S)
  BY <1>1, EgressesAssumption, FS_Subset
<1>3. f = SetToSeq(S)
  BY DEF Listed
<1>4. PICK n \in Nat : /\ f \in [1..n -> S]
                       /\ \A e \in S : \E i \in 1..n : f[i] = e
                       /\ \A i, k \in 1..n : f[i] = f[k] => i = k
  <2> HIDE DEF S, f
  <2> QED
    BY <1>2, <1>3, AllListed
<1> HIDE DEF f
<1>5. DOMAIN f = 1..n /\ calls = [i \in 1..n |-> [do |-> do, id |-> Egress(c, f[i])]]
  BY <1>4 DEF f
<1>6. \A i \in 1..n : Egress(c, f[i]) \in Ids(c)
  BY <1>1, <1>4 DEF Ids
<1>7. \A i \in 1..n : [do |-> do, id |-> Egress(c, f[i])] \in CallsFor(c)
  BY <1>6 DEF CallsFor
<1>8. calls \in Seq(CallsFor(c))
  BY <1>5, <1>7
<1>9. \A i \in DOMAIN calls : calls[i].do = do /\ calls[i].id[1] = "egress"
  BY <1>5, IdsApart
<1>10. ASSUME NEW e \in S PROVE Coming(calls, [do |-> do, id |-> Egress(c, e)])
  <2>1. PICK i \in 1..n : f[i] = e
    BY <1>4
  <2>2. \A k \in 1..n : k > i => f[k] # e
    BY <1>4, <2>1
  <2>3. \A k \in 1..n : calls[k].id[3] = f[k]
    BY <1>5, IdsApart
  <2>4. Egress(c, e)[3] = e
    BY IdsApart
  <2>5. \A k \in 1..n : k > i => calls[k].id # Egress(c, e)
    BY <2>2, <2>3, <2>4
  <2> QED
    BY <1>5, <2>1, <2>5 DEF Coming
<1> QED
  BY <1>8, <1>9, <1>10

LEMMA StopList ==
    ASSUME NEW table, IsTable(table), NEW c \in DOMAIN table
    PROVE  LET calls == StopAllEgresses(table, c)
           IN  /\ calls \in Seq(CallsFor(c))
               /\ \A i \in DOMAIN calls : calls[i].do = "stop" /\ calls[i].id[1] = "egress"
               /\ \A e \in table[c].egresses : Coming(calls, Stop(Egress(c, e)))
<1> DEFINE calls == StopAllEgresses(table, c)
<1>1. calls = [i \in DOMAIN Listed(table, c) |-> [do |-> "stop", id |-> Egress(c, Listed(table, c)[i])]]
  BY DEF StopAllEgresses, Stop
<1>2. \A e : Stop(Egress(c, e)) = [do |-> "stop", id |-> Egress(c, e)]
  BY DEF Stop
<1> HIDE DEF calls
<1> QED
  BY <1>1, <1>2, ListOfCalls DEF calls

-----------------------------------------------------------------------------
(* A job of a page goes on *)

\* When its turn comes the stopping of the publications is replaced by that of each.
LEMMA Expanded ==
    ASSUME NEW j, NEW table, NEW calls, IsTable(table), j.channel \in DOMAIN table,
           CallsFit(j, calls), calls # <<>>, Head(calls).do = "stopall"
    PROVE  LET come == StopAllEgresses(table, j.channel) \o Tail(calls)
           IN  /\ CallsFit(j, come)
               /\ \A i \in DOMAIN come : come[i].do # "stopall"
               /\ \A e \in table[j.channel].egresses : Coming(come, Stop(Egress(j.channel, e)))
               /\ \A call : call.do \in Dos /\ call.id[1] # "egress" =>
                     /\ Coming(calls, call) => Coming(come, call)
                     /\ Gone(calls, call) => Gone(come, call)
<1> DEFINE c == j.channel
           all == StopAllEgresses(table, c)
           rest == Tail(calls)
           come == all \o rest
<1>1. /\ all \in Seq(CallsFor(c))
      /\ \A i \in DOMAIN all : all[i].do = "stop" /\ all[i].id[1] = "egress"
      /\ \A e \in table[c].egresses : Coming(all, Stop(Egress(c, e)))
  BY StopList
<1>2. calls \in Seq(CallsFor(c)) /\ j.type \in {"disconnect", "reconnect"}
  <2>1. calls \in Seq(CallsFor(c))
    BY DEF CallsFit
  <2>2. 1 \in DOMAIN calls /\ Head(calls) = calls[1]
    BY <2>1
  <2> QED
    BY <2>1, <2>2 DEF CallsFit
<1>3. /\ Len(calls) \in Nat /\ Len(calls) > 0 /\ rest \in Seq(CallsFor(c)) /\ Head(calls) = calls[1]
      /\ DOMAIN calls = 1..Len(calls) /\ DOMAIN rest = 1..(Len(calls) - 1) /\ Len(rest) = Len(calls) - 1
      /\ \A i \in 1..(Len(calls) - 1) : rest[i] = calls[i + 1]
  BY <1>2
<1>4. \A k \in DOMAIN rest : rest[k].id[1] # "egress" /\ rest[k].do # "stopall"
  <2> TAKE k \in DOMAIN rest
  <2>1. k + 1 \in DOMAIN calls /\ k + 1 # 1 /\ rest[k] = calls[k + 1]
    BY <1>3
  <2>2. 1 \in DOMAIN calls /\ calls[1].do = "stopall"
    BY <1>3
  <2> QED
    BY <2>1, <2>2 DEF CallsFit
<1> HIDE DEF all, rest
<1>0. all \in Seq(CallsFor(c)) /\ rest \in Seq(CallsFor(c))
  BY <1>1, <1>3
<1>5. /\ come \in Seq(CallsFor(c)) /\ Len(come) = Len(all) + Len(rest)
      /\ \A i \in 1..Len(all) : come[i] = all[i]
      /\ \A i \in 1..Len(rest) : come[Len(all) + i] = rest[i]
      /\ \A i \in DOMAIN come : i \in 1..Len(all) \/ \E k \in 1..Len(rest) : i = Len(all) + k
  BY <1>0, Concat
<1>6. Len(all) \in Nat /\ DOMAIN all = 1..Len(all) /\ Len(rest) \in Nat /\ DOMAIN rest = 1..Len(rest)
  BY <1>1, <1>3
<1>7. ASSUME NEW call, Gone(rest, call), call.id[1] = "egress" \/ Coming(all, call)
      PROVE  Coming(all, call) => Coming(come, call)
  BY <1>1, <1>3, <1>7, ComingConcat
<1>8. ASSUME NEW e \in table[c].egresses PROVE Coming(come, Stop(Egress(c, e)))
  <2>1. Stop(Egress(c, e)).id[1] = "egress"
    BY IdsApart DEF Stop
  <2>2. Gone(rest, Stop(Egress(c, e)))
    BY <1>4, <2>1 DEF Gone
  <2> QED
    BY <1>1, <1>7, <1>8, <2>2
<1>9. ASSUME NEW call, call.do \in Dos, call.id[1] # "egress"
      PROVE  /\ Coming(calls, call) => Coming(come, call)
             /\ Gone(calls, call) => Gone(come, call)
  <2>1. Head(calls) # call
    BY <1>9 DEF Dos
  <2>2. /\ Coming(calls, call) => Coming(rest, call)
        /\ Gone(calls, call) => Gone(rest, call)
    BY <1>2, <2>1, ComingTail DEF rest
  <2>3. Gone(all, call)
    BY <1>1, <1>9 DEF Gone
  <2> QED
    BY <1>1, <1>3, <2>2, <2>3, ComingConcat
<1>10. \A i \in DOMAIN come : come[i].do # "stopall"
  <2> TAKE i \in DOMAIN come
  <2>1. CASE i \in 1..Len(all)
    BY <1>1, <1>5, <1>6, <2>1
  <2>2. CASE \E k \in 1..Len(rest) : i = Len(all) + k
    BY <1>4, <1>5, <1>6, <2>2
  <2> QED
    BY <1>5, <2>1, <2>2
<1>11. ASSUME NEW i \in DOMAIN come PROVE ~Persists(j.type, come[i]) => i = Len(come) \/ (j.type \in Needing /\ come[i] = Needed(j))
  <2>1. CASE i \in 1..Len(all)
    BY <1>1, <1>2, <1>5, <1>6, <2>1 DEF Persists
  <2>2. CASE \E k \in 1..Len(rest) : i = Len(all) + k
    <3>1. PICK k \in 1..Len(rest) : i = Len(all) + k
      BY <2>2
    <3>2. come[i] = calls[k + 1] /\ k + 1 \in DOMAIN calls
      BY <1>3, <1>5, <1>6, <3>1
    <3>3. ~Persists(j.type, calls[k + 1]) => k + 1 = Len(calls) \/ (j.type \in Needing /\ calls[k + 1] = Needed(j))
      BY <3>2 DEF CallsFit
    <3>4. Len(come) = Len(all) + Len(rest) /\ Len(rest) = Len(calls) - 1
      BY <1>3, <1>5
    <3>5. Len(calls) \in Nat /\ Len(all) \in Nat /\ k \in Nat
      BY <1>3, <1>6, <3>1
    <3> HIDE DEF come
    <3>6. k + 1 = Len(calls) => i = Len(come)
      BY <3>1, <3>4, <3>5
    <3> QED
      BY <3>2, <3>3, <3>6
  <2> QED
    BY <1>5, <2>1, <2>2
<1>12. CallsFit(j, come)
  BY <1>5, <1>10, <1>11 DEF CallsFit
<1> QED
  BY <1>8, <1>9, <1>10, <1>12 DEF all, rest

\* What remains when a call is over
LEMMA TailFits ==
    ASSUME NEW j, NEW calls, CallsFit(j, calls), calls # <<>>
    PROVE  CallsFit(j, Tail(calls))
<1> DEFINE rest == Tail(calls)
<1>1. calls \in Seq(CallsFor(j.channel))
  BY DEF CallsFit
<1>2. /\ Len(calls) \in Nat /\ Len(calls) > 0 /\ rest \in Seq(CallsFor(j.channel))
      /\ DOMAIN calls = 1..Len(calls) /\ DOMAIN rest = 1..(Len(calls) - 1) /\ Len(rest) = Len(calls) - 1
      /\ \A i \in 1..(Len(calls) - 1) : rest[i] = calls[i + 1] /\ i + 1 \in DOMAIN calls
  BY <1>1
<1> HIDE DEF rest
<1>3. \A i \in DOMAIN rest : ~Persists(j.type, rest[i]) => i = Len(rest) \/ (j.type \in Needing /\ rest[i] = Needed(j))
  <2> TAKE i \in DOMAIN rest
  <2>1. ~Persists(j.type, calls[i + 1]) => i + 1 = Len(calls) \/ (j.type \in Needing /\ calls[i + 1] = Needed(j))
    BY <1>2 DEF CallsFit
  <2> QED
    BY <1>2, <2>1
<1>4. ASSUME NEW i \in DOMAIN rest, rest[i].do = "stopall"
      PROVE  /\ j.type \in {"disconnect", "reconnect"}
             /\ \A k \in DOMAIN rest : k # i => rest[k].id[1] # "egress" /\ rest[k].do # "stopall"
  <2>1. i + 1 \in DOMAIN calls /\ calls[i + 1].do = "stopall"
    BY <1>2, <1>4
  <2>2. \A k \in DOMAIN rest : k # i => k + 1 # i + 1 /\ k + 1 \in DOMAIN calls
    BY <1>2
  <2> QED
    BY <1>2, <2>1, <2>2 DEF CallsFit
<1> QED
  BY <1>2, <1>3, <1>4 DEF CallsFit, rest

LEMMA GoesOnFits ==
    ASSUME NEW j, DOMAIN j = Fields, j.type \in PageTypes, NEW table, IsTable(table),
           NEW calls, CallsFit(j, calls),
           \A call \in Promised(j, table) \ j.failed : call.id \notin j.others => OnWay(calls, call)'
    PROVE  LET next == GoesOn(j, table, calls)
           IN  /\ DOMAIN next = Fields /\ Same(next, j) /\ next.step \in {"calls", "skip", "done"}
               /\ PageFits(next, table)'
<1> DEFINE c == j.channel
           all == calls # <<>> /\ Head(calls).do = "stopall" /\ c \in DOMAIN table
           come == IF all THEN StopAllEgresses(table, c) \o Tail(calls) ELSE calls
           step == IF come = <<>> THEN "done" ELSE IF Known(table, j.type, Head(come)) THEN "calls" ELSE "skip"
           next == [j EXCEPT !.calls = come, !.step = step]
<1>1. GoesOn(j, table, calls) = next
  BY DEF GoesOn
<1>2. CallsFit(j, come)
  <2>1. CASE all
    BY <2>1, Expanded
  <2>2. CASE ~all
    BY <2>2
  <2> QED
    BY <2>1, <2>2
<1>3. come # <<>> /\ Head(come).do = "stopall" => c \notin DOMAIN table
  <2>1. CASE all
    <3> DEFINE new == StopAllEgresses(table, c) \o Tail(calls)
    <3>1. CallsFit(j, new) /\ \A i \in DOMAIN new : new[i].do # "stopall"
      BY <2>1, Expanded
    <3>2. new \in Seq(CallsFor(c))
      BY <3>1 DEF CallsFit
    <3> HIDE DEF new
    <3>3. new # <<>> => 1 \in DOMAIN new /\ Head(new) = new[1]
      BY <3>2
    <3>4. come = new
      BY <2>1 DEF new
    <3> QED
      BY <3>1, <3>3, <3>4
  <2>2. CASE ~all
    BY <2>2
  <2> QED
    BY <2>1, <2>2
<1>4. ASSUME NEW call \in Promised(j, table) \ j.failed, call.id \notin j.others
      PROVE  OnWay(come, call)'
  <2>1. OnWay(calls, call)'
    BY <1>4
  <2>2. CASE ~all
    BY <2>1, <2>2
  <2>3. CASE all
    <3> DEFINE new == StopAllEgresses(table, c) \o Tail(calls)
    <3>0. come = new
      BY <2>3
    <3>1. /\ \A e \in table[c].egresses : Coming(new, Stop(Egress(c, e)))
          /\ \A d : d.do \in Dos /\ d.id[1] # "egress" =>
                     /\ Coming(calls, d) => Coming(new, d)
                     /\ Gone(calls, d) => Gone(new, d)
      BY <2>3, Expanded
    <3>2. j.type \in {"disconnect", "reconnect"}
      <4>1. calls \in Seq(CallsFor(c))
        BY DEF CallsFit
      <4>2. 1 \in DOMAIN calls /\ Head(calls) = calls[1]
        BY <2>3, <4>1
      <4> QED
        BY <2>3, <4>2 DEF CallsFit
    <3>3. /\ call.do \in Dos
          /\ call.id[1] = "egress" => \E e \in There(j, table) : call = Stop(Egress(c, e))
      BY <1>4, <3>2, PromisedCalls
    <3> HIDE DEF new, come
    <3>4. CASE call.id[1] = "egress"
      <4>1. PICK e \in There(j, table) : call = Stop(Egress(c, e))
        BY <3>3, <3>4
      <4>2. e \in table[c].egresses
        BY <2>3, <4>1 DEF There
      <4> QED
        BY <3>0, <3>1, <4>1, <4>2 DEF OnWay
    <3>5. CASE call.id[1] # "egress"
      BY <2>1, <3>0, <3>1, <3>3, <3>5 DEF OnWay, AllComing
    <3> QED
      BY <3>4, <3>5
  <2> QED
    BY <2>2, <2>3
<1>5. step \in {"calls", "skip", "done"} /\ (step = "done" <=> come = <<>>)
  OBVIOUS
<1>6. come # <<>> /\ Head(come).do = "stopall" => step = "skip"
  <2> HIDE DEF come
  <2>0. come \in Seq(CallsFor(c))
    BY <1>2 DEF CallsFit
  <2>1. come # <<>> => Head(come) \in CallsFor(c)
    BY <2>0
  <2>2. \A id \in Ids(c) : id[2] = c
    <3> TAKE id \in Ids(c)
    <3>1. id \in {Ingest(c), Snapshot(c), Preview(c)} \/ \E e : id = Egress(c, e)
      BY DEF Ids
    <3> QED
      BY <3>1, IdsApart
  <2>3. come # <<>> => Head(come).id[2] = c
    BY <2>1, <2>2 DEF CallsFor
  <2> QED
    BY <1>3, <2>3 DEF Known
<1> HIDE DEF come, step
<1>7. /\ DOMAIN next = Fields /\ next.calls = come /\ next.step = step /\ Same(next, j)
      /\ next.failed = j.failed /\ next.others = j.others
  BY DEF Fields, Same
<1> HIDE DEF next
<1>8. There(next, table) = There(j, table)
  BY <1>7 DEF There, Same
<1>9. Promised(next, table) \subseteq Promised(j, table)
  BY <1>7, <1>8, PromisedLess
<1>10. CallsFit(next, come)
  BY <1>2, <1>7 DEF CallsFit, Same, Needed
<1>11. come # <<>> /\ Head(come).do = "stopall" => There(next, table) = {}
  BY <1>3, <1>8 DEF There
<1>12. \A call \in Promised(next, table) \ next.failed : call.id \notin next.others => OnWay(next.calls, call)'
  BY <1>4, <1>7, <1>9
<1>13. PageFits(next, table)'
  BY <1>5, <1>6, <1>7, <1>10, <1>11, <1>12 DEF PageFits, Same
<1> QED
  BY <1>1, <1>5, <1>7, <1>13

\* What is done with the answer of a call, or when it was not made
LEMMA AfterFits ==
    ASSUME NEW j, DOMAIN j = Fields, NEW old, NEW table, IsTable(table), NEW ok \in BOOLEAN,
           PageFits(j, old), j.step \in {"calls", "skip"}, There(j, table) \subseteq There(j, old),
           ok => j.step = "calls" /\ Reached(Head(j.calls))',
           Untouched({Head(j.calls).id})
    PROVE  LET next == After(j, table, ok)
           IN  /\ DOMAIN next = Fields /\ Same(next, j) /\ next.step \in {"calls", "skip", "done"}
               /\ PageFits(next, table)'
<1> DEFINE calls == j.calls
           head == Head(calls)
           rest == Tail(calls)
           failed == j.failed \cup (IF ok THEN {} ELSE {head})
           k == [j EXCEPT !.failed = failed]
           on == ok \/ Persists(j.type, head)
           left == IF on THEN rest ELSE <<>>
<1>1. After(j, table, ok) = GoesOn(k, table, left)
  BY DEF After
<1>2. calls # <<>> /\ CallsFit(j, calls) /\ j.type \in PageTypes /\ calls \in Seq(CallsFor(j.channel))
  BY DEF PageFits, CallsFit
<1>3. CallsFit(j, rest)
  BY <1>2, TailFits
<1>4. CallsFit(j, left)
  <2>1. CallsFit(j, <<>>)
    BY DEF CallsFit
  <2> QED
    BY <1>3, <2>1
<1>5. head \in CallsFor(j.channel) /\ 1 \in DOMAIN calls /\ calls[1] = head
  BY <1>2
<1>6. ok \/ head \in failed
  OBVIOUS
<1>7. ASSUME NEW call \in Promised(j, old) \ failed, call.id \notin j.others, Promised(k, table) # {}
      PROVE  OnWay(left, call)'
  <2>1. OnWay(calls, call) /\ call \notin failed
    <3>1. j.step # "timer" /\ call \notin j.failed
      BY <1>7
    <3> QED
      BY <1>7, <3>1 DEF PageFits
  <2>2. call.do \in Dos
    BY <1>2, <1>7, PromisedCalls
  <2>3. left = rest
    <3>1. CASE on
      BY <3>1
    <3>2. CASE ~on
      <4>1. Len(calls) = 1 \/ (j.type \in Needing /\ head = Needed(j))
        <5>1. ~Persists(j.type, calls[1])
          BY <1>5, <3>2
        <5> QED
          BY <1>2, <1>5, <5>1 DEF CallsFit
      <4>2. CASE Len(calls) = 1
        <5>1. rest \in Seq(CallsFor(j.channel)) /\ Len(rest) = 0
          <6> HIDE DEF calls
          <6> QED
            BY <1>2, <4>2
        <5>2. rest = <<>>
          <6> HIDE DEF rest
          <6> QED
            BY <5>1
        <5> QED
          BY <3>2, <5>2
      <4>3. CASE j.type \in Needing /\ head = Needed(j)
        <5>1. head \in k.failed
          BY <3>2 DEF Fields
        <5>2. k.type = j.type /\ k.channel = j.channel /\ k.egress = j.egress
          BY DEF Fields
        <5> HIDE DEF k
        <5>3. Promised(k, table) = {}
          BY <4>3, <5>1, <5>2 DEF Promised, Needed, Needing
        <5> QED
          BY <1>7, <5>3
      <4> QED
        BY <4>1, <4>2, <4>3
    <3> QED
      BY <3>1, <3>2
  <2>4. CASE Coming(calls, call)
    <3>1. Coming(rest, call) \/ (head = call /\ Gone(rest, call))
      BY <1>2, <2>4, ComingTail
    <3>2. head = call => Reached(call)'
      BY <1>6, <2>1
    <3> QED
      BY <2>3, <3>1, <3>2 DEF OnWay
  <2>5. CASE Gone(calls, call) /\ Reached(call)
    <3>1. Gone(rest, call) /\ head.id # call.id
      BY <1>2, <2>5, ComingTail
    <3>2. Reached(call)'
      BY <2>2, <2>5, <3>1, ReachedStays
    <3> QED
      BY <2>3, <3>1, <3>2 DEF OnWay
  <2>6. CASE AllComing(calls, call)
    <3>1. PICK i \in DOMAIN calls : calls[i].do = "stopall"
      BY <2>6 DEF AllComing
    <3>2. call.id[1] = "egress" /\ j.type \in {"disconnect", "reconnect"}
      BY <1>2, <2>6, <3>1 DEF AllComing, CallsFit
    <3>3. There(j, old) # {}
      BY <1>2, <1>7, <3>2, PromisedCalls
    <3>4. i # 1
      BY <1>2, <1>5, <3>1, <3>3 DEF PageFits
    <3>5. i - 1 \in DOMAIN rest /\ rest[i - 1] = calls[i]
      BY <1>2, <3>4
    <3> QED
      BY <2>3, <3>1, <3>2, <3>5 DEF OnWay, AllComing
  <2> QED
    BY <2>1, <2>4, <2>5, <2>6 DEF OnWay
<1> HIDE DEF failed, left
<1>8. /\ DOMAIN k = Fields /\ Same(k, j) /\ k.failed = failed /\ k.others = j.others
  BY DEF Fields, Same
<1>9. j.failed \subseteq failed
  BY DEF failed
<1> HIDE DEF k
<1>10. Promised(k, table) \subseteq Promised(j, old)
  <2>1. There(k, table) = There(j, table)
    BY <1>8 DEF There, Same
  <2> QED
    BY <1>2, <1>8, <1>9, <2>1, PromisedLess
<1>11. CallsFit(k, left)
  BY <1>4, <1>8 DEF CallsFit, Same, Needed
<1>12. k.type \in PageTypes
  BY <1>2, <1>8 DEF Same
<1>13. \A call \in Promised(k, table) \ k.failed : call.id \notin k.others => OnWay(left, call)'
  BY <1>7, <1>8, <1>10
<1>14. LET next == GoesOn(k, table, left)
       IN  /\ DOMAIN next = Fields /\ Same(next, k) /\ next.step \in {"calls", "skip", "done"}
           /\ PageFits(next, table)'
  BY <1>8, <1>11, <1>12, <1>13, GoesOnFits
<1> QED
  BY <1>1, <1>8, <1>14 DEF Same

-----------------------------------------------------------------------------
(* The tables of the windows *)

\* A table has no publications another did not have, but these.
Fewer(new, table, more) ==
    \A c \in DOMAIN new : \A e \in new[c].egresses :
        e \in more \/ (c \in DOMAIN table /\ e \in table[c].egresses)

LEMMA ThereLess ==
    ASSUME NEW new, NEW table, NEW more, Fewer(new, table, more), NEW j, j.listed \cap more = {}
    PROVE  There(j, new) \subseteq There(j, table)
BY DEF Fewer, There

LEMMA EntryTyped ==
    ASSUME NEW S \in SUBSET Egresses, NEW b \in BOOLEAN
    PROVE  Entry(S, b) \in Entries /\ Entry(S, b).egresses = S /\ Entry(S, b).available = b
BY DEF Entry, Entries

LEMMA TableChanges ==
    ASSUME NEW table, IsTable(table), NEW c, NEW e
    PROVE  /\ IsTable(Withdrawn(table, c, e)) /\ DOMAIN Withdrawn(table, c, e) = DOMAIN table
           /\ Fewer(Withdrawn(table, c, e), table, {})
           /\ IsTable(Stored(table, c)) /\ DOMAIN Stored(table, c) = DOMAIN table
           /\ Fewer(Stored(table, c), table, {})
<1>1. CASE c \notin DOMAIN table
  BY <1>1 DEF Withdrawn, Stored, Fewer
<1>2. CASE c \in DOMAIN table
  <2>1. table[c].egresses \in SUBSET Egresses /\ table[c].available \in BOOLEAN
    BY <1>2 DEF IsTable, Entries
  <2> DEFINE less == Entry(table[c].egresses \ {e}, table[c].available)
             same == Entry(table[c].egresses, TRUE)
  <2>2. less \in Entries /\ less.egresses \subseteq table[c].egresses
    BY <2>1, EntryTyped
  <2>3. same \in Entries /\ same.egresses = table[c].egresses
    BY <2>1, EntryTyped
  <2>4. /\ Withdrawn(table, c, e) = [table EXCEPT ![c] = less]
        /\ Stored(table, c) = [table EXCEPT ![c] = same]
    BY <1>2 DEF Withdrawn, Stored
  <2> HIDE DEF less, same
  <2> QED
    BY <2>2, <2>3, <2>4 DEF IsTable, Fewer
<1> QED
  BY <1>1, <1>2

LEMMA TableAnnounced ==
    ASSUME NEW table, IsTable(table), NEW c \in DOMAIN table, NEW e \in Egresses
    PROVE  /\ IsTable(Announced(table, c, e)) /\ DOMAIN Announced(table, c, e) = DOMAIN table
           /\ Fewer(Announced(table, c, e), table, {e})
<1>1. table[c].egresses \in SUBSET Egresses /\ table[c].available \in BOOLEAN
  BY DEF IsTable, Entries
<1> DEFINE more == Entry(table[c].egresses \cup {e}, table[c].available)
<1>2. more \in Entries /\ more.egresses = table[c].egresses \cup {e}
  BY <1>1, EntryTyped
<1>3. Announced(table, c, e) = [table EXCEPT ![c] = more]
  BY DEF Announced
<1> HIDE DEF more
<1> QED
  BY <1>2, <1>3 DEF IsTable, Fewer

LEMMA TableCreated ==
    ASSUME NEW table, IsTable(table), NEW c \in Channels
    PROVE  /\ IsTable(Created(table, c)) /\ DOMAIN Created(table, c) = DOMAIN table \cup {c}
           /\ Fewer(Created(table, c), table, {})
<1>1. Entry({}, FALSE) \in Entries /\ Entry({}, FALSE).egresses = {}
  BY EntryTyped
<1> HIDE DEF Entry
<1>2. \A d \in DOMAIN table : table[d] \in Entries
  BY DEF IsTable
<1> QED
  BY <1>1, <1>2 DEF IsTable, Created, Fewer

LEMMA FreshChannels == Fresh \subseteq Channels
BY DEF Fresh

LEMMA TableFilled ==
    ASSUME NEW table, IsTable(table), NEW filled \in Filled(table)
    PROVE  IsTable(filled) /\ Fewer(filled, table, {})
<1>1. CASE DOMAIN table # {}
  <2>1. filled = table
    BY <1>1 DEF Filled
  <2> QED
    BY <2>1 DEF Fewer
<1>2. CASE DOMAIN table = {}
  <2>1. PICK c \in Fresh : filled = Created(table, c)
    BY <1>2 DEF Filled
  <2> QED
    BY <2>1, FreshChannels, TableCreated
<1> QED
  BY <1>1, <1>2

LEMMA TableDiscovered == ASSUME NEW outcome PROVE IsTable(Discovered(outcome))
<1>1. \A c : Entry({ e \in Egresses : Egress(c, e) \in Processes }, TRUE) \in Entries
  BY EntryTyped
<1> HIDE DEF Entry
<1> QED
  BY <1>1 DEF Discovered, IsTable

LEMMA TableRestricted ==
    ASSUME NEW table, IsTable(table), NEW c
    PROVE  /\ IsTable(Restrict(table, DOMAIN table \ {c}))
           /\ Fewer(Restrict(table, DOMAIN table \ {c}), table, {})
BY DEF IsTable, Restrict, Fewer

LEMMA FewerFewer ==
    ASSUME NEW new, NEW mid, NEW table, Fewer(new, mid, {}), Fewer(mid, table, {})
    PROVE  Fewer(new, table, {})
BY DEF Fewer

\* A window with this table, selection and memory
LEMMA WindowMade ==
    ASSUME NEW window, WindowFits(window), NEW new, DOMAIN new = DOMAIN window,
           new.open => IsTable(new.table) /\ new.selected \in DOMAIN new.table
    PROVE  WindowFits(new)
BY DEF WindowFits

\* How a job ends for its window
LEMMA EndedFits ==
    ASSUME NEW window, WindowFits(window), window.open, NEW ended, NEW new \in Ended(window, ended)
    PROVE  /\ WindowFits(new) /\ new.open /\ Fewer(new.table, window.table, {})
           /\ ~Deleted(ended) => new.table = window.table
<1>0. DOMAIN window = {"open", "table", "selected", "onConnect", "jobs"}
      /\ IsTable(window.table) /\ window.selected \in DOMAIN window.table
  BY DEF WindowFits
<1>1. CASE ~Deleted(ended)
  <2>1. new = Shown(window, ended)
    BY <1>1 DEF Ended
  <2>2. /\ DOMAIN new = DOMAIN window /\ new.open /\ new.table = window.table
        /\ new.selected = window.selected
    BY <1>0, <2>1 DEF Shown
  <2> QED
    BY <1>0, <2>2 DEF WindowFits, Fewer
<1>2. CASE Deleted(ended)
  <2> DEFINE less == Restrict(window.table, DOMAIN window.table \ {ended.channel})
  <2>1. PICK table \in Filled(less) : \E c \in DOMAIN table :
            new = [window EXCEPT !.table = table, !.selected = c, !.onConnect = FALSE]
    BY <1>2 DEF Ended
  <2>0. PICK c \in DOMAIN table : new = [window EXCEPT !.table = table, !.selected = c, !.onConnect = FALSE]
    BY <2>1
  <2>2. IsTable(less) /\ Fewer(less, window.table, {})
    BY <1>0, TableRestricted
  <2> HIDE DEF less
  <2>3. IsTable(table) /\ Fewer(table, less, {})
    BY <2>1, <2>2, TableFilled
  <2>4. Fewer(table, window.table, {})
    BY <2>2, <2>3, FewerFewer
  <2>5. DOMAIN new = DOMAIN window /\ new.open /\ new.table = table /\ new.selected = c
    BY <1>0, <2>0
  <2> QED
    BY <1>0, <1>2, <2>3, <2>4, <2>5 DEF WindowFits
<1> QED
  BY <1>1, <1>2

LEMMA TableAfterCall ==
    ASSUME NEW w, IsTable(Table(w)), NEW type, NEW call, NEW ok \in BOOLEAN
    PROVE  LET table == TableAfter(w, type, call, ok)
           IN  IsTable(table) /\ DOMAIN table = DOMAIN Table(w) /\ Fewer(table, Table(w), {})
<1>1. Fewer(Table(w), Table(w), {})
  BY DEF Fewer
<1>2. \/ TableAfter(w, type, call, ok) = Table(w)
      \/ \E c, e : TableAfter(w, type, call, ok) = Withdrawn(Table(w), c, e)
      \/ \E c : TableAfter(w, type, call, ok) = Stored(Table(w), c)
  <2> DEFINE c == call.id[2]
             e == call.id[3]
  <2>1. CASE call.do = "delete" /\ e # "" /\ ok
    <3>0. Upsert(Ingest(c)).do = "upsert"
      BY DEF Upsert
    <3>1. call # Upsert(Ingest(c))
      BY <2>1, <3>0
    <3>2. TableAfter(w, type, call, ok) = Withdrawn(Table(w), windows[w].selected, e)
      BY <2>1, <3>1 DEF TableAfter
    <3> QED
      BY <3>2
  <2>2. CASE ~(call.do = "delete" /\ e # "" /\ ok) /\ type = "publish" /\ ~ok
    <3>1. TableAfter(w, type, call, ok) = Withdrawn(Table(w), c, e)
      BY <2>2 DEF TableAfter
    <3> QED
      BY <3>1
  <2>3. CASE ~(call.do = "delete" /\ e # "" /\ ok) /\ ~(type = "publish" /\ ~ok)
    <3>1. \/ TableAfter(w, type, call, ok) = Table(w)
          \/ TableAfter(w, type, call, ok) = Stored(Table(w), c)
      BY <2>3 DEF TableAfter
    <3> QED
      BY <3>1
  <2> QED
    BY <2>1, <2>2, <2>3
<1> QED
  BY <1>1, <1>2, TableChanges

-----------------------------------------------------------------------------
(* Steps of somebody else *)

\* A job that notices what was touched keeps what it has seen and reached of the rest.
LEMMA OtherFits ==
    ASSUME NEW ids, Untouched(ids), NEW j, j # NoJob, NEW window, JobFits(j, window),
           NEW new, new.open, There(j, new.table) \subseteq There(j, window.table),
           NEW k, (k = j /\ ids = {}) \/ k = [j EXCEPT !.others = j.others \cup ids]
    PROVE  JobFits(k, new)'
<1>1. DOMAIN j = Fields
  BY DEF JobFits
<1>2. /\ DOMAIN k = Fields /\ Same(k, j) /\ k.step = j.step /\ k.calls = j.calls /\ k.left = j.left
      /\ k.failed = j.failed /\ k.others = j.others \cup ids
  BY <1>1 DEF Fields, Same
<1>3. k # NoJob
  BY <1>2 DEF NoJob, Fields
<1>4. StillRest(k)'
  <2>1. ASSUME NEW c, Counted(k, c), Has(Ingest(c))' PROVE ~process'[Ingest(c)].running
    <3>1. Counted(j, c) /\ Ingest(c) \notin ids
      BY <1>2, <2>1 DEF Counted, Same
    <3>2. Has(Ingest(c)) /\ (~process[Ingest(c)].running => ~process'[Ingest(c)].running)
      BY <2>1, <3>1 DEF Untouched
    <3> QED
      BY <3>1, <3>2 DEF JobFits, StillRest
  <2> QED
    BY <2>1 DEF StillRest, Counted
<1>5. ASSUME RemovalFits(j) PROVE RemovalFits(k)'
  <2>1. ASSUME NEW d \in k.stopped, k.step \in {"restart", "done"},
               Ingest(d) \notin k.others, Start(Ingest(d)) \notin k.failed
        PROVE  d \in k.left \/ Reached(Start(Ingest(d)))'
    <3>1. d \in j.left \/ Reached(Start(Ingest(d)))
      BY <1>2, <1>5, <2>1 DEF RemovalFits, Same
    <3>2. Start(Ingest(d)).do \in Dos /\ Start(Ingest(d)).id = Ingest(d)
      BY DEF Start, Dos
    <3>3. Ingest(d) \notin ids
      BY <1>2, <2>1
    <3> QED
      BY <1>2, <3>1, <3>2, <3>3, ReachedStays
  <2> QED
    BY <1>2, <1>5, <2>1 DEF RemovalFits, Same
<1>6. ASSUME PageFits(j, window.table) PROVE PageFits(k, new.table)'
  <2>1. There(k, new.table) = There(j, new.table)
    BY <1>2 DEF There, Same
  <2>2. Promised(k, new.table) \subseteq Promised(j, window.table)
    BY <1>2, <1>6, <2>1, PromisedLess DEF PageFits
  <2>3. ASSUME NEW call \in Promised(k, new.table) \ k.failed, call.id \notin k.others, k.step # "timer"
        PROVE  OnWay(k.calls, call)'
    <3>1. call \in Promised(j, window.table) \ j.failed /\ call.id \notin j.others /\ call.id \notin ids
      BY <1>2, <2>2, <2>3
    <3>2. OnWay(j.calls, call)
      BY <1>2, <1>6, <2>3, <3>1 DEF PageFits
    <3>3. call.do \in Dos
      BY <1>6, <3>1, PromisedCalls DEF PageFits
    <3>4. Reached(call)' <=> Reached(call)
      BY <3>1, <3>3, ReachedStays
    <3> QED
      BY <1>2, <3>2, <3>4 DEF OnWay
  <2>4. CallsFit(k, k.calls)
    BY <1>2, <1>6 DEF PageFits, CallsFit, Same, Needed
  <2> QED
    BY <1>2, <1>6, <2>1, <2>3, <2>4 DEF PageFits, Same
<1> QED
  BY <1>2, <1>3, <1>4, <1>5, <1>6 DEF JobFits

\* A window and its jobs change; the other jobs notice it.
LEMMA StepKeeps ==
    ASSUME Inv, NEW w \in Windows, NEW new, windows' = [windows EXCEPT ![w] = new], WindowFits(new),
           NEW ids, Untouched(ids), job' = [u \in Tasks |-> job'[u]],
           \A u \in Tasks :
               \/ JobFits(job[u], windows[u[1]])'
               \/ /\ job[u] # NoJob
                  /\ \/ job'[u] = job[u] /\ ids = {}
                     \/ job'[u] = [job[u] EXCEPT !.others = job[u].others \cup ids]
                  /\ u[1] = w => new.open /\ There(job[u], new.table) \subseteq There(job[u], windows[w].table)
    PROVE  Inv'
<1>1. windows' = [v \in Windows |-> windows'[v]] /\ \A v \in Windows : WindowFits(windows'[v])
  BY DEF Inv
<1>2. \A v \in Windows : windows'[v] = IF v = w THEN new ELSE windows[v]
  BY DEF Inv
<1>3. ASSUME NEW u \in Tasks PROVE JobFits(job[u], windows[u[1]])'
  <2>1. CASE JobFits(job[u], windows[u[1]])'
    BY <2>1
  <2>2. CASE ~JobFits(job[u], windows[u[1]])'
    <3>1. /\ job[u] # NoJob
          /\ \/ job'[u] = job[u] /\ ids = {}
             \/ job'[u] = [job[u] EXCEPT !.others = job[u].others \cup ids]
          /\ u[1] = w => new.open /\ There(job[u], new.table) \subseteq There(job[u], windows[w].table)
      BY <2>2
    <3>2. JobFits(job[u], windows[u[1]]) /\ u[1] \in Windows
      BY DEF Inv, Tasks
    <3>3. /\ windows'[u[1]].open
          /\ There(job[u], windows'[u[1]].table) \subseteq There(job[u], windows[u[1]].table)
      BY <1>2, <3>1, <3>2 DEF JobFits
    <3> QED
      BY <3>1, <3>2, <3>3, OtherFits
  <2> QED
    BY <2>1, <2>2
<1> QED
  BY <1>1, <1>3 DEF Inv

\* A job goes on, begins or ends.
LEMMA OwnStep ==
    ASSUME Inv, NEW t \in Tasks, NEW new, windows' = [windows EXCEPT ![t[1]] = new], WindowFits(new),
           new.open, NEW more, Fewer(new.table, windows[t[1]].table, more),
           \A u \in Tasks : u # t /\ job[u] # NoJob => job[u].listed \cap more = {},
           NEW ids, Untouched(ids), NEW next,
           \/ job' = [job EXCEPT ![t] = next] /\ ids = {}
           \/ job' = [Noticed(t, ids) EXCEPT ![t] = next],
           JobFits(next, new)'
    PROVE  Inv'
<1>1. t[1] \in Windows
  BY DEF Tasks
<1>2. job' = [u \in Tasks |-> job'[u]] /\ job'[t] = next
  BY DEF Inv, Noticed
<1>3. windows'[t[1]] = new
  BY <1>1 DEF Inv
<1>4. ASSUME NEW u \in Tasks
      PROVE  \/ JobFits(job[u], windows[u[1]])'
             \/ /\ job[u] # NoJob
                /\ \/ job'[u] = job[u] /\ ids = {}
                   \/ job'[u] = [job[u] EXCEPT !.others = job[u].others \cup ids]
                /\ u[1] = t[1] => new.open /\ There(job[u], new.table) \subseteq There(job[u], windows[t[1]].table)
  <2>1. CASE u = t
    BY <1>2, <1>3, <2>1
  <2>2. CASE u # t /\ job[u] # NoJob
    <3>1. \/ job'[u] = job[u] /\ ids = {}
          \/ job'[u] = [job[u] EXCEPT !.others = job[u].others \cup ids]
      BY <2>2 DEF Inv, Noticed
    <3>2. There(job[u], new.table) \subseteq There(job[u], windows[t[1]].table)
      BY <2>2, ThereLess
    <3> QED
      BY <2>2, <3>1, <3>2
  <2>3. CASE u # t /\ job[u] = NoJob
    <3>1. job'[u] = NoJob
      BY <2>3 DEF Inv, Noticed
    <3> QED
      BY <3>1 DEF JobFits
  <2> QED
    BY <2>1, <2>2, <2>3
<1> QED
  BY <1>1, <1>2, <1>4, StepKeeps

-----------------------------------------------------------------------------
(* The steps of a removal *)

LEMMA SameWindow ==
    ASSUME Inv, NEW w \in Windows, windows' = windows
    PROVE  windows' = [windows EXCEPT ![w] = windows[w]] /\ Fewer(windows[w].table, windows[w].table, {})
BY DEF Inv, Fewer

\* A removal goes on.
LEMMA RemovalStep ==
    ASSUME Inv, NEW t \in Tasks, job[t] # NoJob, windows' = windows,
           NEW ids, Untouched(ids), NEW next, DOMAIN next = Fields,
           \/ job' = [job EXCEPT ![t] = next] /\ ids = {}
           \/ job' = [Noticed(t, ids) EXCEPT ![t] = next],
           RemovalFits(next)', StillRest(next)'
    PROVE  Inv'
<1> DEFINE window == windows[t[1]]
<1>1. t[1] \in Windows
  BY DEF Tasks
<1>2. WindowFits(window) /\ window.open
  BY <1>1 DEF Inv, JobFits
<1>3. windows' = [windows EXCEPT ![t[1]] = window] /\ Fewer(window.table, windows[t[1]].table, {})
  BY <1>1, SameWindow
<1>4. PICK new : new = window
  OBVIOUS
<1>5. JobFits(next, new)'
  BY <1>2, <1>4 DEF JobFits
<1>6. windows' = [windows EXCEPT ![t[1]] = new] /\ WindowFits(new) /\ new.open
      /\ Fewer(new.table, windows[t[1]].table, {})
  BY <1>2, <1>3, <1>4
<1> DEFINE more == {}
<1>7. \A u \in Tasks : u # t /\ job[u] # NoJob => job[u].listed \cap more = {}
  OBVIOUS
<1>8. Fewer(new.table, windows[t[1]].table, more)
  BY <1>6
<1> HIDE DEF window, more
<1> QED
  BY <1>5, <1>6, <1>7, <1>8, OwnStep

\* The fields of a removal
LEMMA RemovalTyped ==
    ASSUME Inv, NEW t \in Tasks, job[t] # NoJob, job[t].type = "purge"
    PROVE  DOMAIN job[t] = Fields /\ RemovalFits(job[t]) /\ StillRest(job[t])
BY DEF Inv, JobFits, PageFits, PageTypes

\* Before it waits, and after the answer, a removal has nothing to show.
LEMMA EarlyStep ==
    ASSUME Inv, NEW t \in Tasks, job[t] # NoJob, windows' = windows,
           NEW ids, Untouched(ids), NEW next, DOMAIN next = Fields,
           \/ job' = [job EXCEPT ![t] = next] /\ ids = {}
           \/ job' = [Noticed(t, ids) EXCEPT ![t] = next],
           next.type = "purge",
           \/ next.step \in {"look", "stop", "request", "response"}
           \/ next.step \in {"wait", "restart"} /\ next.left = next.stopped
    PROVE  Inv'
<1>1. StillRest(next)'
  BY DEF StillRest, Counted
<1>2. RemovalFits(next)'
  BY DEF RemovalFits
<1> QED
  BY <1>1, <1>2, RemovalStep

\* A window waits until the process has ended; what it could not see it marks.
LEMMA WaitKeeps ==
    ASSUME Inv, NEW t \in Tasks, NEW c, NEW outcome, Wait(t, c, outcome)
    PROVE  Inv'
<1> DEFINE w == t[1]
<1>a. PICK j : j = job[t]
  OBVIOUS
<1>b. PICK failed : failed = j.failed \cup Unseen(w, c, outcome)
  OBVIOUS
<1> DEFINE left == j.left \ {c}
           rests == [j EXCEPT !.left = left, !.tries = 0, !.failed = failed]
           again == [j EXCEPT !.tries = j.tries + 1]
<1>1. j # NoJob /\ j.type = "purge" /\ j.step = "wait" /\ c \in j.left
  BY <1>a DEF Wait, Purging
<1>2. /\ process' = process /\ windows' = windows
      /\ \/ AtRest(w, c, outcome) /\ job' = [job EXCEPT ![t] = rests]
         \/ job' = [job EXCEPT ![t] = again]
         \/ job' = [job EXCEPT ![t] = Unprepared(j)]
  BY <1>a, <1>b DEF Wait, JobIs
<1>3. DOMAIN j = Fields /\ StillRest(j)
  BY <1>a, <1>1, RemovalTyped
<1>4. Stop(Ingest(c)) \in failed \/ Seen(w, c, outcome)
  BY <1>b DEF Unseen
<1>5. j.failed \subseteq failed /\ left = j.left \ {c}
  BY <1>b
<1>6. Untouched({})
  BY <1>2, QuietUntouched
<1> HIDE DEF left
<1>7. /\ DOMAIN rests = Fields /\ rests.type = j.type /\ rests.step = j.step
      /\ rests.stopped = j.stopped /\ rests.left = left /\ rests.failed = failed
      /\ rests.others = j.others
  BY <1>3 DEF Fields
<1>8. /\ DOMAIN again = Fields /\ again.type = j.type /\ again.step = j.step
      /\ again.stopped = j.stopped /\ again.left = j.left /\ again.failed = j.failed
      /\ again.others = j.others
  BY <1>3 DEF Fields
<1>9. /\ DOMAIN Unprepared(j) = Fields /\ Unprepared(j).step = "restart" /\ Unprepared(j).type = j.type
      /\ Unprepared(j).left = Unprepared(j).stopped
  BY <1>3 DEF Fields, Unprepared
<1> HIDE DEF rests, again
<1>10. CASE AtRest(w, c, outcome) /\ job' = [job EXCEPT ![t] = rests]
  <2>1. ASSUME NEW d, Counted(rests, d), Has(Ingest(d)) PROVE ~process[Ingest(d)].running
    <3>1. CASE d = c
      <4>1. Seen(w, c, outcome)
        BY <1>4, <1>7, <2>1, <3>1 DEF Counted
      <4> QED
        BY <1>10, <2>1, <3>1, <4>1 DEF AtRest, Has
    <3>2. CASE d # c
      <4>1. Counted(j, d)
        BY <1>5, <1>7, <2>1, <3>2 DEF Counted
      <4> QED
        BY <1>3, <2>1, <4>1 DEF StillRest
    <3> QED
      BY <3>1, <3>2
  <2>2. StillRest(rests)'
    BY <1>2, <2>1 DEF StillRest, Has, Processes, Counted
  <2>3. RemovalFits(rests)'
    BY <1>1, <1>7 DEF RemovalFits
  <2> QED
    BY <1>1, <1>2, <1>6, <1>7, <1>10, <2>2, <2>3, RemovalStep, <1>a
<1>11. CASE job' = [job EXCEPT ![t] = again]
  <2>1. StillRest(again)'
    BY <1>2, <1>3, <1>8 DEF StillRest, Has, Processes, Counted
  <2>2. RemovalFits(again)'
    BY <1>1, <1>8 DEF RemovalFits
  <2> QED
    BY <1>1, <1>2, <1>6, <1>8, <1>11, <2>1, <2>2, RemovalStep, <1>a
<1>12. CASE job' = [job EXCEPT ![t] = Unprepared(j)]
  BY <1>1, <1>2, <1>6, <1>9, <1>12, EarlyStep, <1>a
<1> QED
  BY <1>2, <1>10, <1>11, <1>12

\* It asks when there is none left to wait for.
LEMMA PutRequestKeeps ==
    ASSUME Inv, NEW t \in Tasks, NEW outcome, PutRequest(t, outcome)
    PROVE  Inv'
<1>a. PICK j : j = job[t]
  OBVIOUS
<1> DEFINE asks == [j EXCEPT !.step = "answer", !.tries = 0]
<1>1. j # NoJob /\ j.type = "purge" /\ j.step = "wait" /\ j.left = {}
  BY <1>a DEF PutRequest, Purging
<1>2. /\ process' = process /\ windows' = windows
      /\ job' = [job EXCEPT ![t] = asks] \/ job' = [job EXCEPT ![t] = Unprepared(j)]
  BY <1>a DEF PutRequest, JobIs
<1>3. DOMAIN j = Fields /\ StillRest(j)
  BY <1>a, <1>1, RemovalTyped
<1>4. Untouched({})
  BY <1>2, QuietUntouched
<1>5. /\ DOMAIN asks = Fields /\ asks.type = j.type /\ asks.stopped = j.stopped /\ asks.step = "answer"
      /\ asks.failed = j.failed /\ asks.others = j.others
  BY <1>3 DEF Fields
<1>6. /\ DOMAIN Unprepared(j) = Fields /\ Unprepared(j).step = "restart" /\ Unprepared(j).type = j.type
      /\ Unprepared(j).left = Unprepared(j).stopped
  BY <1>3 DEF Fields, Unprepared
<1> HIDE DEF asks
<1>7. CASE job' = [job EXCEPT ![t] = asks]
  <2>1. \A c : Counted(asks, c) => Counted(j, c)
    BY <1>1, <1>5 DEF Counted
  <2>2. StillRest(asks)'
    BY <1>2, <1>3, <2>1 DEF StillRest, Has, Processes, Counted
  <2>3. RemovalFits(asks)'
    BY <1>1, <1>5 DEF RemovalFits
  <2> QED
    BY <1>1, <1>2, <1>4, <1>5, <1>7, <2>2, <2>3, RemovalStep, <1>a
<1>8. CASE job' = [job EXCEPT ![t] = Unprepared(j)]
  BY <1>1, <1>2, <1>4, <1>6, <1>8, EarlyStep, <1>a
<1> QED
  BY <1>2, <1>7, <1>8

LEMMA LookForAnswerKeeps ==
    ASSUME Inv, NEW t \in Tasks, NEW outcome, LookForAnswer(t, outcome)
    PROVE  Inv'
<1>a. PICK j : j = job[t]
  OBVIOUS
<1> DEFINE over == [j EXCEPT !.step = "request"]
           again == [j EXCEPT !.tries = j.tries + 1]
<1>1. j # NoJob /\ j.type = "purge" /\ j.step = "answer"
  BY <1>a DEF LookForAnswer, Purging
<1>2. /\ process' = process /\ windows' = windows
      /\ job' = [job EXCEPT ![t] = over] \/ job' = [job EXCEPT ![t] = again]
  BY <1>a DEF LookForAnswer, JobIs
<1>3. DOMAIN j = Fields /\ StillRest(j)
  BY <1>a, <1>1, RemovalTyped
<1>4. Untouched({})
  BY <1>2, QuietUntouched
<1>5. DOMAIN over = Fields /\ over.step = "request" /\ over.type = j.type
  BY <1>3 DEF Fields
<1>6. /\ DOMAIN again = Fields /\ again.type = j.type /\ again.step = j.step
      /\ again.stopped = j.stopped /\ again.left = j.left /\ again.failed = j.failed
      /\ again.others = j.others
  BY <1>3 DEF Fields
<1> HIDE DEF over, again
<1>7. CASE job' = [job EXCEPT ![t] = over]
  BY <1>1, <1>2, <1>4, <1>5, <1>7, EarlyStep, <1>a
<1>8. CASE job' = [job EXCEPT ![t] = again]
  <2>1. StillRest(again)'
    BY <1>2, <1>3, <1>6 DEF StillRest, Has, Processes, Counted
  <2>2. RemovalFits(again)'
    BY <1>1, <1>6 DEF RemovalFits
  <2> QED
    BY <1>1, <1>2, <1>4, <1>6, <1>8, <2>1, <2>2, RemovalStep, <1>a
<1> QED
  BY <1>2, <1>7, <1>8

LEMMA RemovalKeeps ==
    ASSUME Inv, NEW t \in Tasks, NEW c, NEW outcome,
           \/ Look(t, c, outcome) \/ Asked(t) \/ Purged(t)
           \/ DeleteRequest(t, outcome) \/ DeleteResponse(t, outcome)
    PROVE  Inv'
<1>a. PICK j : j = job[t]
  OBVIOUS
<1>1. j # NoJob /\ j.type = "purge" /\ process' = process /\ windows' = windows
  BY <1>a DEF Look, Asked, Purged, DeleteRequest, DeleteResponse, Purging, JobIs
<1>2. DOMAIN j = Fields /\ RemovalFits(j)
  BY <1>a, <1>1, RemovalTyped
<1>3. Untouched({})
  BY <1>1, QuietUntouched
<1>4. CASE Look(t, c, outcome)
  <2>1. PICK failed : job' = [job EXCEPT ![t] = [j EXCEPT !.step = "stop", !.channel = c]]
                      \/ job' = [job EXCEPT ![t] = [j EXCEPT !.left = j.left \ {c}, !.failed = failed]]
    BY <1>a, <1>4 DEF Look, JobIs
  <2> DEFINE stop == [j EXCEPT !.step = "stop", !.channel = c]
             look == [j EXCEPT !.left = j.left \ {c}, !.failed = failed]
  <2>2. j.step = "look"
    BY <1>a, <1>4 DEF Look, Purging
  <2>3. job' = [job EXCEPT ![t] = stop] \/ job' = [job EXCEPT ![t] = look]
    BY <2>1
  <2>4. /\ DOMAIN stop = Fields /\ stop.step = "stop" /\ stop.type = j.type
        /\ DOMAIN look = Fields /\ look.step = "look" /\ look.type = j.type
    BY <1>2, <2>2 DEF Fields
  <2> HIDE DEF stop, look
  <2> QED
    BY <1>a, <1>1, <1>3, <2>3, <2>4, EarlyStep
<1>5. CASE Asked(t)
  <2> DEFINE wait == [j EXCEPT !.step = "wait", !.left = j.stopped]
  <2>1. job' = [job EXCEPT ![t] = wait]
    BY <1>a, <1>5 DEF Asked, JobIs
  <2>2. /\ DOMAIN wait = Fields /\ wait.step = "wait" /\ wait.type = j.type
        /\ wait.left = wait.stopped
    BY <1>2 DEF Fields
  <2> HIDE DEF wait
  <2> QED
    BY <1>a, <1>1, <1>3, <2>1, <2>2, EarlyStep
<1>6. CASE Purged(t)
  <2> DEFINE done == [j EXCEPT !.step = "done"]
  <2>1. job' = [job EXCEPT ![t] = done] /\ j.step = "restart" /\ j.left = {}
    BY <1>a, <1>6 DEF Purged, JobIs, Purging
  <2>2. /\ DOMAIN done = Fields /\ done.step = "done" /\ done.type = j.type /\ done.left = j.left
        /\ done.stopped = j.stopped /\ done.failed = j.failed /\ done.others = j.others
    BY <1>2 DEF Fields
  <2> HIDE DEF done
  <2>3. RemovalFits(done)'
    <3>1. ASSUME NEW d \in done.stopped, Ingest(d) \notin done.others, Start(Ingest(d)) \notin done.failed
          PROVE  Reached(Start(Ingest(d)))'
      <4>1. Reached(Start(Ingest(d)))
        BY <1>2, <2>1, <2>2, <3>1 DEF RemovalFits
      <4>2. Start(Ingest(d)).do \in Dos
        BY DEF Start, Dos
      <4> QED
        BY <1>3, <4>1, <4>2, ReachedStays
    <3> QED
      BY <1>1, <2>1, <2>2, <3>1 DEF RemovalFits
  <2>4. StillRest(done)'
    BY <2>2 DEF StillRest, Counted
  <2> QED
    BY <1>a, <1>1, <1>3, <2>1, <2>2, <2>3, <2>4, RemovalStep
<1>7. CASE DeleteRequest(t, outcome)
  <2> DEFINE next == [j EXCEPT !.step = "response"]
  <2>1. job' = [job EXCEPT ![t] = next]
    BY <1>a, <1>7 DEF DeleteRequest, JobIs
  <2>2. DOMAIN next = Fields /\ next.step = "response" /\ next.type = j.type
    BY <1>2 DEF Fields
  <2> HIDE DEF next
  <2> QED
    BY <1>a, <1>1, <1>3, <2>1, <2>2, EarlyStep
<1>8. CASE DeleteResponse(t, outcome)
  <2>1. job' = [job EXCEPT ![t] = Unprepared(j)]
    BY <1>a, <1>8 DEF DeleteResponse, JobIs
  <2>2. /\ DOMAIN Unprepared(j) = Fields /\ Unprepared(j).step = "restart" /\ Unprepared(j).type = j.type
        /\ Unprepared(j).left = Unprepared(j).stopped
    BY <1>2 DEF Fields, Unprepared
  <2> QED
    BY <1>a, <1>1, <1>3, <2>1, <2>2, EarlyStep
<1> QED
  BY <1>4, <1>5, <1>6, <1>7, <1>8

LEMMA StopIngestKeeps ==
    ASSUME Inv, NEW t \in Tasks, NEW outcome, StopIngest(t, outcome)
    PROVE  Inv'
<1>a. PICK j : j = job[t]
  OBVIOUS
<1> DEFINE call == Stop(Ingest(j.channel))
           ids == IF Arrives(outcome) THEN {call.id} ELSE {}
           failing == [j EXCEPT !.failed = j.failed \cup {call}]
           look == [j EXCEPT !.step = "look", !.left = j.left \ {j.channel},
                             !.stopped = j.stopped \cup {j.channel}]
<1>1. j # NoJob /\ j.type = "purge" /\ windows' = windows
  BY <1>a DEF StopIngest, Purging
<1>2. DOMAIN j = Fields
  BY <1>a, <1>1, RemovalTyped
<1>3. process' = IF Arrives(outcome) THEN CoreAfter(call) ELSE process
  BY <1>a DEF StopIngest
<1>4. Untouched(ids)
  BY <1>3, CallUntouched, QuietUntouched
<1>5. \/ job' = [Noticed(t, ids) EXCEPT ![t] = look]
      \/ job' = [Noticed(t, ids) EXCEPT ![t] = Unprepared(failing)]
  BY <1>a DEF StopIngest, Touched
<1> HIDE DEF call, ids
<1>6. /\ DOMAIN look = Fields /\ look.step = "look" /\ look.type = j.type
      /\ DOMAIN failing = Fields /\ failing.type = j.type
  BY <1>2 DEF Fields
<1> HIDE DEF look, failing
<1>7. /\ DOMAIN Unprepared(failing) = Fields /\ Unprepared(failing).step = "restart"
      /\ Unprepared(failing).type = failing.type /\ Unprepared(failing).left = Unprepared(failing).stopped
  BY <1>6 DEF Fields, Unprepared
<1> QED
  BY <1>a, <1>1, <1>4, <1>5, <1>6, <1>7, EarlyStep

LEMMA StartAgainKeeps ==
    ASSUME Inv, NEW t \in Tasks, NEW c, NEW outcome, StartAgain(t, c, outcome)
    PROVE  Inv'
<1>a. PICK j : j = job[t]
  OBVIOUS
<1> DEFINE call == Start(Ingest(c))
           done == c \in DOMAIN Table(t[1]) /\ Answer(call, outcome)
           ids == IF Arrives(outcome) THEN {call.id} ELSE {}
<1>b. PICK failed : failed = j.failed \cup (IF done THEN {} ELSE {call})
  OBVIOUS
<1> DEFINE next == [j EXCEPT !.left = j.left \ {c}, !.failed = failed]
<1>1. j # NoJob /\ j.type = "purge" /\ j.step = "restart" /\ windows' = windows
  BY <1>a DEF StartAgain, Purging
<1>2. DOMAIN j = Fields /\ RemovalFits(j)
  BY <1>a, <1>1, RemovalTyped
<1>3. process' = IF Arrives(outcome) THEN CoreAfter(call) ELSE process
  BY DEF StartAgain
<1>4. Untouched(ids)
  BY <1>3, CallUntouched, QuietUntouched
<1>5. job' = [Noticed(t, ids) EXCEPT ![t] = next]
  BY <1>a, <1>b DEF StartAgain, Touched
<1>6. done => Reached(call)'
  <2>1. done => Answer(call, outcome) /\ Arrives(outcome)
    BY DEF Answer, Arrives
  <2>2. call.do \in Dos
    BY DEF Start, Dos
  <2> HIDE DEF done, call
  <2> QED
    BY <1>3, <2>1, <2>2, CallReaches
<1>7. \A d : Start(Ingest(d)).id = Ingest(d) /\ Start(Ingest(d)).do \in Dos
  BY DEF Start, Dos
<1>8. \A d : d # c => Ingest(d) # Ingest(c)
  BY IdsApart
<1>9. \A d : d # c => Ingest(d) \notin ids
  BY <1>7, <1>8
<1>10. done \/ call \in failed
  BY <1>b
<1>11. j.failed \subseteq failed
  BY <1>b
<1> HIDE DEF done, ids
<1>12. /\ DOMAIN next = Fields /\ next.type = j.type /\ next.step = j.step /\ next.left = j.left \ {c}
       /\ next.stopped = j.stopped /\ next.failed = failed /\ next.others = j.others
  BY <1>2 DEF Fields
<1> HIDE DEF next
<1>13. ASSUME NEW d \in next.stopped, Ingest(d) \notin next.others, Start(Ingest(d)) \notin next.failed
       PROVE  d \in next.left \/ Reached(Start(Ingest(d)))'
  <2>1. CASE d = c
    BY <1>6, <1>10, <1>12, <1>13, <2>1
  <2>2. CASE d # c
    <3>1. d \in j.left \/ Reached(Start(Ingest(d)))
      BY <1>1, <1>2, <1>11, <1>12, <1>13 DEF RemovalFits
    <3>2. Reached(Start(Ingest(d)))' <=> Reached(Start(Ingest(d)))
      BY <1>4, <1>7, <1>9, <2>2, ReachedStays
    <3> QED
      BY <1>12, <2>2, <3>1, <3>2
  <2> QED
    BY <2>1, <2>2
<1>14. RemovalFits(next)'
  BY <1>1, <1>12, <1>13 DEF RemovalFits
<1>15. StillRest(next)'
  BY <1>1, <1>12 DEF StillRest, Counted
<1> QED
  BY <1>a, <1>1, <1>4, <1>5, <1>12, <1>14, <1>15, RemovalStep

-----------------------------------------------------------------------------
(* The calls of a page *)

LEMMA UntouchedMore ==
    ASSUME NEW ids, NEW more, Untouched(ids), ids \subseteq more PROVE Untouched(more)
BY DEF Untouched

\* A job of a page is none of a removal.
LEMMA PageTyped ==
    ASSUME Inv, NEW t \in Tasks, job[t] # NoJob, job[t].step \in {"calls", "skip", "timer"}
    PROVE  /\ DOMAIN job[t] = Fields /\ PageFits(job[t], Table(t[1]))
           /\ windows[t[1]].open /\ WindowFits(windows[t[1]]) /\ t[1] \in Windows
           /\ IsTable(Table(t[1])) /\ windows[t[1]].selected \in DOMAIN Table(t[1])
<1>1. t[1] \in Windows
  BY DEF Tasks
<1>2. JobFits(job[t], windows[t[1]]) /\ WindowFits(windows[t[1]])
  BY <1>1 DEF Inv
<1>3. ~RemovalFits(job[t])
  BY DEF RemovalFits
<1> QED
  BY <1>1, <1>2, <1>3 DEF JobFits, WindowFits, Table

\* A job that is over fits whatever became of the table.
LEMMA DeletedFits ==
    ASSUME NEW j, NEW table, NEW new, PageFits(j, table)', Deleted(j)
    PROVE  PageFits(j, new)'
<1>1. j.calls = <<>> /\ j.type = "delete" /\ j.step = "done"
  BY DEF PageFits, Deleted
<1>2. Promised(j, new) = Promised(j, table)
  BY <1>1 DEF Promised
<1> QED
  BY <1>1, <1>2 DEF PageFits

LEMMA GoesKeeps ==
    ASSUME Inv, NEW t \in Tasks, NEW j, j = job[t], j # NoJob, j.step \in {"calls", "skip"},
           NEW ok \in BOOLEAN, ok => j.step = "calls" /\ Reached(Head(j.calls))',
           NEW table, IsTable(table), DOMAIN table = DOMAIN Table(t[1]), Fewer(table, Table(t[1]), {}),
           NEW touched, Untouched(touched), Untouched({Head(j.calls).id}),
           Goes(t, After(j, table, ok), table, touched)
    PROVE  Inv'
<1> DEFINE w == t[1]
<1>a. PICK next : next = After(j, table, ok)
  OBVIOUS
<1> DEFINE window == [windows[w] EXCEPT !.table = table]
           more == {}
<1>1. /\ DOMAIN j = Fields /\ PageFits(j, Table(w)) /\ windows[w].open /\ WindowFits(windows[w])
      /\ w \in Windows /\ IsTable(Table(w)) /\ windows[w].selected \in DOMAIN Table(w)
  BY PageTyped
<1>2. There(j, table) \subseteq There(j, Table(w))
  BY ThereLess
<1>3. /\ DOMAIN next = Fields /\ Same(next, j) /\ next.step \in {"calls", "skip", "done"}
      /\ PageFits(next, table)'
  <2>1. PICK old : old = Table(w)
    OBVIOUS
  <2> QED
    BY <1>a, <1>1, <1>2, <2>1, AfterFits
<1>4. /\ DOMAIN window = DOMAIN windows[w] /\ window.open /\ window.table = table
      /\ window.selected = windows[w].selected
  BY <1>1 DEF WindowFits
<1>5. WindowFits(window)
  BY <1>1, <1>4 DEF WindowFits
<1> DEFINE ids == touched \cup (IF Deleted(next) THEN {Listing(w)} ELSE {})
<1>6. PICK new \in Ended(window, next) : windows' = [windows EXCEPT ![w] = new]
  BY <1>a DEF Goes
<1>7. job' = [Noticed(t, ids) EXCEPT ![t] = next]
  BY <1>a DEF Goes
<1>8. Untouched(ids)
  BY UntouchedMore
<1> HIDE DEF window, ids
<1>9. /\ WindowFits(new) /\ new.open /\ Fewer(new.table, table, {})
      /\ ~Deleted(next) => new.table = table
  BY <1>4, <1>5, <1>6, EndedFits
<1>10. Fewer(new.table, windows[w].table, more)
  BY <1>9, FewerFewer DEF Table
<1>b. PICK left : left = new.table
  OBVIOUS
<1>11. PageFits(next, left)'
  <2>1. CASE Deleted(next)
    BY <1>3, <2>1, DeletedFits
  <2>2. CASE ~Deleted(next)
    BY <1>3, <1>9, <1>b, <2>2
  <2> QED
    BY <2>1, <2>2
<1>12. next.type # "purge" /\ next # NoJob
  <2>1. next.type \in PageTypes
    BY <1>1, <1>3 DEF PageFits, Same
  <2>2. "purge" \notin PageTypes
    BY DEF PageTypes
  <2>3. "type" \in DOMAIN next /\ "step" \in DOMAIN next
    BY <1>3 DEF Fields
  <2>4. next # NoJob
    BY <2>3 DEF NoJob
  <2> QED
    BY <2>1, <2>2, <2>4
<1>13. StillRest(next)'
  BY <1>12 DEF StillRest, Counted
<1>14. JobFits(next, new)'
  BY <1>3, <1>9, <1>b, <1>11, <1>12, <1>13 DEF JobFits
<1>15. \A u \in Tasks : u # t /\ job[u] # NoJob => job[u].listed \cap more = {}
  OBVIOUS
<1> HIDE DEF more
<1> QED
  BY <1>6, <1>7, <1>8, <1>9, <1>10, <1>14, <1>15, OwnStep

LEMMA CallKeeps ==
    ASSUME Inv, NEW t \in Tasks, NEW outcome, Call(t, outcome)
    PROVE  Inv'
<1>1. PICK j : j = job[t]
  OBVIOUS
<1>2. PICK call : call = Head(j.calls)
  OBVIOUS
<1>3. PICK ok \in BOOLEAN : ok = Answer(call, outcome)
  BY DEF Answer
<1>4. PICK table : table = TableAfter(t[1], j.type, call, ok)
  OBVIOUS
<1>5. PICK touched : touched = IF Arrives(outcome) THEN {call.id} ELSE {}
  OBVIOUS
<1>6. /\ j # NoJob /\ j.step = "calls" /\ process' = IF Arrives(outcome) THEN CoreAfter(call) ELSE process
      /\ Goes(t, After(j, table, ok), table, touched)
  BY <1>1, <1>2, <1>3, <1>4, <1>5 DEF Call
<1>7. PageFits(j, Table(t[1])) /\ IsTable(Table(t[1]))
  BY <1>1, <1>6, PageTyped
<1>8. IsTable(table) /\ DOMAIN table = DOMAIN Table(t[1]) /\ Fewer(table, Table(t[1]), {})
  BY <1>4, <1>7, TableAfterCall
<1>9. Untouched(touched) /\ Untouched({call.id})
  <2>1. CASE Arrives(outcome)
    BY <1>5, <1>6, <2>1, CallUntouched
  <2>2. CASE ~Arrives(outcome)
    BY <1>5, <1>6, <2>2, QuietUntouched
  <2> QED
    BY <2>1, <2>2
<1>10. call.do \in Dos
  <2>1. j.calls # <<>> /\ call.do # "stopall" /\ CallsFit(j, j.calls)
    BY <1>2, <1>6, <1>7 DEF PageFits
  <2>2. call \in CallsFor(j.channel)
    BY <1>2, <2>1 DEF CallsFit
  <2> QED
    BY <2>1, <2>2 DEF CallsFor, Dos
<1>11. ok => Reached(call)'
  <2>1. SUFFICES ASSUME ok PROVE Reached(call)'
    OBVIOUS
  <2>2. Arrives(outcome)
    BY <1>3, <2>1 DEF Answer, Arrives
  <2> QED
    BY <1>3, <1>6, <1>10, <2>1, <2>2, CallReaches
<1> QED
  BY <1>1, <1>2, <1>6, <1>8, <1>9, <1>11, GoesKeeps

LEMMA SkipKeeps ==
    ASSUME Inv, NEW t \in Tasks, Skip(t)
    PROVE  Inv'
<1>1. PICK j : j = job[t]
  OBVIOUS
<1>2. PICK table : table = Table(t[1])
  OBVIOUS
<1>3. PICK ok \in BOOLEAN : ok = FALSE
  OBVIOUS
<1>4. PICK touched : touched = {}
  OBVIOUS
<1>5. /\ j # NoJob /\ j.step = "skip" /\ process' = process
      /\ Goes(t, After(j, table, ok), table, touched)
  BY <1>1, <1>2, <1>3, <1>4 DEF Skip
<1>6. IsTable(table) /\ Fewer(table, Table(t[1]), {})
  BY <1>1, <1>2, <1>5, PageTyped DEF Fewer
<1>7. Untouched(touched) /\ Untouched({Head(j.calls).id})
  BY <1>5, QuietUntouched
<1> QED
  BY <1>1, <1>2, <1>3, <1>5, <1>6, <1>7, GoesKeeps

\* A job changes, and nothing else.
LEMMA QuietStep ==
    ASSUME Inv, NEW t \in Tasks, windows[t[1]].open, windows' = windows, process' = process,
           NEW next, job' = [job EXCEPT ![t] = next], NEW window, window = windows[t[1]],
           JobFits(next, window)'
    PROVE  Inv'
<1>1. WindowFits(window) /\ t[1] \in Windows
  BY DEF Inv, Tasks
<1>2. windows' = [windows EXCEPT ![t[1]] = window] /\ Fewer(window.table, windows[t[1]].table, {})
  BY <1>1, SameWindow
<1> DEFINE more == {}
           ids == {}
<1>3. \A u \in Tasks : u # t /\ job[u] # NoJob => job[u].listed \cap more = {}
  OBVIOUS
<1>4. Fewer(window.table, windows[t[1]].table, more) /\ Untouched(ids) /\ ids = {}
  BY <1>2, QuietUntouched
<1> HIDE DEF more, ids
<1> QED
  BY <1>1, <1>2, <1>3, <1>4, OwnStep

LEMMA LeaveKeeps ==
    ASSUME Inv, NEW t \in Tasks, Leave(t)
    PROVE  Inv'
<1>1. PICK next : next = NoJob
  OBVIOUS
<1>2. PICK window : window = windows[t[1]]
  OBVIOUS
<1>3. windows' = windows /\ process' = process /\ job' = [job EXCEPT ![t] = next] /\ job[t] # NoJob
  BY <1>1 DEF Leave
<1>4. windows[t[1]].open
  BY <1>3 DEF Inv, JobFits
<1>5. JobFits(next, window)'
  BY <1>1 DEF JobFits
<1> QED
  BY <1>2, <1>3, <1>4, <1>5, QuietStep
-----------------------------------------------------------------------------
(* What a user, a page and the Core do by themselves *)

LEMMA NoTask == \A u \in Tasks : u # <<>>
<1> TAKE u \in Tasks
<1>1. PICK w \in Windows, n \in Slots : u = <<w, n>>
  BY DEF Tasks
<1>2. <<w, n>> # <<>>
  OBVIOUS
<1> QED
  BY <1>1, <1>2

\* A window that stays open changes; its jobs notice it.
LEMMA WindowStep ==
    ASSUME Inv, NEW w \in Windows, NEW new, windows' = [windows EXCEPT ![w] = new], WindowFits(new),
           new.open, Fewer(new.table, windows[w].table, {}), process' = process,
           NEW ids, (job' = job /\ ids = {}) \/ job' = Noticed(<<>>, ids)
    PROVE  Inv'
<1>1. Untouched(ids)
  BY QuietUntouched
<1>2. job' = [u \in Tasks |-> job'[u]]
  BY DEF Inv, Noticed
<1> DEFINE more == {}
<1>3. ASSUME NEW u \in Tasks
      PROVE  \/ JobFits(job[u], windows[u[1]])'
             \/ /\ job[u] # NoJob
                /\ \/ job'[u] = job[u] /\ ids = {}
                   \/ job'[u] = [job[u] EXCEPT !.others = job[u].others \cup ids]
                /\ u[1] = w => new.open /\ There(job[u], new.table) \subseteq There(job[u], windows[w].table)
  <2>1. CASE job[u] = NoJob
    <3>1. job'[u] = NoJob
      BY <2>1 DEF Noticed
    <3> QED
      BY <3>1 DEF JobFits
  <2>2. CASE job[u] # NoJob
    <3>1. \/ job'[u] = job[u] /\ ids = {}
          \/ job'[u] = [job[u] EXCEPT !.others = job[u].others \cup ids]
      BY <2>2, NoTask DEF Noticed
    <3>2. job[u].listed \cap more = {} /\ Fewer(new.table, windows[w].table, more)
      OBVIOUS
    <3>3. There(job[u], new.table) \subseteq There(job[u], windows[w].table)
      <4> HIDE DEF more
      <4> QED
        BY <3>2, ThereLess
    <3> QED
      BY <2>2, <3>1, <3>3
  <2> QED
    BY <2>1, <2>2
<1> HIDE DEF more
<1> QED
  BY <1>1, <1>2, <1>3, StepKeeps

\* A window that is closed has no jobs.
LEMMA ClosedKeeps ==
    ASSUME Inv, NEW w \in Windows, NEW new, windows' = [windows EXCEPT ![w] = new], WindowFits(new),
           process' = process,
           job' = [u \in Tasks |-> IF u[1] = w THEN NoJob ELSE job[u]]
    PROVE  Inv'
<1> DEFINE ids == {}
<1>1. Untouched(ids)
  BY QuietUntouched
<1>2. job' = [u \in Tasks |-> job'[u]]
  OBVIOUS
<1>3. ASSUME NEW u \in Tasks
      PROVE  \/ JobFits(job[u], windows[u[1]])'
             \/ /\ job[u] # NoJob
                /\ \/ job'[u] = job[u] /\ ids = {}
                   \/ job'[u] = [job[u] EXCEPT !.others = job[u].others \cup ids]
                /\ u[1] = w => new.open /\ There(job[u], new.table) \subseteq There(job[u], windows[w].table)
  <2>1. job'[u] = NoJob => JobFits(job[u], windows[u[1]])'
    BY DEF JobFits
  <2> QED
    BY <2>1
<1> HIDE DEF ids
<1> QED
  BY <1>1, <1>2, <1>3, StepKeeps

LEMMA OpenKeeps ==
    ASSUME Inv, NEW w \in Windows, NEW outcome, Open(w, outcome)
    PROVE  Inv'
<1>1. /\ ~windows[w].open /\ process' = process /\ job' = job /\ WindowFits(windows[w])
      /\ job' = [u \in Tasks |-> job[u]]
  BY DEF Open, Inv
<1>2. PICK table \in Filled(Discovered(outcome)) : \E c \in DOMAIN table :
          windows' = [windows EXCEPT ![w] = [@ EXCEPT !.open = TRUE, !.table = table, !.selected = c]]
  BY DEF Open
<1>3. PICK c \in DOMAIN table :
          windows' = [windows EXCEPT ![w] = [@ EXCEPT !.open = TRUE, !.table = table, !.selected = c]]
  BY <1>2
<1>4. PICK new : new = [windows[w] EXCEPT !.open = TRUE, !.table = table, !.selected = c]
  OBVIOUS
<1>5. windows' = [windows EXCEPT ![w] = new]
  BY <1>3, <1>4
<1>6. IsTable(table)
  BY <1>2, TableDiscovered, TableFilled
<1>7. WindowFits(new)
  BY <1>1, <1>4, <1>6 DEF WindowFits
<1>8. \A u \in Tasks : u[1] = w => job[u] = NoJob
  BY <1>1 DEF Inv, JobFits
<1>9. job' = [u \in Tasks |-> IF u[1] = w THEN NoJob ELSE job[u]]
  BY <1>1, <1>8
<1> QED
  BY <1>1, <1>5, <1>7, <1>9, ClosedKeeps

LEMMA CloseKeeps ==
    ASSUME Inv, NEW w \in Windows, Close(w)
    PROVE  Inv'
<1>1. PICK new : new = [windows[w] EXCEPT !.open = FALSE, !.table = <<>>, !.selected = "", !.onConnect = FALSE]
  OBVIOUS
<1>2. windows' = [windows EXCEPT ![w] = new] /\ process' = process
      /\ job' = [u \in Tasks |-> IF u[1] = w THEN NoJob ELSE job[u]]
  BY <1>1 DEF Close
<1>3. WindowFits(new)
  BY <1>1 DEF WindowFits, Inv
<1> QED
  BY <1>2, <1>3, ClosedKeeps

LEMMA SelectKeeps ==
    ASSUME Inv, NEW w \in Windows, NEW c, Select(w, c)
    PROVE  Inv'
<1>1. PICK new : new = [windows[w] EXCEPT !.selected = c, !.onConnect = FALSE]
  OBVIOUS
<1>2. PICK ids : ids = IF c = windows[w].selected THEN {} ELSE {Listing(w)}
  OBVIOUS
<1>3. /\ windows' = [windows EXCEPT ![w] = new] /\ process' = process
      /\ (job' = job /\ ids = {}) \/ job' = Noticed(<<>>, ids)
      /\ windows[w].open /\ c \in DOMAIN windows[w].table
  BY <1>1, <1>2 DEF Select, Table
<1>4. WindowFits(windows[w])
  BY DEF Inv
<1>5. /\ DOMAIN new = DOMAIN windows[w] /\ new.open /\ new.table = windows[w].table
      /\ new.selected = c
  BY <1>1, <1>3, <1>4 DEF WindowFits
<1>6. WindowFits(new) /\ Fewer(new.table, windows[w].table, {})
  BY <1>3, <1>4, <1>5 DEF WindowFits, Fewer
<1> QED
  BY <1>3, <1>5, <1>6, WindowStep

LEMMA AddChannelKeeps ==
    ASSUME Inv, NEW w \in Windows, AddChannel(w)
    PROVE  Inv'
<1>1. PICK c \in Fresh :
          windows' = [windows EXCEPT ![w] =
                        [@ EXCEPT !.table = Created(Table(w), c), !.selected = c, !.onConnect = FALSE]]
  BY DEF AddChannel
<1>2. PICK table : table = Created(windows[w].table, c)
  OBVIOUS
<1>3. PICK new : new = [windows[w] EXCEPT !.table = table, !.selected = c, !.onConnect = FALSE]
  OBVIOUS
<1>4. PICK ids : ids = {Listing(w)}
  OBVIOUS
<1>5. /\ windows' = [windows EXCEPT ![w] = new] /\ process' = process
      /\ job' = Noticed(<<>>, ids) /\ windows[w].open
  BY <1>1, <1>2, <1>3, <1>4 DEF AddChannel, Table
<1>6. WindowFits(windows[w])
  BY DEF Inv
<1>7. IsTable(table) /\ c \in DOMAIN table /\ Fewer(table, windows[w].table, {})
  BY <1>2, <1>5, <1>6, FreshChannels, TableCreated DEF WindowFits
<1>8. /\ DOMAIN new = DOMAIN windows[w] /\ new.open /\ new.table = table /\ new.selected = c
  BY <1>3, <1>5, <1>6 DEF WindowFits
<1>9. WindowFits(new)
  BY <1>6, <1>7, <1>8 DEF WindowFits
<1> QED
  BY <1>5, <1>7, <1>8, <1>9, WindowStep

LEMMA SeesConnectingKeeps ==
    ASSUME Inv, NEW w \in Windows, SeesConnecting(w)
    PROVE  Inv'
<1>1. PICK new : new = [windows[w] EXCEPT !.onConnect = TRUE]
  OBVIOUS
<1> DEFINE ids == {}
<1>2. /\ windows' = [windows EXCEPT ![w] = new] /\ process' = process
      /\ job' = job /\ ids = {} /\ windows[w].open
  BY <1>1 DEF SeesConnecting, Delivers
<1>3. WindowFits(windows[w])
  BY DEF Inv
<1>4. /\ DOMAIN new = DOMAIN windows[w] /\ new.open /\ new.table = windows[w].table
      /\ new.selected = windows[w].selected
  BY <1>1, <1>2, <1>3 DEF WindowFits
<1>5. WindowFits(new) /\ Fewer(new.table, windows[w].table, {})
  BY <1>2, <1>3, <1>4 DEF WindowFits, Fewer
<1> HIDE DEF ids
<1> QED
  BY <1>2, <1>4, <1>5, WindowStep

\* A process that was stopped ends, or the manager goes on.
LEMMA OthersKeep ==
    ASSUME Inv, Untouched({}), windows' = windows, job' = job
    PROVE  Inv'
<1>1. ASSUME NEW t \in Tasks PROVE JobFits(job[t], windows[t[1]])'
  <2>1. PICK j : j = job[t]
    OBVIOUS
  <2>2. PICK window : window = windows[t[1]]
    OBVIOUS
  <2>3. JobFits(j, window)
    BY <2>1, <2>2 DEF Inv
  <2>4. JobFits(j, window)'
    <3>1. CASE j = NoJob
      BY <3>1 DEF JobFits
    <3>2. CASE j # NoJob
      <4> DEFINE ids == {}
      <4>1. Untouched(ids) /\ ids = {} /\ window.open
        BY <2>3, <3>2 DEF JobFits
      <4> HIDE DEF ids
      <4> QED
        BY <2>3, <3>2, <4>1, OtherFits
    <3> QED
      BY <3>1, <3>2
  <2> QED
    BY <2>1, <2>2, <2>4
<1> QED
  BY <1>1 DEF Inv

\* A page sees that its channel is connected: the timer of onConnect begins.
LEMMA SeesConnectedKeeps ==
    ASSUME Inv, NEW t \in Tasks, SeesConnected(t)
    PROVE  Inv'
<1> DEFINE w == t[1]
<1>1. PICK new : new = [windows[w] EXCEPT !.onConnect = FALSE]
  OBVIOUS
<1>2. PICK next : next = Job("refresh", "timer", windows[w].selected, "", {}, 0)
  OBVIOUS
<1>3. /\ windows' = [windows EXCEPT ![w] = new] /\ process' = process /\ windows[w].open
      /\ job' = [job EXCEPT ![t] = next] /\ w \in Windows
  BY <1>1, <1>2 DEF SeesConnected, Delivers, Tasks
<1>4. WindowFits(windows[w])
  BY <1>3 DEF Inv
<1>5. /\ DOMAIN new = DOMAIN windows[w] /\ new.open /\ new.table = windows[w].table
      /\ new.selected = windows[w].selected
  BY <1>1, <1>3, <1>4 DEF WindowFits
<1> DEFINE more == {}
           ids == {}
<1>6. WindowFits(new) /\ Fewer(new.table, windows[w].table, more)
  BY <1>3, <1>4, <1>5 DEF WindowFits, Fewer
<1>7. /\ DOMAIN next = Fields /\ next.type = "refresh" /\ next.step = "timer" /\ next.calls = <<>>
  BY <1>2 DEF Job, Fields
<1>8. next # NoJob
  <2>1. "step" \in DOMAIN next
    BY <1>7 DEF Fields
  <2> QED
    BY <2>1 DEF NoJob
<1>9. CallsFit(next, next.calls)
  BY <1>7 DEF CallsFit
<1>10. next.type \in PageTypes
  BY <1>7 DEF PageTypes
<1>11. PageFits(next, new.table)'
  BY <1>7, <1>9, <1>10 DEF PageFits
<1>12. StillRest(next)'
  BY <1>7 DEF StillRest, Counted
<1>13. JobFits(next, new)'
  BY <1>5, <1>7, <1>11, <1>12 DEF JobFits
<1>14. \A u \in Tasks : u # t /\ job[u] # NoJob => job[u].listed \cap more = {}
  OBVIOUS
<1>15. Untouched(ids) /\ ids = {}
  BY <1>3, QuietUntouched
<1> HIDE DEF more, ids
<1> QED
  BY <1>3, <1>5, <1>6, <1>13, <1>14, <1>15, OwnStep
-----------------------------------------------------------------------------
(* A job begins *)

LEMMA OneCall ==
    ASSUME NEW a PROVE Coming(<<a>>, a)
BY DEF Coming

LEMMA TwoCalls ==
    ASSUME NEW a, NEW b
    PROVE  Coming(<<a, b>>, b) /\ (a.id # b.id => Coming(<<a, b>>, a))
<1>1. DOMAIN <<a, b>> = 1..2 /\ <<a, b>>[1] = a /\ <<a, b>>[2] = b
  OBVIOUS
<1> QED
  BY <1>1 DEF Coming

LEMMA ThreeCalls ==
    ASSUME NEW a, NEW b, NEW c, NEW calls, calls = <<a, b, c>>
    PROVE  /\ Coming(calls, c) /\ (b.id # c.id => Coming(calls, b))
           /\ a.id # b.id /\ a.id # c.id => Coming(calls, a)
<1>1. DOMAIN calls = 1..3 /\ calls[1] = a /\ calls[2] = b /\ calls[3] = c
  OBVIOUS
<1> QED
  BY <1>1 DEF Coming

\* All that a job promises is to come.
Begins(j, table, calls) ==
    /\ CallsFit(j, calls)
    /\ \A call \in Promised(j, table) : Coming(calls, call) \/ AllComing(calls, call)

LEMMA CallFields ==
    ASSUME NEW id
    PROVE  /\ Start(id).do = "start" /\ Start(id).id = id /\ Stop(id).do = "stop" /\ Stop(id).id = id
           /\ Delete(id).do = "delete" /\ Delete(id).id = id
           /\ Upsert(id).do = "upsert" /\ Upsert(id).id = id
BY DEF Start, Stop, Delete, Upsert

LEMMA MainCalls ==
    ASSUME NEW c, NEW id \in {Ingest(c), Snapshot(c), Preview(c)} \cup { Egress(c, e) : e \in Egresses }
    PROVE  {Start(id), Stop(id), Delete(id), Upsert(id)} \subseteq CallsFor(c)
<1>1. id \in Ids(c)
  BY Zenon DEF Ids
<1> QED
  BY <1>1 DEF Start, Stop, Delete, Upsert, CallsFor

LEMMA MainApart ==
    ASSUME NEW c, NEW d
    PROVE  /\ Ingest(c) # Snapshot(d) /\ Ingest(c) # Preview(d) /\ Snapshot(c) # Preview(d)
           /\ \A e : Ingest(c) # Egress(d, e) /\ Snapshot(c) # Egress(d, e)
BY IdsApart

\* The calls that start, stop or save a channel
LEMMA MainBegins ==
    ASSUME NEW table, NEW j, NEW c, c = j.channel,
           j.type \in {"connect", "refresh", "save", "wizard", "edit"}
    PROVE  Begins(j, table, Calls(table, j.type, c, j.egress))
<1> DEFINE in == Ingest(c)
           snap == Snapshot(c)
           pre == Preview(c)
<1>1. in # snap /\ in # pre /\ snap # pre /\ in[1] = "ingest" /\ snap[1] # "ingest" /\ pre[1] # "ingest"
  BY MainApart, IdsApart
<1>2. \A id \in {in, snap, pre} : {Start(id), Stop(id), Upsert(id)} \subseteq CallsFor(c)
  BY MainCalls
<1> HIDE DEF in, snap, pre
<1>3. CASE j.type = "connect"
  <2>1. Calls(table, j.type, c, j.egress) = <<Start(in), Start(snap)>>
    BY <1>3 DEF Calls, Connect, in, snap
  <2>2. Promised(j, table) = {Start(in), Start(snap)}
    BY <1>3 DEF Promised, in, snap
  <2>3. Coming(<<Start(in), Start(snap)>>, Start(in)) /\ Coming(<<Start(in), Start(snap)>>, Start(snap))
    BY <1>1, CallFields, TwoCalls
  <2>4. CallsFit(j, <<Start(in), Start(snap)>>)
    BY <1>2, <1>3, CallFields DEF CallsFit, Persists
  <2> QED
    BY <2>1, <2>2, <2>3, <2>4 DEF Begins
<1>4. CASE j.type = "refresh"
  <2>1. Calls(table, j.type, c, j.egress) = <<Stop(snap), Start(snap)>>
    BY <1>4 DEF Calls, Refresh, snap
  <2>2. Promised(j, table) = {Start(snap)}
    BY <1>4 DEF Promised, snap
  <2>3. Coming(<<Stop(snap), Start(snap)>>, Start(snap))
    BY TwoCalls
  <2>4. CallsFit(j, <<Stop(snap), Start(snap)>>)
    BY <1>2, <1>4, CallFields DEF CallsFit, Persists
  <2> QED
    BY <2>1, <2>2, <2>3, <2>4 DEF Begins
<1>5. CASE j.type = "edit"
  <2>1. Calls(table, j.type, c, j.egress) = <<Stop(in), Stop(snap)>>
    BY <1>5 DEF Calls, EditSource, in, snap
  <2>2. Promised(j, table) \subseteq {Stop(in), Stop(snap)}
    BY <1>5 DEF Promised, in, snap
  <2>3. Coming(<<Stop(in), Stop(snap)>>, Stop(in)) /\ Coming(<<Stop(in), Stop(snap)>>, Stop(snap))
    BY <1>1, CallFields, TwoCalls
  <2>4. Needed(j) = Stop(in) /\ j.type \in Needing
    BY <1>5 DEF Needed, Needing, in
  <2>5. CallsFit(j, <<Stop(in), Stop(snap)>>)
    BY <1>2, <2>4, CallFields DEF CallsFit
  <2> QED
    BY <2>1, <2>2, <2>3, <2>5 DEF Begins
<1>6. CASE j.type = "wizard"
  <2>1. Calls(table, j.type, c, j.egress) = <<Upsert(in), Upsert(snap)>>
    BY <1>6 DEF Calls, SaveWizard, in, snap
  <2>2. Promised(j, table) \subseteq {Upsert(in), Upsert(snap)}
    BY <1>6 DEF Promised, in, snap
  <2>3. Coming(<<Upsert(in), Upsert(snap)>>, Upsert(in)) /\ Coming(<<Upsert(in), Upsert(snap)>>, Upsert(snap))
    BY <1>1, CallFields, TwoCalls
  <2>4. Needed(j) = Upsert(in) /\ j.type \in Needing
    BY <1>6 DEF Needed, Needing, in
  <2>5. CallsFit(j, <<Upsert(in), Upsert(snap)>>)
    BY <1>2, <2>4, CallFields DEF CallsFit
  <2> QED
    BY <2>1, <2>2, <2>3, <2>5 DEF Begins
<1>7. CASE j.type = "save"
  <2>0. PICK calls : calls = <<Upsert(in), Upsert(snap), Upsert(pre)>>
    OBVIOUS
  <2>1. Calls(table, j.type, c, j.egress) = calls
    BY <1>7, <2>0 DEF Calls, SaveIngest, in, snap, pre
  <2>2. Promised(j, table) \subseteq {Upsert(in), Upsert(snap), Upsert(pre)}
    BY <1>7 DEF Promised, in, snap, pre
  <2>3. Coming(calls, Upsert(in)) /\ Coming(calls, Upsert(snap)) /\ Coming(calls, Upsert(pre))
    BY <1>1, <2>0, CallFields, ThreeCalls
  <2>4. Needed(j) = Upsert(in) /\ j.type \in Needing
    BY <1>7 DEF Needed, Needing, in
  <2>5. DOMAIN calls = 1..3 /\ calls[1] = Upsert(in) /\ calls[2] = Upsert(snap) /\ calls[3] = Upsert(pre)
    BY <2>0
  <2>6. calls \in Seq(CallsFor(j.channel)) /\ Len(calls) = 3
    BY <1>2, <2>0
  <2>7. Persists(j.type, Upsert(snap)) /\ Persists(j.type, Upsert(pre))
    BY <1>1, <1>7, CallFields DEF Persists
  <2>8. \A i \in DOMAIN calls : calls[i].do # "stopall"
    BY <2>5, CallFields
  <2>9. CallsFit(j, calls)
    BY <2>4, <2>5, <2>6, <2>7, <2>8 DEF CallsFit
  <2> QED
    BY <2>1, <2>2, <2>3, <2>9 DEF Begins
<1> QED
  BY <1>3, <1>4, <1>5, <1>6, <1>7

\* Those that stop a channel, and start it again
LEMMA AllOfChannel ==
    ASSUME NEW c
    PROVE  \E all : /\ all = StopAll(c) /\ all \in CallsFor(c) /\ all.do = "stopall"
                    /\ all.id # Ingest(c) /\ all.id # Snapshot(c)
<1>1. PICK id : id = Egress(c, "")
  OBVIOUS
<1>2. id \in Ids(c)
  BY <1>1, Zenon DEF Ids
<1>3. id # Ingest(c) /\ id # Snapshot(c)
  BY <1>1, MainApart, Zenon
<1>4. StopAll(c) = [do |-> "stopall", id |-> id]
  BY <1>1, Zenon DEF StopAll
<1>5. PICK all : all = [do |-> "stopall", id |-> id]
  OBVIOUS
<1> QED
  BY <1>2, <1>3, <1>4, <1>5 DEF CallsFor

LEMMA DisconnectPersists ==
    ASSUME NEW type \in {"disconnect", "reconnect"}, NEW call, call.do # "upsert"
    PROVE  Persists(type, call)
<1>1. type \notin {"edit", "restart egress"}
  BY Zenon
<1> QED
  BY <1>1, Zenon DEF Persists

\* The calls that stop a channel, and those that start it again
Stops(c, in, snap, all, calls, n) ==
    /\ in # snap /\ in[1] # "egress" /\ snap[1] # "egress"
    /\ all.do = "stopall" /\ all.id # in /\ all.id # snap
    /\ {Start(in), Stop(in), Start(snap), Stop(snap), all} \subseteq CallsFor(c)
    /\ n \in {3, 5} /\ calls \in Seq(CallsFor(c)) /\ Len(calls) = n
    /\ calls[1] = Stop(snap) /\ calls[2] = Stop(in) /\ calls[3] = all
    /\ n = 5 => calls[4] = Start(in) /\ calls[5] = Start(snap)

StopsFit(j, in, snap, calls, n) ==
    /\ CallsFit(j, calls)
    /\ n = 3 => Coming(calls, Stop(in)) /\ Coming(calls, Stop(snap))
    /\ n = 5 => Coming(calls, Start(in)) /\ Coming(calls, Start(snap))
    /\ \A call : call.id[1] = "egress" => AllComing(calls, call)

LEMMA DisconnectFits ==
    ASSUME NEW j, j.type \in {"disconnect", "reconnect"}, NEW in, NEW snap, NEW all,
           NEW calls, NEW n, Stops(j.channel, in, snap, all, calls, n)
    PROVE  StopsFit(j, in, snap, calls, n)
<1>0. n \in Nat /\ DOMAIN calls = 1..n
  BY DEF Stops
<1> USE <1>0 DEF Stops
<1>1. \A i \in DOMAIN calls : i # 3 => /\ calls[i].id \in {in, snap} /\ calls[i].do \in {"start", "stop"}
  BY CallFields
<1>2. \A i \in DOMAIN calls : Persists(j.type, calls[i])
  <2>1. \A i \in DOMAIN calls : calls[i].do # "upsert"
    BY <1>1
  <2> QED
    BY <2>1, DisconnectPersists
<1>3. CallsFit(j, calls)
  <2>1. \A i \in DOMAIN calls : i # 3 => calls[i].id[1] # "egress" /\ calls[i].do # "stopall"
    BY <1>1
  <2>2. \A i \in DOMAIN calls : calls[i].do = "stopall" => i = 3
    BY <2>1
  <2> QED
    BY <1>2, <2>1, <2>2 DEF CallsFit
<1>4. ASSUME n = 3 PROVE Coming(calls, Stop(in)) /\ Coming(calls, Stop(snap))
  BY <1>4, CallFields DEF Coming
<1>5. ASSUME n = 5 PROVE Coming(calls, Start(in)) /\ Coming(calls, Start(snap))
  BY <1>5, CallFields DEF Coming
<1>6. \A call : call.id[1] = "egress" => AllComing(calls, call)
  BY DEF AllComing
<1> QED
  BY <1>3, <1>4, <1>5, <1>6 DEF StopsFit

LEMMA DisconnectBegins ==
    ASSUME NEW table, NEW j, NEW c, c = j.channel, j.type \in {"disconnect", "reconnect"}
    PROVE  Begins(j, table, Calls(table, j.type, c, j.egress))
<1>1. PICK in : in = Ingest(c)
  OBVIOUS
<1>2. PICK snap : snap = Snapshot(c)
  OBVIOUS
<1>3. PICK all : /\ all = StopAll(c) /\ all \in CallsFor(c) /\ all.do = "stopall"
                 /\ all.id # in /\ all.id # snap
  BY <1>1, <1>2, AllOfChannel
<1>4. in # snap /\ in[1] # "egress" /\ snap[1] # "egress"
  BY <1>1, <1>2, MainApart, IdsApart
<1>5. {Start(in), Stop(in), Start(snap), Stop(snap), all} \subseteq CallsFor(c)
  <2>1. in \in {Ingest(c), Snapshot(c), Preview(c)} \cup { Egress(c, e) : e \in Egresses }
    BY <1>1
  <2>2. snap \in {Ingest(c), Snapshot(c), Preview(c)} \cup { Egress(c, e) : e \in Egresses }
    BY <1>2
  <2>3. {Start(in), Stop(in)} \subseteq CallsFor(c) /\ {Start(snap), Stop(snap)} \subseteq CallsFor(c)
    BY <2>1, <2>2, MainCalls
  <2> QED
    BY <1>3, <2>3
<1>6. \A e : Stop(Egress(c, e)).id[1] = "egress"
  BY CallFields, IdsApart
<1>7. CASE j.type = "disconnect"
  <2>1. PICK calls : calls = <<Stop(snap), Stop(in), all>>
    OBVIOUS
  <2>2. Calls(table, j.type, c, j.egress) = calls
    BY <1>1, <1>2, <1>3, <1>7, <2>1, Zenon DEF Calls, Disconnect
  <2>3. /\ DOMAIN calls = 1..3 /\ calls[1] = Stop(snap) /\ calls[2] = Stop(in) /\ calls[3] = all
        /\ calls \in Seq(CallsFor(c)) /\ Len(calls) = 3
    BY <1>5, <2>1
  <2>4. /\ CallsFit(j, calls) /\ Coming(calls, Stop(in)) /\ Coming(calls, Stop(snap))
        /\ \A call : call.id[1] = "egress" => AllComing(calls, call)
    <3>1. PICK n : n = 3
      OBVIOUS
    <3>2. Stops(j.channel, in, snap, all, calls, n)
      BY <1>3, <1>4, <1>5, <2>3, <3>1 DEF Stops
    <3>7. StopsFit(j, in, snap, calls, n)
      BY <3>2, DisconnectFits
    <3> QED
      BY <3>1, <3>7 DEF StopsFit
  <2>5. Promised(j, table) = {Stop(in), Stop(snap)} \cup { Stop(Egress(c, e)) : e \in There(j, table) }
    BY <1>1, <1>2, <1>7 DEF Promised
  <2> QED
    BY <1>6, <2>2, <2>4, <2>5 DEF Begins
<1>8. CASE j.type = "reconnect"
  <2>1. PICK pre : pre = <<Stop(snap), Stop(in), all>>
    OBVIOUS
  <2>2. PICK rest : rest = <<Start(in), Start(snap)>>
    OBVIOUS
  <2>3. PICK calls : calls = pre \o rest
    OBVIOUS
  <2>4. Calls(table, j.type, c, j.egress) = calls
    BY <1>1, <1>2, <1>3, <1>8, <2>1, <2>2, <2>3, Zenon DEF Calls, Disconnect, Connect
  <2>5. /\ CallsFit(j, calls) /\ Coming(calls, Start(in)) /\ Coming(calls, Start(snap))
        /\ \A call : call.id[1] = "egress" => AllComing(calls, call)
    <3>1. PICK n : n = 5
      OBVIOUS
    <3>2. /\ pre \in Seq(CallsFor(c)) /\ Len(pre) = 3
          /\ pre[1] = Stop(snap) /\ pre[2] = Stop(in) /\ pre[3] = all
      BY <1>5, <2>1
    <3>3. rest \in Seq(CallsFor(c)) /\ Len(rest) = 2 /\ rest[1] = Start(in) /\ rest[2] = Start(snap)
      BY <1>5, <2>2
    <3>4. /\ calls \in Seq(CallsFor(c)) /\ Len(calls) = 5
          /\ \A i \in 1..3 : calls[i] = pre[i]
          /\ \A i \in 1..2 : calls[3 + i] = rest[i]
      <4>0. pre \in Seq(CallsFor(c)) /\ rest \in Seq(CallsFor(c))
        BY <3>2, <3>3
      <4>1. /\ pre \o rest \in Seq(CallsFor(c)) /\ Len(pre \o rest) = Len(pre) + Len(rest)
            /\ \A i \in 1..Len(pre) : (pre \o rest)[i] = pre[i]
            /\ \A i \in 1..Len(rest) : (pre \o rest)[Len(pre) + i] = rest[i]
        BY <4>0, Concat
      <4> QED
        BY <2>3, <3>2, <3>3, <4>1
    <3>5. /\ calls[1] = Stop(snap) /\ calls[2] = Stop(in) /\ calls[3] = all
          /\ calls[4] = Start(in) /\ calls[5] = Start(snap)
      <4>1. /\ 3 + 1 = 4 /\ 3 + 2 = 5 /\ 1 \in 1..3 /\ 2 \in 1..3 /\ 3 \in 1..3
            /\ 1 \in 1..2 /\ 2 \in 1..2
        OBVIOUS
      <4> QED
        BY <3>2, <3>3, <3>4, <4>1
    <3>6. Stops(j.channel, in, snap, all, calls, n)
      BY <1>3, <1>4, <1>5, <3>1, <3>4, <3>5 DEF Stops
    <3>7. StopsFit(j, in, snap, calls, n)
      BY <3>6, DisconnectFits
    <3> QED
      BY <3>1, <3>7 DEF StopsFit
  <2>6. Promised(j, table) = {Start(in), Start(snap)} \cup { Stop(Egress(c, e)) : e \in There(j, table) }
    BY <1>1, <1>2, <1>8 DEF Promised
  <2> QED
    BY <1>6, <2>4, <2>5, <2>6 DEF Begins
<1> QED
  BY <1>7, <1>8
\* The jobs on a publication
EgressTypes == {"publish", "update", "unpublish", "start egress", "stop egress", "restart egress",
                "reconnect egress"}

LEMMA EgressBegins ==
    ASSUME NEW table, NEW j, NEW c, c = j.channel, j.egress \in Egresses, j.type \in EgressTypes
    PROVE  Begins(j, table, Calls(table, j.type, c, j.egress))
<1>1. PICK own : own = Egress(c, j.egress)
  OBVIOUS
<1>2. PICK calls : calls = Calls(table, j.type, c, j.egress)
  OBVIOUS
<1>3. Start(own) \in CallsFor(c) /\ Stop(own) \in CallsFor(c) /\ Delete(own) \in CallsFor(c) /\ Upsert(own) \in CallsFor(c)
  <2>1. own \in {Ingest(c), Snapshot(c), Preview(c)} \cup { Egress(c, e) : e \in Egresses }
    BY <1>1, Zenon
  <2>2. {Start(own), Stop(own), Delete(own), Upsert(own)} \subseteq CallsFor(c)
    BY <2>1, MainCalls
  <2> QED
    BY <2>2
<1>4. ASSUME NEW a, a \in {Upsert(own), Delete(own), Start(own), Stop(own)},
             calls = <<a>>, Promised(j, table) = {a}
      PROVE  Begins(j, table, calls)
  <2>1. Coming(calls, a)
    BY <1>4, OneCall
  <2>2. /\ calls \in Seq(CallsFor(c)) /\ DOMAIN calls = 1..1 /\ Len(calls) = 1 /\ calls[1] = a
        /\ a.do # "stopall"
    BY <1>3, <1>4, CallFields
  <2>3. CallsFit(j, calls)
    BY <2>2 DEF CallsFit
  <2> QED
    BY <1>4, <2>1, <2>3 DEF Begins
<1>5. ASSUME calls = <<Stop(own), Start(own)>>, Promised(j, table) \subseteq {Start(own)},
             Persists(j.type, Stop(own)) \/ (j.type \in Needing /\ Needed(j) = Stop(own))
      PROVE  Begins(j, table, calls)
  <2>1. Coming(calls, Start(own))
    BY <1>5, TwoCalls
  <2>2. /\ calls \in Seq(CallsFor(c)) /\ DOMAIN calls = 1..2 /\ Len(calls) = 2
        /\ calls[1] = Stop(own) /\ calls[2] = Start(own)
    BY <1>3, <1>5
  <2>3. \A i \in DOMAIN calls : calls[i].do # "stopall"
    BY <2>2, CallFields
  <2>4. CallsFit(j, calls)
    BY <1>5, <2>2, <2>3 DEF CallsFit
  <2> QED
    BY <1>5, <2>1, <2>4 DEF Begins
<1>6. CASE j.type \in {"publish", "update"}
  <2>1. calls = <<Upsert(own)>> /\ Promised(j, table) = {Upsert(own)}
    BY <1>1, <1>2, <1>6, Zenon DEF Calls, Promised
  <2> QED
    BY <1>2, <1>4, <2>1
<1>7. CASE j.type = "unpublish"
  <2>1. calls = <<Delete(own)>> /\ Promised(j, table) = {Delete(own)}
    BY <1>1, <1>2, <1>7, Zenon DEF Calls, Promised
  <2> QED
    BY <1>2, <1>4, <2>1
<1>8. CASE j.type = "start egress"
  <2>1. calls = <<Start(own)>> /\ Promised(j, table) = {Start(own)}
    BY <1>1, <1>2, <1>8, Zenon DEF Calls, Promised
  <2> QED
    BY <1>2, <1>4, <2>1, Zenon
<1>9. CASE j.type = "stop egress"
  <2>1. calls = <<Stop(own)>> /\ Promised(j, table) = {Stop(own)}
    BY <1>1, <1>2, <1>9, Zenon DEF Calls, Promised
  <2> QED
    BY <1>2, <1>4, <2>1, Zenon
<1>10. CASE j.type = "restart egress"
  <2>1. calls = <<Stop(own), Start(own)>>
    BY <1>1, <1>2, <1>10, Zenon DEF Calls
  <2>2. Promised(j, table) \subseteq {Start(own)}
    BY <1>1, <1>10, Zenon DEF Promised
  <2>3. j.type \in Needing /\ Needed(j) = Stop(own)
    BY <1>1, <1>10, Zenon DEF Needed, Needing
  <2> QED
    BY <1>2, <1>5, <2>1, <2>2, <2>3, Zenon
<1>11. CASE j.type = "reconnect egress"
  <2>1. calls = <<Stop(own), Start(own)>>
    BY <1>1, <1>2, <1>11, Zenon DEF Calls
  <2>2. Promised(j, table) \subseteq {Start(own)}
    BY <1>1, <1>11, Zenon DEF Promised
  <2>3. Persists(j.type, Stop(own))
    BY <1>11, CallFields, Zenon DEF Persists
  <2> QED
    BY <1>2, <1>5, <2>1, <2>2, <2>3, Zenon
<1> QED
  BY <1>2, <1>6, <1>7, <1>8, <1>9, <1>10, <1>11, Zenon DEF EgressTypes

LEMMA DeleteBegins ==
    ASSUME NEW table, IsTable(table), NEW j, NEW c \in DOMAIN table, c = j.channel,
           j.type = "delete", j.listed = table[c].egresses
    PROVE  Begins(j, table, Calls(table, j.type, c, j.egress))
<1>1. PICK stops : stops = StopAllEgresses(table, c)
  OBVIOUS
<1>2. PICK main : main = <<Delete(Ingest(c)), Delete(Snapshot(c))>>
  OBVIOUS
<1>3. PICK deletes : deletes = [i \in DOMAIN Listed(table, c) |-> Delete(Egress(c, Listed(table, c)[i]))]
  OBVIOUS
<1>4. PICK first : first = stops \o main
  OBVIOUS
<1>5. PICK calls : calls = first \o deletes
  OBVIOUS
<1>6. Calls(table, j.type, c, j.egress) = calls
  BY <1>1, <1>2, <1>3, <1>4, <1>5, Zenon DEF Calls, DeleteChannel
<1>7. /\ stops \in Seq(CallsFor(c))
      /\ \A i \in DOMAIN stops : stops[i].do = "stop"
  BY <1>1, StopList
<1>8. /\ deletes \in Seq(CallsFor(c))
      /\ \A i \in DOMAIN deletes : deletes[i].do = "delete" /\ deletes[i].id[1] = "egress"
      /\ \A e \in table[c].egresses : Coming(deletes, Delete(Egress(c, e)))
  <2>1. PICK do \in {"stop", "delete"} : do = "delete"
    OBVIOUS
  <2>2. deletes = [i \in DOMAIN Listed(table, c) |-> [do |-> do, id |-> Egress(c, Listed(table, c)[i])]]
    BY <1>3, <2>1 DEF Delete
  <2>3. /\ deletes \in Seq(CallsFor(c))
        /\ \A i \in DOMAIN deletes : deletes[i].do = do /\ deletes[i].id[1] = "egress"
        /\ \A e \in table[c].egresses : Coming(deletes, [do |-> do, id |-> Egress(c, e)])
    BY <2>2, ListOfCalls
  <2>4. \A e : Delete(Egress(c, e)) = [do |-> do, id |-> Egress(c, e)]
    BY <2>1 DEF Delete
  <2> QED
    BY <2>1, <2>3, <2>4
<1>9. /\ main \in Seq(CallsFor(c)) /\ Len(main) = 2
      /\ main[1] = Delete(Ingest(c)) /\ main[2] = Delete(Snapshot(c))
      /\ Coming(main, Delete(Ingest(c))) /\ Coming(main, Delete(Snapshot(c)))
  <2>1. Delete(Ingest(c)) \in CallsFor(c) /\ Delete(Snapshot(c)) \in CallsFor(c)
    BY MainCalls
  <2>2. Ingest(c) # Snapshot(c)
    BY MainApart
  <2>3. Delete(Ingest(c)).id # Delete(Snapshot(c)).id
    BY <2>2, CallFields
  <2>4. Coming(main, Delete(Ingest(c))) /\ Coming(main, Delete(Snapshot(c)))
    BY <1>2, <2>3, TwoCalls
  <2> QED
    BY <1>2, <2>1, <2>4
<1>10. /\ first \in Seq(CallsFor(c)) /\ \A i \in DOMAIN first : first[i].do \in {"stop", "delete"}
       /\ Coming(first, Delete(Ingest(c))) /\ Coming(first, Delete(Snapshot(c)))
  <2>1. /\ stops \o main \in Seq(CallsFor(c)) /\ Len(stops \o main) = Len(stops) + Len(main)
        /\ \A i \in 1..Len(stops) : (stops \o main)[i] = stops[i]
        /\ \A i \in 1..Len(main) : (stops \o main)[Len(stops) + i] = main[i]
        /\ \A i \in DOMAIN (stops \o main) : i \in 1..Len(stops) \/ \E k \in 1..Len(main) : i = Len(stops) + k
    <3>1. stops \in Seq(CallsFor(c)) /\ main \in Seq(CallsFor(c))
      BY <1>7, <1>9
    <3> QED
      BY <3>1, Concat
  <2>2. \A i \in 1..Len(stops) : stops[i].do = "stop"
    BY <1>7
  <2>3. \A i \in 1..Len(main) : main[i].do = "delete"
    BY <1>9, CallFields
  <2>4. \A i \in DOMAIN first : first[i].do \in {"stop", "delete"}
    BY <1>4, <2>1, <2>2, <2>3
  <2>5. /\ Coming(stops \o main, Delete(Ingest(c))) /\ Coming(stops \o main, Delete(Snapshot(c)))
    BY <1>7, <1>9, ComingConcat
  <2> QED
    BY <1>4, <2>1, <2>4, <2>5
<1>11. /\ calls \in Seq(CallsFor(c)) /\ \A i \in DOMAIN calls : calls[i].do \in {"stop", "delete"}
  <2>1. /\ first \o deletes \in Seq(CallsFor(c))
        /\ \A i \in 1..Len(first) : (first \o deletes)[i] = first[i]
        /\ \A i \in 1..Len(deletes) : (first \o deletes)[Len(first) + i] = deletes[i]
        /\ \A i \in DOMAIN (first \o deletes) : i \in 1..Len(first) \/ \E k \in 1..Len(deletes) : i = Len(first) + k
    BY <1>8, <1>10, Concat
  <2>2. \A i \in 1..Len(first) : first[i].do \in {"stop", "delete"}
    BY <1>10
  <2>3. \A i \in 1..Len(deletes) : deletes[i].do = "delete"
    BY <1>8
  <2> QED
    BY <1>5, <2>1, <2>2, <2>3
<1>12. CallsFit(j, calls)
  <2>1. "delete" \notin {"edit", "restart egress"}
    BY Zenon
  <2>2. \A call : call.do \in {"stop", "delete"} => Persists(j.type, call) /\ call.do # "stopall"
    <3>1. \A call : call.do \in {"stop", "delete"} => call.do # "upsert" /\ call.do # "stopall"
      OBVIOUS
    <3> QED
      BY <2>1, <3>1, Zenon DEF Persists
  <2> QED
    BY <1>11, <2>2 DEF CallsFit
<1>13. ASSUME NEW e \in table[c].egresses PROVE Coming(calls, Delete(Egress(c, e)))
  <2>1. Coming(first \o deletes, Delete(Egress(c, e)))
    BY <1>8, <1>10, <1>13, ComingConcat
  <2> QED
    BY <1>5, <2>1
<1>14. ASSUME NEW id \in {Ingest(c), Snapshot(c)} PROVE Coming(calls, Delete(id))
  <2>1. Delete(id).id = id /\ id[1] # "egress"
    BY CallFields, IdsApart
  <2>2. Gone(deletes, Delete(id))
    BY <1>8, <2>1 DEF Gone
  <2>3. Coming(first, Delete(id))
    BY <1>10
  <2>4. Coming(first \o deletes, Delete(id))
    BY <1>8, <1>10, <2>2, <2>3, ComingConcat
  <2> QED
    BY <1>5, <2>4
<1>15. Promised(j, table) = { Delete(id) : id \in {Ingest(c), Snapshot(c)} }
                            \cup { Delete(Egress(c, e)) : e \in table[c].egresses }
  BY DEF Promised
<1> QED
  BY <1>6, <1>12, <1>13, <1>14, <1>15 DEF Begins
LEMMA BeginKeeps ==
    ASSUME Inv, NEW t \in Tasks, NEW next, NEW table, Begin(t, next, table),
           IsTable(table), DOMAIN table = DOMAIN Table(t[1]), NEW more, Fewer(table, Table(t[1]), more),
           \A u \in Tasks : u # t /\ job[u] # NoJob => job[u].listed \cap more = {},
           DOMAIN next = Fields, PageFits(next, table)' \/ RemovalFits(next)', StillRest(next)'
    PROVE  Inv'
<1> DEFINE w == t[1]
<1>1. PICK new : new = Shown([windows[w] EXCEPT !.jobs = windows[w].jobs + 1, !.table = table], next)
  OBVIOUS
<1>2. /\ windows' = [windows EXCEPT ![w] = new] /\ job' = [job EXCEPT ![t] = next]
      /\ process' = process /\ windows[w].open
  BY <1>1 DEF Begin
<1>3. WindowFits(windows[w]) /\ windows[w].selected \in DOMAIN table
  BY <1>2 DEF Inv, WindowFits, Table, Tasks
<1>4. /\ DOMAIN new = DOMAIN windows[w] /\ new.open /\ new.table = table
      /\ new.selected = windows[w].selected
  BY <1>1, <1>2, <1>3 DEF WindowFits, Shown
<1>5. WindowFits(new)
  BY <1>3, <1>4 DEF WindowFits
<1>6. PICK left : left = new.table
  OBVIOUS
<1>7. JobFits(next, new)'
  <2>1. table = left
    BY <1>4, <1>6
  <2>2. PageFits(next, left)' \/ RemovalFits(next)'
    BY <2>1
  <2> QED
    BY <1>4, <1>6, <2>2 DEF JobFits
<1> DEFINE ids == {}
<1>8. Untouched(ids) /\ ids = {}
  BY <1>2, QuietUntouched
<1>9. Fewer(new.table, windows[w].table, more)
  BY <1>4 DEF Table
<1> HIDE DEF ids
<1> QED
  BY <1>2, <1>4, <1>5, <1>7, <1>8, <1>9, OwnStep

LEMMA PageTypesApart == "purge" \notin PageTypes
BY Zenon DEF PageTypes

LEMMA PageBegins ==
    ASSUME Inv, NEW t \in Tasks, NEW j, DOMAIN j = Fields, j.type \in PageTypes, NEW table, NEW calls,
           Begins(j, table, calls), Begin(t, GoesOn(j, table, calls), table),
           IsTable(table), DOMAIN table = DOMAIN Table(t[1]), NEW more, Fewer(table, Table(t[1]), more),
           \A u \in Tasks : u # t /\ job[u] # NoJob => job[u].listed \cap more = {}
    PROVE  Inv'
<1>1. CallsFit(j, calls)
  BY DEF Begins
<1>2. \A call \in Promised(j, table) \ j.failed : call.id \notin j.others => OnWay(calls, call)'
  BY DEF Begins, OnWay
<1>3. PICK next : next = GoesOn(j, table, calls)
  OBVIOUS
<1>4. DOMAIN next = Fields /\ Same(next, j) /\ PageFits(next, table)'
  BY <1>1, <1>2, <1>3, GoesOnFits
<1>5. StillRest(next)'
  <2>1. next.type # "purge"
    BY <1>4, PageTypesApart DEF Same
  <2> QED
    BY <2>1 DEF StillRest, Counted
<1> QED
  BY <1>3, <1>4, <1>5, BeginKeeps

\* A job that has not begun
LEMMA NewJobFields ==
    ASSUME NEW w, NEW type, NEW step, NEW c, NEW e, NEW channels
    PROVE  LET j == NewJob(w, type, step, c, e, channels)
           IN  /\ DOMAIN j = Fields /\ j.type = type /\ j.step = step /\ j.channel = c /\ j.egress = e
               /\ j.calls = <<>> /\ j.left = channels /\ j.channels = channels /\ j.stopped = {}
               /\ j.listed = {} /\ j.others = {} /\ j.failed = {}
BY DEF NewJob, Job, Fields

LEMMA BeginOnKeeps ==
    ASSUME Inv, NEW t \in Tasks, NEW type, BeginOn(t, type)
    PROVE  Inv'
<1> DEFINE w == t[1]
<1>1. PICK c : c = windows[w].selected
  OBVIOUS
<1>2. PICK table : table = Table(w)
  OBVIOUS
<1>3. PICK e : e = ""
  OBVIOUS
<1>4. PICK made : made = NewJob(w, type, "calls", c, e, {})
  OBVIOUS
<1>5. PICK j : j = [made EXCEPT !.listed = EgressesOf(w, c)]
  OBVIOUS
<1>6. PICK calls : calls = Calls(table, type, c, e)
  OBVIOUS
<1>7. /\ Begin(t, GoesOn(j, table, calls), table) /\ windows[w].open
      /\ type \in {"connect", "disconnect", "reconnect", "delete", "save", "wizard", "edit"}
  BY <1>1, <1>2, <1>3, <1>4, <1>5, <1>6, Zenon DEF BeginOn
<1>8. IsTable(table) /\ c \in DOMAIN table
  BY <1>1, <1>2, <1>7 DEF Inv, WindowFits, Table, Tasks
<1>9. DOMAIN made = Fields /\ made.type = type /\ made.channel = c /\ made.egress = e
  BY <1>4, NewJobFields
<1>10. /\ DOMAIN j = Fields /\ j.type = type /\ j.channel = c /\ j.egress = e
       /\ j.listed = table[c].egresses
  BY <1>2, <1>5, <1>9 DEF Fields, EgressesOf
<1>11. Begins(j, table, calls)
  <2>1. CASE type \in {"connect", "save", "wizard", "edit"}
    BY <1>6, <1>10, <2>1, MainBegins
  <2>2. CASE type \in {"disconnect", "reconnect"}
    BY <1>6, <1>10, <2>2, DisconnectBegins
  <2>3. CASE type = "delete"
    BY <1>6, <1>8, <1>10, <2>3, DeleteBegins
  <2> QED
    BY <1>7, <2>1, <2>2, <2>3
<1>12. j.type \in PageTypes
  BY <1>7, <1>10, Zenon DEF PageTypes
<1> DEFINE more == {}
<1>13. \A u \in Tasks : u # t /\ job[u] # NoJob => job[u].listed \cap more = {}
  OBVIOUS
<1>14. Fewer(table, Table(t[1]), more) /\ DOMAIN table = DOMAIN Table(t[1])
  BY <1>2 DEF Fewer
<1> HIDE DEF more
<1> QED
  BY <1>7, <1>8, <1>10, <1>11, <1>12, <1>13, <1>14, PageBegins

LEMMA OnEgressKeeps ==
    ASSUME Inv, NEW t \in Tasks, NEW type, NEW e \in Egresses, OnEgress(t, type, e)
    PROVE  Inv'
<1> DEFINE w == t[1]
<1>1. PICK c : c = windows[w].selected
  OBVIOUS
<1>2. PICK table : table = Table(w)
  OBVIOUS
<1>3. PICK j : j = NewJob(w, type, "calls", c, e, {})
  OBVIOUS
<1>4. PICK calls : calls = Calls(table, type, c, e)
  OBVIOUS
<1>5. /\ Begin(t, GoesOn(j, table, calls), table) /\ windows[w].open
      /\ type \in EgressTypes
  BY <1>1, <1>2, <1>3, <1>4, Zenon DEF OnEgress, EgressTypes
<1>6. IsTable(table)
  BY <1>2, <1>5 DEF Inv, WindowFits, Table, Tasks
<1>7. DOMAIN j = Fields /\ j.type = type /\ j.channel = c /\ j.egress = e
  BY <1>3, NewJobFields
<1>8. Begins(j, table, calls)
  BY <1>4, <1>5, <1>7, EgressBegins
<1>9. j.type \in PageTypes
  BY <1>5, <1>7, Zenon DEF PageTypes, EgressTypes
<1> DEFINE more == {}
<1>10. \A u \in Tasks : u # t /\ job[u] # NoJob => job[u].listed \cap more = {}
  OBVIOUS
<1>11. Fewer(table, Table(t[1]), more) /\ DOMAIN table = DOMAIN Table(t[1])
  BY <1>2 DEF Fewer
<1> HIDE DEF more
<1> QED
  BY <1>5, <1>6, <1>7, <1>8, <1>9, <1>10, <1>11, PageBegins

LEMMA PublishKeeps ==
    ASSUME Inv, NEW t \in Tasks, NEW e \in Egresses, Publish(t, e)
    PROVE  Inv'
<1> DEFINE w == t[1]
<1>1. PICK c : c = windows[w].selected
  OBVIOUS
<1>2. PICK table : table = Announced(Table(w), c, e)
  OBVIOUS
<1>3. PICK type : type = "publish"
  OBVIOUS
<1>4. PICK j : j = NewJob(w, type, "calls", c, e, {})
  OBVIOUS
<1>5. PICK calls : calls = Calls(table, type, c, e)
  OBVIOUS
<1>6. /\ Begin(t, GoesOn(j, table, calls), table) /\ windows[w].open
      /\ \A u \in Tasks : job[u] # NoJob => e \notin job[u].listed
  BY <1>1, <1>2, <1>3, <1>4, <1>5, Zenon DEF Publish
<1>7. IsTable(Table(w)) /\ c \in DOMAIN Table(w)
  BY <1>1, <1>6 DEF Inv, WindowFits, Table, Tasks
<1>8. PICK more : more = {e}
  OBVIOUS
<1>9. IsTable(table) /\ DOMAIN table = DOMAIN Table(t[1]) /\ Fewer(table, Table(t[1]), more)
  BY <1>2, <1>7, <1>8, TableAnnounced
<1>10. DOMAIN j = Fields /\ j.type = type /\ j.channel = c /\ j.egress = e
  BY <1>4, NewJobFields
<1>11. type \in EgressTypes
  BY <1>3, Zenon DEF EgressTypes
<1>12. Begins(j, table, calls)
  BY <1>5, <1>10, <1>11, EgressBegins
<1>13. j.type \in PageTypes
  BY <1>10, <1>11, Zenon DEF PageTypes, EgressTypes
<1>14. \A u \in Tasks : u # t /\ job[u] # NoJob => job[u].listed \cap more = {}
  BY <1>6, <1>8
<1> QED
  BY <1>6, <1>9, <1>10, <1>12, <1>13, <1>14, PageBegins

LEMMA PurgeKeeps ==
    ASSUME Inv, NEW t \in Tasks, NEW channels, Purge(t, channels)
    PROVE  Inv'
<1>1. PICK j : j = NewJob(t[1], "purge", "look", "", "", channels)
  OBVIOUS
<1>2. PICK table : table = Table(t[1])
  OBVIOUS
<1>3. Begin(t, j, table)
  BY <1>1, <1>2, Zenon DEF Purge
<1>4. DOMAIN j = Fields /\ j.type = "purge" /\ j.step = "look"
  <2>1. PICK none : none = ""
    OBVIOUS
  <2>2. j = NewJob(t[1], "purge", "look", none, none, channels)
    BY <1>1, <2>1, Zenon
  <2> HIDE <2>1
  <2> QED
    BY <2>2, NewJobFields
<1>5. IsTable(table)
  <2>1. windows[t[1]].open
    BY <1>3 DEF Begin
  <2> QED
    BY <1>2, <2>1 DEF Inv, WindowFits, Table, Tasks
<1>6. RemovalFits(j)' /\ StillRest(j)'
  BY <1>4 DEF RemovalFits, StillRest, Counted
<1> DEFINE more == {}
<1>7. \A u \in Tasks : u # t /\ job[u] # NoJob => job[u].listed \cap more = {}
  OBVIOUS
<1>8. Fewer(table, Table(t[1]), more) /\ DOMAIN table = DOMAIN Table(t[1])
  BY <1>2 DEF Fewer
<1> HIDE DEF more
<1> QED
  BY <1>3, <1>4, <1>5, <1>6, <1>7, <1>8, BeginKeeps

LEMMA OnConnectKeeps ==
    ASSUME Inv, NEW t \in Tasks, OnConnect(t)
    PROVE  Inv'
<1>1. PICK j : j = job[t]
  OBVIOUS
<1>2. PICK table : table = Table(t[1])
  OBVIOUS
<1>3. PICK e : e = ""
  OBVIOUS
<1>4. PICK calls : calls = Calls(table, j.type, j.channel, e)
  OBVIOUS
<1>5. PICK next : next = GoesOn(j, table, calls)
  OBVIOUS
<1>6. /\ j # NoJob /\ j.step = "timer" /\ windows' = windows /\ process' = process
      /\ job' = [job EXCEPT ![t] = next]
  BY <1>1, <1>2, <1>3, <1>4, <1>5, Zenon DEF OnConnect
<1>7. /\ DOMAIN j = Fields /\ PageFits(j, table) /\ windows[t[1]].open /\ IsTable(table)
  BY <1>1, <1>2, <1>6, PageTyped
<1>8. j.type = "refresh" /\ j.type \in PageTypes
  BY <1>6, <1>7 DEF PageFits
<1>9. PICK c : c = j.channel
  OBVIOUS
<1>10. calls = Calls(table, j.type, c, j.egress)
  BY <1>4, <1>8, <1>9, Zenon DEF Calls
<1>11. Begins(j, table, calls)
  BY <1>8, <1>9, <1>10, MainBegins
<1>12. CallsFit(j, calls)
  BY <1>11 DEF Begins
<1>13. \A call \in Promised(j, table) \ j.failed : call.id \notin j.others => OnWay(calls, call)'
  BY <1>11 DEF Begins, OnWay
<1>14. DOMAIN next = Fields /\ Same(next, j) /\ PageFits(next, table)'
  BY <1>5, <1>7, <1>8, <1>12, <1>13, GoesOnFits
<1>15. StillRest(next)'
  BY <1>8, <1>14 DEF StillRest, Counted, Same
<1>16. PICK window : window = windows[t[1]]
  OBVIOUS
<1>17. JobFits(next, window)'
  <2>1. window.table = table
    BY <1>2, <1>16 DEF Table
  <2> QED
    BY <1>7, <1>14, <1>15, <1>16, <2>1 DEF JobFits
<1> QED
  BY <1>6, <1>7, <1>16, <1>17, QuietStep
-----------------------------------------------------------------------------
(* The theorems *)

LEMMA PurgeStepsKeep ==
    ASSUME Inv, NEW t \in Tasks, PurgeSteps(t)
    PROVE  Inv'
<1>1. ASSUME NEW outcome, NEW c,
             \/ Asked(t) \/ Purged(t)
             \/ Look(t, c, outcome) \/ DeleteRequest(t, outcome) \/ DeleteResponse(t, outcome)
      PROVE  Inv'
  BY <1>1, RemovalKeeps
<1>2. ASSUME NEW outcome, NEW c, Wait(t, c, outcome) PROVE Inv'
  BY <1>2, WaitKeeps
<1>3. ASSUME NEW outcome, NEW c, StartAgain(t, c, outcome) PROVE Inv'
  BY <1>3, StartAgainKeeps
<1>4. ASSUME NEW outcome, StopIngest(t, outcome) PROVE Inv'
  BY <1>4, StopIngestKeeps
<1>5. ASSUME NEW outcome, PutRequest(t, outcome) PROVE Inv'
  BY <1>5, PutRequestKeeps
<1>6. ASSUME NEW outcome, LookForAnswer(t, outcome) PROVE Inv'
  BY <1>6, LookForAnswerKeeps
<1> QED
  BY <1>1, <1>2, <1>3, <1>4, <1>5, <1>6, Zenon DEF PurgeSteps

LEMMA InitFits == Init => Inv
<1>1. Init => windows = [w \in Windows |-> NewWindow] /\ job = [t \in Tasks |-> NoJob]
  BY DEF Init
<1>2. WindowFits(NewWindow)
  <2>1. DOMAIN NewWindow = {"open", "table", "selected", "onConnect", "jobs"} /\ NewWindow.open = FALSE
    BY Zenon DEF NewWindow
  <2> QED
    BY <2>1 DEF WindowFits
<1>3. \A window : JobFits(NoJob, window)
  BY DEF JobFits
<1> HIDE DEF NewWindow, NoJob
<1> QED
  BY <1>1, <1>2, <1>3 DEF Inv

LEMMA NextFits == Inv /\ [Next]_vars => Inv'
<1> SUFFICES ASSUME Inv, [Next]_vars PROVE Inv'
  OBVIOUS
<1>1. ASSUME NEW id \in Processes, Ends(id) PROVE Inv'
  <2>1. windows' = windows /\ job' = job
    BY <1>1 DEF Ends
  <2> QED
    BY <1>1, <2>1, EndUntouched, OthersKeep
<1>2. ASSUME NEW w \in Windows, NEW c, NEW outcome,
             Open(w, outcome) \/ Close(w) \/ AddChannel(w) \/ SeesConnecting(w) \/ Select(w, c)
      PROVE  Inv'
  BY <1>2, OpenKeeps, CloseKeeps, AddChannelKeeps, SeesConnectingKeeps, SelectKeeps
<1>3. ASSUME NEW t \in Tasks, NEW outcome, Call(t, outcome) PROVE Inv'
  BY <1>3, CallKeeps
<1>4. ASSUME NEW t \in Tasks, Skip(t) \/ Leave(t) \/ SeesConnected(t) \/ OnConnect(t) PROVE Inv'
  BY <1>4, SkipKeeps, LeaveKeeps, SeesConnectedKeeps, OnConnectKeeps
<1>5. ASSUME NEW t \in Tasks, NEW type, BeginOn(t, type) PROVE Inv'
  BY <1>5, BeginOnKeeps
<1>6. ASSUME NEW t \in Tasks, NEW type, NEW e \in Egresses, OnEgress(t, type, e) PROVE Inv'
  BY <1>6, OnEgressKeeps
<1>7. ASSUME NEW t \in Tasks, NEW e \in Egresses, Publish(t, e) PROVE Inv'
  BY <1>7, PublishKeeps
<1>8. ASSUME NEW t \in Tasks, PurgeOne(t) \/ PurgeAll(t) PROVE Inv'
  <2>1. \E channels : Purge(t, channels)
    BY <1>8, Zenon DEF PurgeOne, PurgeAll
  <2> QED
    BY <2>1, PurgeKeeps
<1>9. ASSUME NEW t \in Tasks, PurgeSteps(t) PROVE Inv'
  BY <1>9, PurgeStepsKeep
<1>10. ASSUME process' = process /\ windows' = windows /\ job' = job PROVE Inv'
  BY <1>10, QuietUntouched, OthersKeep
<1>11. ASSUME NEW id, ReadRequest(id) PROVE Inv'
  BY <1>10, <1>11 DEF ReadRequest
<1>12. ASSUME NEW c, NEW fails, Clear(c, fails) PROVE Inv'
  BY <1>10, <1>12 DEF Clear
<1>13. ASSUME WriteAnswer PROVE Inv'
  BY <1>10, <1>13 DEF WriteAnswer
<1>14. ASSUME UNCHANGED vars PROVE Inv'
  BY <1>10, <1>14 DEF vars
<1> QED
  BY <1>1, <1>2, <1>3, <1>4, <1>5, <1>6, <1>7, <1>8, <1>9, <1>11, <1>12, <1>13, <1>14, Zenon DEF Next

LEMMA Invariant == Spec => []Inv
BY InitFits, NextFits, PTL DEF Spec

(* The manager only removes the recordings of channels that do not record:    *)
(* what a window has asked for, it has seen ended, and nobody else started it *)
(* again (PurgeDVRChannels, _waitForIngestStopped, purge_dvr_content).        *)
THEOREM RecordingsAtRest == Spec => []PurgedAtRest
<1>1. Inv => PurgedAtRest
  <2> SUFFICES ASSUME Inv, NEW t \in Tasks, NEW c \in manager.left, Purging(t, "answer"),
                      c \in job[t].stopped, Ingest(c) \notin job[t].others,
                      Stop(Ingest(c)) \notin job[t].failed, Has(Ingest(c))
               PROVE  ~process[Ingest(c)].running
    BY DEF PurgedAtRest
  <2>1. StillRest(job[t]) /\ Counted(job[t], c)
    BY RemovalTyped DEF Purging, Counted
  <2> QED
    BY <2>1 DEF StillRest
<1> QED
  BY <1>1, Invariant, PTL

(* A job that is over has done what it was for, to every process it is for    *)
(* that nobody else touched and whose own call did not fail: of a deleted     *)
(* channel nothing is left, of one that was disconnected nothing runs, and    *)
(* what was stopped for a removal runs again, whatever other jobs of this     *)
(* window, other windows and the page itself did between its calls            *)
(* (DeleteChannel, connect, disconnect, onConnect, PurgeDVRChannels,          *)
(* handleDone, handleOrderChange, handleServiceAction).                       *)
THEOREM JobsComeTrue == Spec => []JobsDone
<1>1. Inv => JobsDone
  <2> SUFFICES ASSUME Inv, NEW t \in Tasks, job[t] # NoJob, job[t].step = "done",
                      NEW call \in Promised(job[t], Table(t[1])) \ job[t].failed,
                      call.id \notin job[t].others
               PROVE  Reached(call)
    BY DEF JobsDone
  <2>1. PICK j : j = job[t]
    OBVIOUS
  <2>2. PICK table : table = Table(t[1])
    OBVIOUS
  <2>3. PageFits(j, table) \/ RemovalFits(j)
    BY <2>1, <2>2 DEF Inv, JobFits, Table
  <2>4. CASE PageFits(j, table)
    <3>1. j.calls = <<>>
      BY <2>1, <2>4 DEF PageFits
    <3>2. OnWay(j.calls, call)
      BY <2>1, <2>2, <2>4 DEF PageFits
    <3>3. DOMAIN j.calls = {}
      BY <3>1
    <3> QED
      BY <3>2, <3>3 DEF OnWay, Coming, AllComing
  <2>5. CASE RemovalFits(j)
    <3>1. call \in { Start(Ingest(d)) : d \in j.stopped }
      <4>1. j.type = "purge"
        BY <2>5 DEF RemovalFits
      <4>2. call \in Promised(j, table)
        BY <2>1, <2>2
      <4> QED
        BY <4>1, <4>2, Zenon DEF Promised
    <3>2. PICK d \in j.stopped : call = Start(Ingest(d))
      BY <3>1
    <3>3. call.id = Ingest(d)
      BY <3>2, CallFields
    <3> QED
      BY <2>1, <2>5, <3>2, <3>3 DEF RemovalFits
  <2> QED
    BY <2>3, <2>4, <2>5
<1> QED
  BY <1>1, Invariant, PTL
=============================================================================
