--------------------------- MODULE SchedulerProofs ---------------------------
(***************************************************************************)
(* Theorems about Scheduler, for any schedules, task types, exclusions,    *)
(* tasks and "Run now" requests.  Several arguments follow one another:    *)
(*   - types (IndType): what each variable holds, and that whoever waits   *)
(*     or runs does so for a schedule;                                     *)
(*   - the launch lock (IndSlot): a drain at the canary holds the lock and *)
(*     the type it is going to launch stays free until it is answered, and *)
(*     nobody else ever has the lock (IndHolder);                          *)
(*   - one task per type (IndOne), while nobody clears registrations;      *)
(*   - exclusion (IndMutex) and the refinement of TaskSlots;               *)
(*   - the pauses of the gate (IndGate) and of the hunt;                   *)
(*   - the table (IndRows), and what it lets a crash lose;                 *)
(*   - the queue (IndQueue), and the registrations (IndLive).              *)
(***************************************************************************)
EXTENDS Scheduler, TLAPS, SequenceTheorems, WellFoundedInduction

\* Taking an element out of a queue leaves a queue of the same ids.
LEMMA RemoveAtInSeq ==
    ASSUME NEW S, NEW q \in Seq(S), NEW k \in 1..Len(q)
    PROVE  RemoveAt(q, k) \in Seq(S)
<1>1. SubSeq(q, 1, k-1) \in Seq(S)
  BY SubSeqProperties
<1>2. SubSeq(q, k+1, Len(q)) \in Seq(S)
  BY SubSeqProperties
<1>. QED
  BY <1>1, <1>2 DEF RemoveAt

\* queue.pop(sid, None) takes one occurrence or nothing.
LEMMA RemoveFirstTakesOne ==
    ASSUME NEW S, NEW q \in Seq(S), NEW x
    PROVE  \/ RemoveFirst(q, x) = q
           \/ \E k \in 1..Len(q) : q[k] = x /\ RemoveFirst(q, x) = RemoveAt(q, k)
<1> DEFINE I == {i \in 1..Len(q) : q[i] = x}
           k == SelectInSeq(q, LAMBDA v : v = x)
<1>1. CASE I = {}
  BY <1>1 DEF RemoveFirst, Contains
<1>2. CASE I # {}
  <2>1. I \in SUBSET Nat /\ I # {}
    BY <1>2
  <2>2. k = Min(I)
    BY <1>2 DEF SelectInSeq
  <2>3. Min(I) \in I
    <3>1. PICK i \in I : \A j \in I : i <= j
      <4>1. \E i \in I : \A j \in I : ~ (<<j, i>> \in OpToRel(<, Nat))
        BY <2>1, WFMin, NatLessThanWellFounded
      <4>2. ASSUME NEW i \in I, NEW j \in I, <<j, i>> \notin OpToRel(<, Nat)
            PROVE  i <= j
        <5>1. i \in Nat /\ j \in Nat
          BY <2>1
        <5>2. j < i => <<j, i>> \in OpToRel(<, Nat)
          BY <5>1 DEF OpToRel
        <5>3. ~ (j < i)
          BY <4>2, <5>2, Zenon
        <5>. QED
          BY <5>1, <5>3
      <4>. QED
        BY <4>1, <4>2
    <3>. QED BY <3>1 DEF Min
  <2>4. k \in 1..Len(q)
    BY <2>2, <2>3
  <2>5. RemoveFirst(q, x) = RemoveAt(q, k)
    BY <1>2 DEF RemoveFirst
  <2>6. q[k] = x
    BY <2>2, <2>3
  <2>. QED
    BY <2>4, <2>5, <2>6
<1>. QED
  BY <1>1, <1>2

\* So a queue stays a queue of the same ids.
LEMMA RemoveFirstInSeq ==
    ASSUME NEW S, NEW q \in Seq(S), NEW x
    PROVE  RemoveFirst(q, x) \in Seq(S)
BY RemoveFirstTakesOne, RemoveAtInSeq

\* Every other id stays in the queue.
LEMMA RemoveFirstKeepsOthers ==
    ASSUME NEW S, NEW q \in Seq(S), NEW x, NEW y, x # y, Contains(q, y)
    PROVE  Contains(RemoveFirst(q, x), y)
<1>1. CASE RemoveFirst(q, x) = q
  BY <1>1
<1>2. CASE \E k \in 1..Len(q) : q[k] = x /\ RemoveFirst(q, x) = RemoveAt(q, k)
  <2>1. PICK k \in 1..Len(q) : q[k] = x /\ RemoveFirst(q, x) = RemoveAt(q, k)
    BY <1>2
  <2>2. PICK i \in 1..Len(q) : q[i] = y
    BY DEF Contains
  <2> DEFINE a == SubSeq(q, 1, k-1)
             b == SubSeq(q, k+1, Len(q))
  <2>3. a \in Seq(S) /\ Len(a) = k - 1 /\ \A j \in 1..(k-1) : a[j] = q[j]
    BY SubSeqProperties
  <2>4. b \in Seq(S) /\ Len(b) = Len(q) - k /\ \A j \in 1..(Len(q) - k) : b[j] = q[k + j]
    BY SubSeqProperties
  <2>5. RemoveAt(q, k) = a \o b
    BY DEF RemoveAt
  <2>6. CASE i < k
    <3>1. i \in 1..(k-1) /\ i \in 1..Len(a \o b) /\ (a \o b)[i] = a[i]
      BY <2>3, <2>4, <2>6
    <3>. QED
      BY <2>1, <2>2, <2>3, <2>5, <3>1 DEF Contains
  <2>7. CASE i > k
    <3> DEFINE j == i - 1
    <3>1. j \in 1..Len(a \o b) /\ (a \o b)[j] = b[i - k]
      <4> HIDE DEF a, b
      <4>1. Len(a \o b) = Len(a) + Len(b)
            /\ \A n \in 1..Len(a) + Len(b) :
                  (a \o b)[n] = IF n <= Len(a) THEN a[n] ELSE b[n - Len(a)]
        BY <2>3, <2>4, ConcatProperties
      <4>2. i \in Nat /\ k \in Nat /\ Len(q) \in Nat /\ i <= Len(q) /\ k >= 1
        BY LenProperties
      <4>3. j \in 1..(Len(a) + Len(b)) /\ ~(j <= Len(a)) /\ j - Len(a) = i - k
        BY <2>3, <2>4, <2>7, <4>2
      <4>. QED
        BY <4>1, <4>3
    <3>2. b[i - k] = q[i]
      BY <2>4, <2>7
    <3>3. (a \o b)[j] = y
      BY <2>2, <3>1, <3>2
    <3>4. RemoveFirst(q, x) = a \o b
      BY <2>1, <2>5
    <3>. HIDE DEF a, b, j
    <3>. QED
      BY <3>1, <3>3, <3>4 DEF Contains
  <2>8. i # k
    BY <2>1, <2>2
  <2>. QED
    BY <2>6, <2>7, <2>8
<1>. QED
  BY <1>1, <1>2, RemoveFirstTakesOne

\* queue[sid] = None keeps what was there.
LEMMA AppendKeeps ==
    ASSUME NEW S, NEW q \in Seq(S), NEW x \in S, NEW y
    PROVE  Contains(Append(q, x), x) /\ (Contains(q, y) => Contains(Append(q, x), y))
<1>1. Len(Append(q, x)) = Len(q) + 1 /\ Append(q, x)[Len(q) + 1] = x
      /\ \A i \in 1..Len(q) : Append(q, x)[i] = q[i]
  BY AppendProperties
<1>2. Len(q) \in Nat
  BY LenProperties
<1>. QED
  BY <1>1, <1>2 DEF Contains

\* The state prepare() leaves behind is well typed.
LEMMA TypeInit == Init => TypeOK
<1>. SUFFICES ASSUME Init PROVE TypeOK
  OBVIOUS
<1>1. schedules \in [Sids -> Entries]
  BY EnoughEntries DEF Init, FirstEntry
<1>2. type \in [Entries -> TaskTypes]
  BY EntriesAssumption, TypesAssumption DEF Init
<1>3. rows \in [Sids -> RowType]
  BY TypesAssumption DEF Init, DefaultRow, RowType, Statuses
<1>4. /\ queue \in Seq(Sids) /\ todo \in [Drainers -> Seq(Sids)]
      /\ status \in [Entries -> Statuses] /\ enabled \in [Entries -> BOOLEAN]
  BY DEF Init, Statuses
<1>5. /\ running_tasks \in [TaskTypes -> TaskIds \cup {None}]
      /\ snapshot \in [{Loop, Hunter, Stopper} -> [TaskTypes -> TaskIds \cup {None}]]
  BY DEF Init, NoTasks
<1>6. /\ pc \in [Procs -> Locations] /\ held \in [Procs -> Entries \cup {None}]
      /\ job \in [TaskIds -> TaskTypes \cup {None}] /\ cancel \in [Drainers -> BOOLEAN]
  BY DEF Init, Locations
<1>. QED
  BY <1>1, <1>2, <1>3, <1>4, <1>5, <1>6 DEF Init, TypeOK

\* _persist writes a row of the right type, and a status is one of Statuses.
LEMMA SetStatusType ==
    ASSUME TypeOK, NEW e \in Entries, NEW s \in Statuses, SetStatus(e, s)
    PROVE  /\ status' \in [Entries -> Statuses]
           /\ rows' \in [Sids -> RowType \cup {None}]
<1>1. [Row(e) EXCEPT !.status = s] \in RowType
  BY DEF TypeOK, Row, RowType
<1>. QED
  BY <1>1, EntriesAssumption DEF TypeOK, SetStatus, Persist

\* _enqueue keeps the queue, the statuses and the rows well typed.
LEMMA EnqueueType ==
    ASSUME TypeOK, NEW sid \in Sids, NEW q \in Seq(Sids), Enqueue(sid, q)
    PROVE  /\ queue' \in Seq(Sids)
           /\ status' \in [Entries -> Statuses]
           /\ rows' \in [Sids -> RowType \cup {None}]
<1>1. CASE schedules[sid] = None \/ Contains(q, sid)
  BY <1>1 DEF TypeOK, Enqueue
<1>2. CASE ~(schedules[sid] = None \/ Contains(q, sid))
  <2>1. queue' = Append(q, sid) /\ SetStatus(schedules[sid], "queued")
    BY <1>2 DEF Enqueue
  <2>2. schedules[sid] \in Entries
    BY <1>2 DEF TypeOK
  <2>. QED
    BY <2>1, <2>2, SetStatusType DEF Statuses
<1>. QED
  BY <1>1, <1>2

Holders == \A p \in Procs : pc[p] \in {"created", "executing", "lock", "net"} => held[p] # None
IndType == TypeOK /\ Holders

\* The registration of a new task keeps the types, and gives the task its schedule.
LEMMA LaunchType ==
    ASSUME IndType, NEW p \in Procs, NEW e \in Entries, NEW l \in {"free", "drain"},
           Launch(p, e, l)
    PROVE  /\ status' \in [Entries -> Statuses]
           /\ rows' \in [Sids -> RowType \cup {None}]
           /\ running_tasks' \in [TaskTypes -> TaskIds \cup {None}]
           /\ pc' \in [Procs -> Locations]
           /\ held' \in [Procs -> Entries \cup {None}]
           /\ Holders'
<1>1. PICK i \in FreshTasks :
        /\ SetStatus(e, "running")
        /\ running_tasks' = [running_tasks EXCEPT ![type[e]] = i]
        /\ pc' = [pc EXCEPT ![p] = l, ![i] = "created"]
        /\ held' = [held EXCEPT ![p] = None, ![i] = e]
  BY DEF Launch
<1>2. i \in TaskIds /\ i \in Procs
  BY DEF FreshTasks, Procs
<1>3. "running" \in Statuses /\ {"created", "free", "drain"} \subseteq Locations
  BY DEF Statuses, Locations
<1>4. Holders'
  BY <1>1, <1>2, EntriesAssumption DEF IndType, TypeOK, Holders
<1>. QED
  BY <1>1, <1>2, <1>3, <1>4, SetStatusType DEF IndType, TypeOK

\* The steps of _drain_queue and _try_launch keep the types.
LEMMA TypeDrain ==
    ASSUME IndType, NEW p \in Drainers, Drain(p)
    PROVE  IndType'
<1>p. p \in Procs
  BY DEF Drainers, Procs
<1>0. {"free", "created", "executing", "drain", "lock", "net", "gate", "gather",
        "visit", "ended", "stopping"} \subseteq Locations
  BY DEF Locations
<1>1. CASE DrainGone(p)
  <2>1. TypeOK'
    BY <1>p, <1>0, <1>1, RemoveFirstInSeq
       DEF IndType, Holders, TypeOK, DrainGone, NextQueued, At, MayRun, Goto, Yield,
           Hold, entryVars, pauseVars, huntVars, procVars
  <2>2. Holders'
    BY <1>p, <1>1, ProcsAssumption
       DEF IndType, Holders, TypeOK, Procs, Drainers, DrainGone, NextQueued, At,
           MayRun, Goto, Yield, Hold, entryVars, pauseVars, huntVars, procVars
  <2>. QED
    BY <2>1, <2>2 DEF IndType
<1>2. CASE DrainBlocked(p)
  <2>1. TypeOK'
    BY <1>p, <1>0, <1>2, RemoveFirstInSeq
       DEF IndType, Holders, TypeOK, DrainBlocked, NextQueued, At, MayRun, Goto, Yield,
           Hold, entryVars, pauseVars, huntVars, procVars
  <2>2. Holders'
    BY <1>p, <1>2, ProcsAssumption
       DEF IndType, Holders, TypeOK, Procs, Drainers, DrainBlocked, NextQueued, At,
           MayRun, Goto, Yield, Hold, entryVars, pauseVars, huntVars, procVars
  <2>. QED
    BY <2>1, <2>2 DEF IndType
<1>3. CASE DrainTry(p)
  <2>1. TypeOK'
    BY <1>p, <1>0, <1>3, RemoveFirstInSeq
       DEF IndType, Holders, TypeOK, DrainTry, NextQueued, AwaitLock, At, MayRun, Goto,
           Yield, Hold, entryVars, pauseVars, huntVars, procVars
  <2>2. Holders'
    BY <1>p, <1>3, ProcsAssumption
       DEF IndType, Holders, TypeOK, Procs, Drainers, DrainTry, NextQueued, AwaitLock,
           At, MayRun, Goto, Yield, Hold, entryVars, pauseVars, huntVars, procVars
  <2>. QED
    BY <2>1, <2>2 DEF IndType
<1>4. CASE DrainDone(p)
  <2>1. TypeOK'
    BY <1>p, <1>0, <1>4, RemoveFirstInSeq
       DEF IndType, Holders, TypeOK, DrainDone, At, MayRun, Goto, Yield, Hold,
           entryVars, pauseVars, huntVars, procVars
  <2>2. Holders'
    BY <1>p, <1>4, ProcsAssumption
       DEF IndType, Holders, TypeOK, Procs, Drainers, DrainDone, At, MayRun, Goto,
           Yield, Hold, entryVars, pauseVars, huntVars, procVars
  <2>. QED
    BY <2>1, <2>2 DEF IndType
<1>5. CASE TryBlocked(p)
  <2>1. TypeOK'
    BY <1>p, <1>0, <1>5, RemoveFirstInSeq
       DEF IndType, Holders, TypeOK, TryBlocked, Blocked, HasLock, ClearStaleFlag, At,
           MayRun, Goto, Yield, Hold, entryVars, pauseVars, huntVars, procVars
  <2>2. Holders'
    BY <1>p, <1>5, ProcsAssumption
       DEF IndType, Holders, TypeOK, Procs, Drainers, TryBlocked, Blocked, HasLock,
           ClearStaleFlag, At, MayRun, Goto, Yield, Hold, entryVars, pauseVars,
           huntVars, procVars
  <2>. QED
    BY <2>1, <2>2 DEF IndType
<1>6. CASE TryProbe(p)
  <2>1. TypeOK'
    BY <1>p, <1>0, <1>6, RemoveFirstInSeq
       DEF IndType, Holders, TypeOK, TryProbe, HasLock, ClearStaleFlag, At, MayRun,
           Goto, Yield, Hold, entryVars, pauseVars, huntVars, procVars
  <2>2. Holders'
    BY <1>p, <1>6, ProcsAssumption
       DEF IndType, Holders, TypeOK, Procs, Drainers, TryProbe, HasLock,
           ClearStaleFlag, At, MayRun, Goto, Yield, Hold, entryVars, pauseVars,
           huntVars, procVars
  <2>. QED
    BY <2>1, <2>2 DEF IndType
<1>7. CASE TryLaunchOffline(p)
  <2>1. held[p] \in Entries
    BY <1>p, <1>7 DEF TryLaunchOffline, HasLock, At, IndType, Holders, TypeOK
  <2>2. Launch(p, held[p], "drain")
    BY <1>7 DEF TryLaunchOffline, LaunchQueued
  <2>3. TypeOK'
    BY <1>p, <1>7, <2>1, <2>2, LaunchType, RemoveFirstInSeq
       DEF IndType, TypeOK, TryLaunchOffline, LaunchQueued, ClearStaleFlag, pauseVars,
           huntVars
  <2>. QED
    BY <1>p, <2>1, <2>2, <2>3, LaunchType DEF IndType
<1>8. CASE NetAlive(p)
  <2>1. held[p] \in Entries
    BY <1>p, <1>8 DEF NetAlive, HasLock, At, IndType, Holders, TypeOK
  <2>2. Launch(p, held[p], "drain")
    BY <1>8 DEF NetAlive, LaunchQueued
  <2>3. TypeOK'
    BY <1>p, <1>8, <2>1, <2>2, LaunchType, RemoveFirstInSeq
       DEF IndType, TypeOK, NetAlive, LaunchQueued, Release, pauseVars, huntVars
  <2>. QED
    BY <1>p, <2>1, <2>2, <2>3, LaunchType DEF IndType
<1>9. CASE NetDead(p)
  <2>1. TypeOK'
    BY <1>p, <1>0, <1>9, RemoveFirstInSeq
       DEF IndType, Holders, TypeOK, NetDead, Release, Blocked, At, MayRun, Goto,
           Yield, Hold, entryVars, pauseVars, huntVars, procVars
  <2>2. Holders'
    BY <1>p, <1>9, ProcsAssumption
       DEF IndType, Holders, TypeOK, Procs, Drainers, NetDead, Release, Blocked, At,
           MayRun, Goto, Yield, Hold, entryVars, pauseVars, huntVars, procVars
  <2>. QED
    BY <2>1, <2>2 DEF IndType
<1>. QED
  BY <1>1, <1>2, <1>3, <1>4, <1>5, <1>6, <1>7, <1>8, <1>9 DEF Drain

\* The steps of _run_with_tracking keep the types.
LEMMA TypeTask ==
    ASSUME IndType, NEW i \in TaskIds, Task(i)
    PROVE  IndType'
<1>p. i \in Procs /\ i \in Drainers
  BY DEF Drainers, Procs
<1>0. {"free", "created", "executing", "drain", "lock", "net", "gate", "gather",
        "visit", "ended", "stopping"} \subseteq Locations
  BY DEF Locations
<1>1. CASE EndUnstarted(i)
  <2>1. TypeOK'
    BY <1>p, <1>0, <1>1, RemoveFirstInSeq
       DEF IndType, Holders, TypeOK, EndUnstarted, At, MayRun, Goto, Yield, Hold,
           entryVars, pauseVars, huntVars, procVars
  <2>2. Holders'
    BY <1>p, <1>1, ProcsAssumption
       DEF IndType, Holders, TypeOK, Procs, Drainers, EndUnstarted, At, MayRun, Goto,
           Yield, Hold, entryVars, pauseVars, huntVars, procVars
  <2>. QED
    BY <2>1, <2>2 DEF IndType
<1>2. CASE Start(i)
  <2>1. held[i] \in Entries
    BY <1>p, <1>2 DEF Start, At, IndType, Holders, TypeOK
  <2>2. EntrySid[held[i]] \in Sids
    BY <2>1, EntriesAssumption
  <2>3. schedules[EntrySid[held[i]]] \in Entries
    BY <2>2, <1>2 DEF Start, IndType, TypeOK
  <2>4. TypeOK'
    BY <1>p, <1>0, <1>2, <2>3 DEF IndType, TypeOK, Start, Hold, Yield, entryVars,
       pauseVars, huntVars
  <2>5. Holders'
    BY <1>p, <1>2, <2>3, EntriesAssumption
       DEF IndType, TypeOK, Holders, Start, Hold, Yield
  <2>. QED
    BY <2>4, <2>5 DEF IndType
<1>3. CASE Finish(i)
  <2>1. held[i] \in Entries
    BY <1>p, <1>3 DEF Finish, At, IndType, Holders, TypeOK
  <2>2. SetStatus(held[i], "rest") /\ "rest" \in Statuses
    BY <1>3 DEF Finish, Statuses
  <2>3. TypeOK'
    BY <1>p, <1>0, <1>3, <2>1, <2>2, SetStatusType
       DEF IndType, TypeOK, Finish, Unregister, BeginDrain, Hold, Yield, Goto,
           pauseVars, huntVars
  <2>4. Holders'
    BY <1>p, <1>3 DEF IndType, TypeOK, Holders, Finish, BeginDrain, Hold, Yield, Goto
  <2>. QED
    BY <2>3, <2>4 DEF IndType
<1>. QED
  BY <1>1, <1>2, <1>3 DEF Task

\* The steps of _run_loop and _internet_gate keep the types.
LEMMA TypeLoop ==
    ASSUME IndType, TheLoop
    PROVE  IndType'
<1>p. Loop \in Procs /\ Loop \in Drainers
  BY DEF Drainers, Procs
<1>0. {"free", "created", "executing", "drain", "lock", "net", "gate", "gather",
        "visit", "ended", "stopping"} \subseteq Locations
  BY DEF Locations
<1>1. CASE Tick
  <2>1. TypeOK'
    BY <1>p, <1>0, <1>1, RemoveFirstInSeq
       DEF IndType, Holders, TypeOK, Tick, At, MayRun, Goto, Yield, Hold, entryVars,
           pauseVars, huntVars, procVars
  <2>2. Holders'
    BY <1>p, <1>1, ProcsAssumption
       DEF IndType, Holders, TypeOK, Procs, Drainers, Tick, At, MayRun, Goto, Yield,
           Hold, entryVars, pauseVars, huntVars, procVars
  <2>. QED
    BY <2>1, <2>2 DEF IndType
<1>2. CASE GateUp
  <2>1. TypeOK'
    BY <1>p, <1>0, <1>2, RemoveFirstInSeq
       DEF IndType, Holders, TypeOK, GateUp, LiftInternetPause, TickUnlessPaused, At,
           MayRun, Goto, Yield, Hold, entryVars, pauseVars, huntVars, procVars
  <2>2. Holders'
    BY <1>p, <1>2, ProcsAssumption
       DEF IndType, Holders, TypeOK, Procs, Drainers, GateUp, LiftInternetPause,
           TickUnlessPaused, At, MayRun, Goto, Yield, Hold, entryVars, pauseVars,
           huntVars, procVars
  <2>. QED
    BY <2>1, <2>2 DEF IndType
<1>3. CASE GateDown
  <2>1. CheckTasks \in [TaskTypes -> TaskIds \cup {None}]
    BY DEF CheckTasks, IndType, TypeOK
  <2>2. TypeOK'
    <3>1. CASE paused_by_internet
      BY <1>p, <1>0, <1>3, <3>1
         DEF IndType, TypeOK, GateDown, TickUnlessPaused, Goto, Yield, entryVars,
             huntVars
    <3>2. CASE ~paused_by_internet
      <4>1. snapshot' = [snapshot EXCEPT ![Loop] = CheckTasks]
        BY <1>3, <3>2 DEF GateDown
      <4>2. snapshot' \in [{Loop, Hunter, Stopper} -> [TaskTypes -> TaskIds \cup {None}]]
        BY <2>1, <4>1 DEF IndType, TypeOK
      <4>3. cancel' \in [Drainers -> BOOLEAN]
        BY <1>3, <3>2 DEF GateDown, CancelTasks
      <4>. QED
        BY <1>p, <1>0, <4>2, <4>3, <1>3, <3>2
           DEF IndType, TypeOK, GateDown, Yield, entryVars, huntVars
    <3>. QED
      BY <3>1, <3>2
  <2>3. Holders'
    BY <1>p, <1>3 DEF IndType, TypeOK, Holders, GateDown, TickUnlessPaused, Goto, Yield
  <2>. QED
    BY <2>2, <2>3 DEF IndType
<1>4. CASE GateGathered
  <2>1. TypeOK'
    BY <1>p, <1>0, <1>4, RemoveFirstInSeq
       DEF IndType, Holders, TypeOK, GateGathered, Gathered, Popped, TickUnlessPaused,
           NoTasks, At, MayRun, Goto, Yield, Hold, entryVars, pauseVars, huntVars,
           procVars
  <2>2. Holders'
    BY <1>p, <1>4, ProcsAssumption
       DEF IndType, Holders, TypeOK, Procs, Drainers, GateGathered, Gathered, Popped,
           TickUnlessPaused, NoTasks, At, MayRun, Goto, Yield, Hold, entryVars,
           pauseVars, huntVars, procVars
  <2>. QED
    BY <2>1, <2>2 DEF IndType
<1>5. CASE LoopDrain
  <2>1. TypeOK'
    BY <1>p, <1>0, <1>5, RemoveFirstInSeq
       DEF IndType, Holders, TypeOK, LoopDrain, BeginDrain, At, MayRun, Goto, Yield,
           Hold, entryVars, pauseVars, huntVars, procVars
  <2>2. Holders'
    BY <1>p, <1>5, ProcsAssumption
       DEF IndType, Holders, TypeOK, Procs, Drainers, LoopDrain, BeginDrain, At,
           MayRun, Goto, Yield, Hold, entryVars, pauseVars, huntVars, procVars
  <2>. QED
    BY <2>1, <2>2 DEF IndType
<1>6. CASE \E sid \in Sids : LoopVisit(sid)
  <2>1. PICK sid \in Sids : LoopVisit(sid)
    BY <1>6
  <2>2. Enqueue(sid, queue)
    BY <2>1 DEF LoopVisit
  <2>3. TypeOK'
    BY <2>1, <2>2, EnqueueType DEF IndType, TypeOK, LoopVisit, pauseVars, huntVars,
       procVars
  <2>4. Holders'
    BY <2>1 DEF IndType, Holders, LoopVisit, procVars
  <2>. QED
    BY <2>3, <2>4 DEF IndType
<1>. QED
  BY <1>1, <1>2, <1>3, <1>4, <1>5, <1>6 DEF TheLoop, LoopGoesOn

\* What trigger_now does once the canary has answered keeps the types.
LEMMA CheckedType ==
    ASSUME IndType, NEW p \in Procs, NEW e \in Entries, TriggerChecked(p, e)
    PROVE  /\ queue' \in Seq(Sids)
           /\ status' \in [Entries -> Statuses]
           /\ rows' \in [Sids -> RowType \cup {None}]
           /\ hunt_running' \in BOOLEAN
           /\ launch_lock' = launch_lock
           /\ pc' \in [Procs -> Locations]
           /\ held' \in [Procs -> Entries \cup {None}]
           /\ current' \in Procs \cup {None}
           /\ Holders'
<1>1. EntrySid[e] \in Sids
  BY EntriesAssumption
<1>2. queue \in Seq(Sids) /\ RemoveFirst(queue, EntrySid[e]) \in Seq(Sids)
  BY <1>1, RemoveFirstInSeq DEF IndType, TypeOK
<1>3. /\ queue' \in Seq(Sids)
      /\ status' \in [Entries -> Statuses]
      /\ rows' \in [Sids -> RowType \cup {None}]
  BY <1>1, <1>2, EnqueueType DEF TriggerChecked, IndType, TypeOK
<1>4. /\ hunt_running' \in BOOLEAN
      /\ launch_lock' = launch_lock
  BY DEF TriggerChecked, ClearStaleFlag, IndType, TypeOK
<1>5. {"free", "lock"} \subseteq Locations
  BY DEF Locations
<1>6. /\ pc' \in [Procs -> Locations]
      /\ held' \in [Procs -> Entries \cup {None}]
      /\ current' \in Procs \cup {None}
  BY <1>5 DEF TriggerChecked, Yield, AwaitLock, Hold, IndType, TypeOK
<1>7. Holders'
  BY EntriesAssumption DEF TriggerChecked, Yield, AwaitLock, Hold, IndType, TypeOK,
     Holders
<1>. QED
  BY <1>3, <1>4, <1>6, <1>7

\* The steps of trigger_now keep the types.
LEMMA TypeTrigger ==
    ASSUME IndType, NEW p \in Triggers, Trigger(p)
    PROVE  IndType'
<1>p. p \in Procs
  BY DEF Procs
<1>0. {"free", "created", "executing", "drain", "lock", "net", "gate", "gather",
        "visit", "ended", "stopping"} \subseteq Locations
  BY DEF Locations
<1>1. CASE \E sid \in Sids : TriggerNow(p, sid)
  <2>1. PICK sid \in Sids : TriggerNow(p, sid)
    BY <1>1
  <2>2. schedules[sid] \in Entries
    BY <2>1 DEF TriggerNow, IndType, TypeOK
  <2>3. CASE type[schedules[sid]] \in NetTypes
    BY <1>p, <1>0, <2>1, <2>2, <2>3, EntriesAssumption
       DEF IndType, Holders, TypeOK, TriggerNow, Hold, Yield, pauseVars
  <2>4. CASE type[schedules[sid]] \notin NetTypes
    <3>1. TriggerChecked(p, schedules[sid])
      BY <2>1, <2>4 DEF TriggerNow
    <3>. QED
      BY <1>p, <2>1, <2>2, <3>1, CheckedType DEF IndType, TypeOK, TriggerNow, pauseVars
  <2>. QED
    BY <2>3, <2>4
<1>2. CASE TriggerAlive(p)
  <2>1. held[p] \in Entries
    BY <1>p, <1>2 DEF TriggerAlive, At, IndType, Holders, TypeOK
  <2>2. TriggerChecked(p, held[p])
    BY <1>2 DEF TriggerAlive
  <2>. QED
    BY <1>p, <1>2, <2>1, <2>2, CheckedType DEF IndType, TypeOK, TriggerAlive, pauseVars
<1>3. CASE TriggerDead(p)
  <2>1. TypeOK'
    BY <1>p, <1>0, <1>3, RemoveFirstInSeq
       DEF IndType, Holders, TypeOK, TriggerDead, At, MayRun, Goto, Yield, Hold,
           entryVars, pauseVars, huntVars, procVars
  <2>2. Holders'
    BY <1>p, <1>3, ProcsAssumption
       DEF IndType, Holders, TypeOK, Procs, Drainers, TriggerDead, At, MayRun, Goto,
           Yield, Hold, entryVars, pauseVars, huntVars, procVars
  <2>. QED
    BY <2>1, <2>2 DEF IndType
<1>4. CASE TriggerLaunch(p)
  <2>1. held[p] \in Entries
    BY <1>p, <1>4 DEF TriggerLaunch, At, IndType, Holders, TypeOK
  <2>2. CASE AlreadyRunning(held[p])
    BY <1>p, <1>0, <1>4, <2>2 DEF IndType, Holders, TypeOK, TriggerLaunch, Yield, Hold,
       pauseVars, huntVars
  <2>3. CASE ~AlreadyRunning(held[p])
    <3>1. Launch(p, held[p], "free")
      BY <1>4, <2>3 DEF TriggerLaunch
    <3>. QED
      BY <1>p, <1>4, <2>1, <2>3, <3>1, LaunchType
         DEF IndType, TypeOK, TriggerLaunch, pauseVars, huntVars
  <2>. QED
    BY <2>2, <2>3
<1>. QED
  BY <1>1, <1>2, <1>3, <1>4 DEF Trigger

\* cancel_running, toggle, delete, update and add of one schedule keep the types.
LEMMA TypeSchedule ==
    ASSUME IndType, NEW sid \in Sids, Schedule(sid)
    PROVE  IndType'
<1>0. {"free", "created", "executing", "drain", "lock", "net", "gate", "gather",
        "visit", "ended", "stopping"} \subseteq Locations
  BY DEF Locations
<1>1. CASE CancelRunning(sid)
  <2>1. schedules[sid] \in Entries
    BY <1>1 DEF CancelRunning, IndType, TypeOK
  <2>2. CASE Queued(sid)
    <3>1. SetStatus(schedules[sid], "rest") /\ "rest" \in Statuses
      BY <1>1, <2>2 DEF CancelRunning, Statuses
    <3>. QED
      BY <1>1, <2>1, <2>2, <3>1, SetStatusType, RemoveFirstInSeq
         DEF IndType, Holders, TypeOK, CancelRunning, pauseVars, huntVars
  <2>3. CASE ~Queued(sid)
    BY <1>1, <2>3 DEF IndType, Holders, TypeOK, CancelRunning, CancelTasks, pauseVars,
       huntVars
  <2>. QED
    BY <2>2, <2>3
<1>2. CASE Toggle(sid)
  <2>1. schedules[sid] \in Entries
    BY <1>2 DEF Toggle, IndType, TypeOK
  <2>2. [Row(schedules[sid]) EXCEPT !.enabled = ~enabled[schedules[sid]]] \in RowType
    BY <2>1 DEF IndType, TypeOK, Row, RowType
  <2>. QED
    BY <1>2, <2>1, <2>2, RemoveFirstInSeq
       DEF IndType, Holders, TypeOK, Toggle, pauseVars, huntVars, procVars
<1>3. CASE Delete(sid)
  BY <1>3 DEF IndType, Holders, TypeOK, Delete, entryVars, pauseVars, huntVars, procVars
<1>4. CASE \E t \in TaskTypes : UpdateType(sid, t) \/ Add(sid, t)
  <2>1. PICK t \in TaskTypes : UpdateType(sid, t) \/ Add(sid, t)
    BY <1>4
  <2>2. CASE UpdateType(sid, t)
    <3>1. schedules[sid] \in Entries
      BY <2>2 DEF UpdateType, IndType, TypeOK
    <3>2. [Row(schedules[sid]) EXCEPT !.type = t] \in RowType
      BY <3>1 DEF IndType, TypeOK, Row, RowType
    <3>. QED
      BY <2>2, <3>1, <3>2 DEF IndType, Holders, TypeOK, UpdateType, pauseVars,
         huntVars, procVars
  <2>3. CASE Add(sid, t)
    <3>1. PICK e \in FreeEntries(sid) :
            schedules' = [schedules EXCEPT ![sid] = e] /\ NewEntry(e, t)
      BY <2>3 DEF Add
    <3>2. e \in Entries /\ "rest" \in Statuses
      BY DEF FreeEntries, Statuses
    <3>3. [DefaultRow(sid) EXCEPT !.type = t] \in RowType
      BY TypesAssumption DEF DefaultRow, RowType, Statuses
    <3>. QED
      BY <2>3, <3>1, <3>2, <3>3
         DEF IndType, Holders, TypeOK, Add, NewEntry, pauseVars, huntVars, procVars
  <2>. QED
    BY <2>1, <2>2, <2>3
<1>. QED
  BY <1>1, <1>2, <1>3, <1>4 DEF Schedule

\* The steps of the manual hunt keep the types.
LEMMA TypeHunt ==
    ASSUME IndType, HuntStep
    PROVE  IndType'
<1>p. Hunter \in Procs
  BY DEF Procs
<1>0. {"free", "created", "executing", "drain", "lock", "net", "gate", "gather",
        "visit", "ended", "stopping"} \subseteq Locations
  BY DEF Locations
<1>1. CASE HuntBegin
  <2>1. snapshot' \in [{Loop, Hunter, Stopper} -> [TaskTypes -> TaskIds \cup {None}]]
    BY <1>1 DEF HuntBegin, IndType, TypeOK
  <2>2. cancel' \in [Drainers -> BOOLEAN]
    BY <1>1 DEF HuntBegin, CancelTasks
  <2>3. queue' \in Seq(Sids)
    BY <1>1 DEF HuntBegin
  <2>. QED
    BY <1>p, <1>0, <1>1, <2>1, <2>2, <2>3
       DEF IndType, Holders, TypeOK, HuntBegin, Goto, Yield, entryVars, huntVars
<1>2. CASE HuntReady
  <2>1. /\ snapshot' \in [{Loop, Hunter, Stopper} -> [TaskTypes -> TaskIds \cup {None}]]
        /\ running_tasks' \in [TaskTypes -> TaskIds \cup {None}]
    BY <1>2 DEF HuntReady, NoTasks, IndType, TypeOK
  <2>2. status' \in [Entries -> Statuses]
    BY <1>2 DEF HuntReady, Statuses, IndType, TypeOK
  <2>3. Swept \in [Sids -> RowType \cup {None}]
    <3>1. ASSUME NEW sid \in Sids, schedules[sid] # None
          PROVE  [Row(schedules[sid]) EXCEPT !.status = "rest"] \in RowType
      BY <3>1 DEF IndType, TypeOK, Row, RowType, Statuses
    <3>. QED
      BY <3>1 DEF Swept, IndType, TypeOK
  <2>4. rows' = Swept
    BY <1>2 DEF HuntReady
  <2>. QED
    BY <1>p, <1>0, <1>2, <2>1, <2>2, <2>3, <2>4
       DEF IndType, Holders, TypeOK, HuntReady, Gathered, At, Yield
<1>3. CASE HuntEnd
  BY <1>p, <1>0, <1>3 DEF IndType, Holders, TypeOK, HuntEnd, entryVars, pauseVars,
     huntVars, procVars
<1>4. CASE StopHunt
  BY <1>p, <1>0, <1>4 DEF IndType, Holders, TypeOK, StopHunt, entryVars, pauseVars,
     huntVars, procVars
<1>. QED
  BY <1>1, <1>2, <1>3, <1>4 DEF HuntStep

\* The steps of stop keep the types.
LEMMA TypeStop ==
    ASSUME IndType, StopStep
    PROVE  IndType'
<1>p. Stopper \in Procs /\ Loop \in Drainers
  BY DEF Procs, Drainers
<1>0. {"free", "created", "executing", "drain", "lock", "net", "gate", "gather",
        "visit", "ended", "stopping"} \subseteq Locations
  BY DEF Locations
<1>1. CASE StopBegin
  <2>1. queue' \in Seq(Sids) /\ cancel' \in [Drainers -> BOOLEAN]
    BY <1>p, <1>1 DEF StopBegin, IndType, TypeOK
  <2>. QED
    BY <1>p, <1>0, <1>1, <2>1
       DEF IndType, Holders, TypeOK, StopBegin, Yield, entryVars, pauseVars, huntVars
<1>2. CASE StopTasks
  <2>1. snapshot' \in [{Loop, Hunter, Stopper} -> [TaskTypes -> TaskIds \cup {None}]]
    BY <1>2 DEF StopTasks, IndType, TypeOK
  <2>2. cancel' \in [Drainers -> BOOLEAN]
    BY <1>2 DEF StopTasks, CancelTasks
  <2>. QED
    BY <1>p, <1>0, <1>2, <2>1, <2>2
       DEF IndType, Holders, TypeOK, StopTasks, Goto, Yield, entryVars, pauseVars,
           huntVars
<1>3. CASE StopEnd
  <2>1. /\ snapshot' \in [{Loop, Hunter, Stopper} -> [TaskTypes -> TaskIds \cup {None}]]
        /\ running_tasks' \in [TaskTypes -> TaskIds \cup {None}]
        /\ queue' \in Seq(Sids)
    BY <1>3 DEF StopEnd, NoTasks, IndType, TypeOK
  <2>. QED
    BY <1>p, <1>0, <1>3, <2>1
       DEF IndType, Holders, TypeOK, StopEnd, Yield, entryVars, pauseVars, huntVars
<1>. QED
  BY <1>1, <1>2, <1>3 DEF StopStep

\* A coroutine cancelled at an await keeps the types.
LEMMA TypeAbort ==
    ASSUME IndType, NEW p \in Drainers, Abort(p)
    PROVE  IndType'
<1>p. p \in Procs
  BY DEF Drainers, Procs
<1>1. NoTasks \in [TaskTypes -> TaskIds \cup {None}]
  BY DEF NoTasks
<1>2. snapshot' \in [{Loop, Hunter, Stopper} -> [TaskTypes -> TaskIds \cup {None}]]
  <2>1. CASE p = Loop
    BY <1>1, <2>1 DEF IndType, TypeOK, Abort
  <2>2. CASE p # Loop
    BY <2>2 DEF IndType, TypeOK, Abort
  <2>. QED
    BY <2>1, <2>2
<1>3. {"free", "ended"} \subseteq Locations
  BY DEF Locations
<1>4. TypeOK'
  BY <1>p, <1>2, <1>3 DEF IndType, TypeOK, Abort, GivesBack, Yield, Hold, entryVars, pauseVars,
     huntVars
<1>5. Holders'
  BY <1>p DEF IndType, TypeOK, Holders, Abort, Yield, Hold
<1>. QED
  BY <1>4, <1>5 DEF IndType

\* restore_defaults keeps the types: each id gets an entry of its own.
LEMMA TypeRestoreDefaults ==
    ASSUME IndType, RestoreDefaults
    PROVE  IndType'
<1> DEFINE missing == {sid \in DefaultSids : schedules[sid] = None}
           new == [sid \in missing |-> CHOOSE e \in FreeEntries(sid) : TRUE]
           isNew(e) == EntrySid[e] \in missing /\ new[EntrySid[e]] = e
<1>1. \A sid \in missing : new[sid] \in Entries
  <2>1. \A sid \in missing : FreeEntries(sid) # {} /\ FreeEntries(sid) \subseteq Entries
    BY DEF RestoreDefaults, FreeEntries
  <2>. QED
    BY <2>1
<1>2. schedules' \in [Sids -> Entries \cup {None}]
  <2>1. schedules' = [sid \in Sids |-> IF sid \in missing THEN new[sid] ELSE schedules[sid]]
    BY DEF RestoreDefaults
  <2>. QED
    BY <2>1, <1>1 DEF IndType, TypeOK
<1>3. type' \in [Entries -> TaskTypes]
  <2>1. type' = [e \in Entries |-> IF isNew(e) THEN InitType[EntrySid[e]] ELSE type[e]]
    BY DEF RestoreDefaults
  <2>. QED
    BY <2>1, EntriesAssumption, TypesAssumption DEF IndType, TypeOK
<1>4. enabled' \in [Entries -> BOOLEAN]
  BY DEF RestoreDefaults
<1>5. status' \in [Entries -> Statuses]
  <2>1. status' = [e \in Entries |-> IF isNew(e) THEN "rest" ELSE status[e]]
    BY DEF RestoreDefaults
  <2>. QED
    BY <2>1 DEF IndType, TypeOK, Statuses
<1>6. rows' \in [Sids -> RowType \cup {None}]
  <2>1. rows' = [sid \in Sids |-> IF sid \in missing THEN DefaultRow(sid) ELSE rows[sid]]
    BY DEF RestoreDefaults
  <2>2. \A sid \in Sids : DefaultRow(sid) \in RowType
    BY TypesAssumption DEF DefaultRow, RowType, Statuses
  <2>. QED
    BY <2>1, <2>2 DEF IndType, TypeOK
<1>7. UNCHANGED <<queue, running_tasks, pauseVars, stopped, launch_lock, huntVars,
                  procVars, snapshot>>
  BY DEF RestoreDefaults
<1>. QED
  BY <1>2, <1>3, <1>4, <1>5, <1>6, <1>7
     DEF IndType, TypeOK, Holders, pauseVars, huntVars, procVars

\* _load_schedules keeps the types: what is loaded comes from well-typed rows.
LEMMA TypeRestart ==
    ASSUME IndType, Restart
    PROVE  IndType'
<1> DEFINE row == [sid \in Sids |-> IF rows[sid] = None /\ sid \in DefaultSids
                                    THEN DefaultRow(sid) ELSE rows[sid]]
           loaded(e) == row[EntrySid[e]] # None /\ e = FirstEntry(EntrySid[e])
<1>1. row \in [Sids -> RowType \cup {None}]
  <2>1. \A sid \in Sids : DefaultRow(sid) \in RowType
    BY TypesAssumption DEF DefaultRow, RowType, Statuses
  <2>. QED
    BY <2>1 DEF IndType, TypeOK
<1>2. \A e \in Entries : loaded(e) => row[EntrySid[e]] \in RowType
  BY <1>1, EntriesAssumption
<1>3. rows' = row /\ rows' \in [Sids -> RowType \cup {None}]
  BY <1>1 DEF Restart
<1>4. schedules' \in [Sids -> Entries \cup {None}]
  <2>1. schedules' = [sid \in Sids |-> IF row[sid] = None THEN None ELSE FirstEntry(sid)]
    BY DEF Restart
  <2>2. \A sid \in Sids : FirstEntry(sid) \in Entries
    BY EnoughEntries DEF FirstEntry
  <2>. QED
    BY <2>1, <2>2
<1>5. type' \in [Entries -> TaskTypes]
  <2>1. type' = [e \in Entries |-> IF loaded(e) THEN row[EntrySid[e]].type ELSE type[e]]
    BY DEF Restart
  <2>. QED
    BY <2>1, <1>2 DEF IndType, TypeOK, RowType
<1>6. enabled' \in [Entries -> BOOLEAN]
  <2>1. enabled' = [e \in Entries |-> IF loaded(e) THEN row[EntrySid[e]].enabled
                                      ELSE enabled[e]]
    BY DEF Restart
  <2>. QED
    BY <2>1, <1>2 DEF IndType, TypeOK, RowType
<1>7. status' \in [Entries -> Statuses]
  <2>1. status' = [e \in Entries |-> IF loaded(e) THEN row[EntrySid[e]].status
                                     ELSE status[e]]
    BY DEF Restart
  <2>. QED
    BY <2>1, <1>2 DEF IndType, TypeOK, RowType
<1>8. /\ queue' \in Seq(Sids) /\ todo' \in [Drainers -> Seq(Sids)]
      /\ running_tasks' \in [TaskTypes -> TaskIds \cup {None}]
      /\ snapshot' \in [{Loop, Hunter, Stopper} -> [TaskTypes -> TaskIds \cup {None}]]
  BY DEF Restart, NoTasks
<1>9. /\ pc' \in [Procs -> Locations] /\ held' \in [Procs -> Entries \cup {None}]
      /\ job' \in [TaskIds -> TaskTypes \cup {None}] /\ cancel' \in [Drainers -> BOOLEAN]
      /\ Holders'
  BY DEF Restart, Locations, Holders
<1>10. /\ paused' \in BOOLEAN /\ paused_by_internet' \in BOOLEAN
       /\ paused_by_hunt' \in BOOLEAN /\ stopped' \in BOOLEAN
       /\ launch_lock' \in Procs \cup {None} /\ current' \in Procs \cup {None}
       /\ hunt_running' \in BOOLEAN /\ hunt' \in BOOLEAN
  BY DEF Restart
<1>. QED
  BY <1>3, <1>4, <1>5, <1>6, <1>7, <1>8, <1>9, <1>10 DEF IndType, TypeOK

\* The types are inductive: one case per group of operations.
LEMMA TypeStep == IndType /\ [Next]_vars => IndType'
<1>. SUFFICES ASSUME IndType, [Next]_vars
              PROVE  IndType'
  OBVIOUS
<1>1. CASE TheLoop
  BY <1>1, TypeLoop
<1>2. CASE Operator
  <2>1. CASE PauseAll
    BY <2>1 DEF PauseAll, IndType, TypeOK, Holders, entryVars, huntVars, procVars
  <2>2. CASE ResumeAll
    BY <2>2 DEF ResumeAll, IndType, TypeOK, Holders, entryVars, huntVars, procVars
  <2>. QED
    BY <1>2, <2>1, <2>2, TypeRestoreDefaults, TypeSchedule, TypeHunt, TypeStop, TypeRestart
       DEF Operator
<1>3. CASE \E p \in Drainers : Drain(p) \/ Abort(p)
  BY <1>3, TypeDrain, TypeAbort
<1>4. CASE \E i \in TaskIds : Task(i)
  BY <1>4, TypeTask
<1>5. CASE \E p \in Triggers : Trigger(p)
  BY <1>5, TypeTrigger
<1>6. CASE UNCHANGED vars
  BY <1>6 DEF vars, IndType, TypeOK, Holders, entryVars, pauseVars, huntVars, procVars
<1>. QED
  BY <1>1, <1>2, <1>3, <1>4, <1>5, <1>6 DEF Next

\* Every variable keeps its type, and whoever waits for the lock or for a
\* probe, or runs a task, holds a schedule to do it for.
THEOREM TypeInvariant == Spec => []IndType
<1>1. Init => IndType
  <2>1. Init => Holders
    BY DEF Init, Holders
  <2>. QED
    BY <2>1, TypeInit DEF IndType
<1>. QED
  BY <1>1, TypeStep, PTL DEF Spec

\* Every variable of the scheduler keeps its type through every operation of
\* scheduler.py and its mixins.
THEOREM TypeCorrect == Spec => []TypeOK
<1>1. IndType => TypeOK
  BY DEF IndType
<1>. QED
  BY <1>1, TypeInvariant, PTL

(***************************************************************************)
(* What the launch lock is for.                                            *)
(***************************************************************************)

\* A drain that waits for the canary holds the lock, and the type it is
\* about to launch is still not running.
Guarded ==
    \A p \in Drainers : pc[p] = "net" => launch_lock = p /\ ~TypeRunning(held[p])
IndSlot == IndType /\ Guarded

\* A launch for a free type leaves every other registration alone and takes nobody
\* to the canary.
LEMMA LaunchFillsFreeSlot ==
    ASSUME IndType, NEW p \in Procs, NEW e \in Entries, NEW l \in {"free", "drain"},
           Launch(p, e, l), ~TypeRunning(e)
    PROVE  /\ \A t \in TaskTypes : running_tasks[t] # None => running_tasks'[t] = running_tasks[t]
           /\ \A q \in Procs : pc'[q] = "net" => pc[q] = "net" /\ held'[q] = held[q] /\ q # p
<1>1. PICK i \in FreshTasks :
        /\ running_tasks' = [running_tasks EXCEPT ![type[e]] = i]
        /\ pc' = [pc EXCEPT ![p] = l, ![i] = "created"]
        /\ held' = [held EXCEPT ![p] = None, ![i] = e]
  BY DEF Launch
<1>2. i \in TaskIds /\ i \in Procs
  BY DEF FreshTasks, Procs
<1>. QED
  BY <1>1, <1>2 DEF IndType, TypeOK, TypeRunning

KeepsSlots == \A t \in TaskTypes : running_tasks[t] # None =>
                  running_tasks'[t] \in {running_tasks[t], None}
OpensSlots == \A t \in TaskTypes : running_tasks'[t] \in {running_tasks[t], None}
\* A step that launches nothing and leaves those who wait for the canary alone.
Bystander ==
    /\ OpensSlots
    /\ \A p \in Drainers : pc'[p] = "net" =>
          /\ pc[p] = "net" /\ held'[p] = held[p] /\ launch_lock' = launch_lock
          /\ type'[held[p]] = type[held[p]]

\* A step that opens slots at most, and changes nothing a drain at the canary
\* relies on, keeps the lock invariant.
LEMMA BystanderKeeps ==
    ASSUME IndSlot, IndType', Bystander
    PROVE  IndSlot' /\ KeepsSlots
<1>1. KeepsSlots
  BY DEF Bystander, OpensSlots, KeepsSlots
<1>2. ASSUME NEW p \in Drainers, pc'[p] = "net"
      PROVE  launch_lock' = p /\ ~TypeRunning(held[p])'
  <2>1. pc[p] = "net" /\ held'[p] = held[p] /\ launch_lock' = launch_lock
        /\ type'[held[p]] = type[held[p]]
    BY <1>2 DEF Bystander
  <2>2. launch_lock = p /\ running_tasks[type[held[p]]] = None
    BY <2>1 DEF IndSlot, Guarded, TypeRunning
  <2>3. type[held[p]] \in TaskTypes
    BY <2>1 DEF IndSlot, IndType, TypeOK, Holders, Drainers, Procs
  <2>. QED
    BY <2>1, <2>2, <2>3 DEF Bystander, OpensSlots, TypeRunning
<1>. QED
  BY <1>1, <1>2 DEF IndSlot, Guarded

\* While _launch_lock is free, no drain is at the canary.
LEMMA FreeLockNobodyProbes ==
    ASSUME IndSlot, launch_lock = None
    PROVE  \A p \in Drainers : pc[p] # "net"
BY ProcsAssumption DEF IndSlot, Guarded, Drainers, Procs

\* The steps of a drain outside the decision are such steps ...
LEMMA DrainIsBystander ==
    ASSUME IndSlot, NEW p \in Drainers,
           Drain(p), ~TryProbe(p), ~TryLaunchOffline(p), ~NetAlive(p)
    PROVE  Bystander
<1>p. p \in Procs
  BY DEF Drainers, Procs
<1>1. CASE NetDead(p)
  <2>1. launch_lock = p
    BY <1>1 DEF NetDead, At, IndSlot, Guarded
  <2>2. \A q \in Drainers : pc'[q] # "net"
    BY <1>p, <1>1, <2>1
       DEF NetDead, Blocked, Goto, IndSlot, Guarded, IndType, TypeOK, Drainers, Procs
  <2>. QED
    BY <1>1, <2>2 DEF NetDead, Bystander, OpensSlots
<1>2. CASE ~NetDead(p)
  BY <1>p, <1>2 DEF Bystander, OpensSlots, IndSlot, IndType, TypeOK, Drainers, Procs, Drain,
     DrainGone, DrainBlocked, DrainTry, DrainDone, TryBlocked, HasLock, Blocked,
     AwaitLock, At, Goto, Yield, Hold, entryVars
<1>. QED
  BY <1>1, <1>2

\* ... and so are the start and the end of a task, which drops its registration ...
LEMMA TaskIsBystander ==
    ASSUME IndSlot, NEW i \in TaskIds, Task(i)
    PROVE  Bystander
<1>p. i \in Procs
  BY DEF Procs
<1>1. CASE EndUnstarted(i) \/ Start(i)
  BY <1>p, <1>1 DEF Bystander, OpensSlots, IndSlot, IndType, TypeOK, Drainers, Procs,
     EndUnstarted, Start, At, Yield, Hold, entryVars
<1>2. CASE Finish(i)
  BY <1>p, <1>2 DEF Bystander, OpensSlots, IndSlot, IndType, TypeOK, Drainers, Procs,
     Finish, Unregister, BeginDrain, At, Goto, Yield, Hold
<1>. QED
  BY <1>1, <1>2 DEF Task

\* Who is cancelled while it holds the lock is the only one at the canary.
LEMMA AbortIsBystander ==
    ASSUME IndSlot, NEW p \in Drainers, Abort(p)
    PROVE  Bystander
<1>p. p \in Procs
  BY DEF Drainers, Procs
<1>1. UNCHANGED <<type, running_tasks>>
  BY DEF Abort, entryVars
<1>2. ASSUME NEW q \in Drainers, pc'[q] = "net"
      PROVE  pc[q] = "net" /\ held'[q] = held[q] /\ launch_lock' = launch_lock
  <2>1. pc[q] = "net" /\ q # p /\ held'[q] = held[q]
    BY <1>p, <1>2 DEF Abort, Yield, Hold, IndSlot, IndType, TypeOK, Drainers, Procs
  <2>. QED
    BY <2>1 DEF Abort, GivesBack, IndSlot, Guarded
<1>. QED
  BY <1>1, <1>2 DEF Bystander, OpensSlots

\* ... the tick loop, whose gate clears registrations ...
LEMMA LoopIsBystander ==
    ASSUME IndSlot, TheLoop
    PROVE  Bystander
<1>p. Loop \in Procs /\ Loop \in Drainers
  BY DEF Drainers, Procs
<1>1. CASE Tick \/ GateUp \/ GateDown
  BY <1>p, <1>1 DEF Bystander, OpensSlots, IndSlot, IndType, TypeOK, Drainers, Procs,
     Tick, GateUp, GateDown, TickUnlessPaused, At, Goto, Yield, entryVars
<1>2. CASE GateGathered
  BY <1>p, <1>2 DEF Bystander, OpensSlots, IndSlot, IndType, TypeOK, Drainers, Procs,
     GateGathered, Gathered, Popped, TickUnlessPaused, At, Goto, Yield, entryVars
<1>3. CASE LoopDrain
  BY <1>p, <1>3 DEF Bystander, OpensSlots, IndSlot, IndType, TypeOK, Drainers, Procs,
     LoopDrain, BeginDrain, At, Goto, Yield, entryVars
<1>4. CASE \E sid \in Sids : LoopVisit(sid)
  BY <1>4 DEF Bystander, OpensSlots, LoopVisit, procVars
<1>. QED
  BY <1>1, <1>2, <1>3, <1>4 DEF TheLoop, LoopGoesOn

\* ... "Run now" until it launches ...
LEMMA TriggerIsBystander ==
    ASSUME IndSlot, NEW p \in Triggers, Trigger(p),
           TriggerLaunch(p) => AlreadyRunning(held[p])
    PROVE  Bystander
<1>p. p \in Procs /\ p \notin Drainers
  BY ProcsAssumption DEF Drainers, Procs
<1>1. CASE \E sid \in Sids : TriggerNow(p, sid)
  BY <1>p, <1>1 DEF Bystander, OpensSlots, IndSlot, IndType, TypeOK, Drainers, Procs,
     TriggerNow, TriggerChecked, AwaitLock, Hold, Yield
<1>2. CASE TriggerAlive(p) \/ TriggerDead(p)
  BY <1>p, <1>2 DEF Bystander, OpensSlots, IndSlot, IndType, TypeOK, Drainers, Procs,
     TriggerAlive, TriggerDead, TriggerChecked, AwaitLock, Hold, Yield, entryVars
<1>3. CASE TriggerLaunch(p)
  BY <1>p, <1>3 DEF Bystander, OpensSlots, IndSlot, IndType, TypeOK, Drainers, Procs,
     TriggerLaunch, Hold, Yield
<1>. QED
  BY <1>1, <1>2, <1>3 DEF Trigger

\* A new entry is one nobody holds.
LEMMA NewEntriesAreUnheld ==
    ASSUME IndType, NEW p \in Procs, held[p] # None, NEW sid \in Sids
    PROVE  held[p] \notin FreeEntries(sid)
BY DEF FreeEntries, Referenced

\* ... the default schedules coming back ...
LEMMA RestoreIsBystander ==
    ASSUME IndSlot, RestoreDefaults
    PROVE  Bystander
<1> DEFINE missing == {sid \in DefaultSids : schedules[sid] = None}
           new == [sid \in missing |-> CHOOSE e \in FreeEntries(sid) : TRUE]
           isNew(e) == EntrySid[e] \in missing /\ new[EntrySid[e]] = e
<1>1. \A sid \in missing : new[sid] \in FreeEntries(sid)
  BY DEF RestoreDefaults
<1>2. ASSUME NEW p \in Drainers, pc[p] = "net"
      PROVE  type'[held[p]] = type[held[p]]
  <2>1. held[p] \in Entries /\ held[p] # None /\ p \in Procs
    BY <1>2 DEF IndSlot, IndType, TypeOK, Holders, Drainers, Procs
  <2>2. EntrySid[held[p]] \in Sids
    BY <2>1, EntriesAssumption
  <2>3. ~isNew(held[p])
    BY <1>1, <2>1, <2>2, NewEntriesAreUnheld DEF IndSlot
  <2>4. type' = [e \in Entries |-> IF isNew(e) THEN InitType[EntrySid[e]] ELSE type[e]]
    BY DEF RestoreDefaults
  <2>. QED
    BY <2>1, <2>3, <2>4
<1>. QED
  BY <1>2 DEF RestoreDefaults, Bystander, OpensSlots, procVars

\* ... the edits of one schedule that leave its type alone ...
LEMMA ScheduleIsBystander ==
    ASSUME IndSlot, NEW sid \in Sids, Schedule(sid), "retype" \notin Ops
    PROVE  Bystander
<1>1. CASE CancelRunning(sid) \/ Toggle(sid) \/ Delete(sid)
  BY <1>1 DEF Bystander, OpensSlots, CancelRunning, Toggle, Delete, entryVars, procVars
<1>2. CASE \E t \in TaskTypes : Add(sid, t)
  <2>1. PICK t \in TaskTypes : Add(sid, t)
    BY <1>2
  <2>2. PICK e \in FreeEntries(sid) : type' = [type EXCEPT ![e] = t]
    BY <2>1 DEF Add, NewEntry
  <2>3. \A p \in Drainers : pc[p] = "net" => held[p] # e /\ held[p] \in Entries
    BY <2>2, NewEntriesAreUnheld DEF IndSlot, IndType, TypeOK, Holders, Drainers, Procs
  <2>. QED
    BY <2>1, <2>2, <2>3 DEF Add, Bystander, OpensSlots, procVars, IndSlot, IndType, TypeOK
<1>3. ~ \E t \in TaskTypes : UpdateType(sid, t)
  BY DEF UpdateType, Request
<1>. QED
  BY <1>1, <1>2, <1>3 DEF Schedule

\* ... and whatever else the operator asks for, but for a restart.
LEMMA OperatorIsBystander ==
    ASSUME IndSlot, Operator, ~Restart, "retype" \notin Ops
    PROVE  Bystander
<1>1. CASE PauseAll \/ ResumeAll \/ StopHunt \/ HuntEnd
  BY <1>1 DEF Bystander, OpensSlots, PauseAll, ResumeAll, StopHunt, HuntEnd,
     entryVars, procVars
<1>2. CASE HuntBegin \/ HuntReady \/ StopStep
  <2>1. Hunter \in Procs \ Drainers /\ Stopper \in Procs \ Drainers
    BY ProcsAssumption DEF Drainers, Procs
  <2>. QED
    BY <1>2, <2>1 DEF Bystander, OpensSlots, IndSlot, IndType, TypeOK, Drainers, Procs,
       HuntBegin, HuntReady, StopStep, StopBegin, StopTasks, StopEnd, NoTasks, Gathered,
       Goto, Yield, entryVars
<1>. QED
  BY <1>1, <1>2, RestoreIsBystander, ScheduleIsBystander DEF Operator, HuntStep

\* So there are four kinds of steps, for the lock and for the registrations.
LEMMA StepKinds ==
    ASSUME IndSlot, [Next]_vars, "retype" \notin Ops
    PROVE  \/ Bystander \/ Restart
           \/ \E p \in Drainers : TryProbe(p) \/ TryLaunchOffline(p) \/ NetAlive(p)
           \/ \E p \in Triggers : TriggerLaunch(p) /\ ~AlreadyRunning(held[p])
<1>1. CASE UNCHANGED vars
  BY <1>1 DEF vars, Bystander, OpensSlots, entryVars, procVars
<1>. QED
  BY <1>1, LoopIsBystander, OperatorIsBystander, DrainIsBystander, AbortIsBystander,
     TaskIsBystander, TriggerIsBystander DEF Next

\* The drain that takes the lock is alone at the canary.
LEMMA ProbeTakesLock ==
    ASSUME IndSlot, NEW p \in Drainers, TryProbe(p)
    PROVE  /\ launch_lock' = p /\ MayLaunch(held[p])
           /\ UNCHANGED <<type, held, running_tasks>>
           /\ \A q \in Drainers : pc'[q] = "net" => q = p
<1>p. p \in Procs
  BY DEF Drainers, Procs
<1>1. launch_lock = None
  BY DEF TryProbe, HasLock
<1>2. \A q \in Drainers : pc'[q] = "net" => q = p
  BY <1>p, <1>1, FreeLockNobodyProbes
     DEF TryProbe, Yield, IndSlot, IndType, TypeOK, Drainers, Procs
<1>. QED
  BY <1>2 DEF TryProbe, entryVars

\* Who launches does so for a free type while no other drain is at the canary.
LEMMA LaunchersAreAlone ==
    ASSUME IndSlot, NEW p \in Procs,
           \/ p \in Drainers /\ (TryLaunchOffline(p) \/ NetAlive(p))
           \/ p \in Triggers /\ TriggerLaunch(p) /\ ~AlreadyRunning(held[p])
    PROVE  /\ held[p] \in Entries /\ ~TypeRunning(held[p])
           /\ \E l \in {"free", "drain"} : Launch(p, held[p], l)
           /\ \A q \in Drainers : pc'[q] # "net"
<1>1. held[p] \in Entries
  BY DEF TryLaunchOffline, NetAlive, TriggerLaunch, HasLock, At, IndSlot, IndType, Holders, TypeOK
<1>2. ~TypeRunning(held[p])
  BY DEF TryLaunchOffline, NetAlive, TriggerLaunch, AlreadyRunning, HasLock, MayLaunch, At,
     IndSlot, Guarded
<1>3. PICK l \in {"free", "drain"} : Launch(p, held[p], l)
  BY DEF TryLaunchOffline, NetAlive, TriggerLaunch, LaunchQueued
<1>4. \A q \in Procs : pc'[q] = "net" => pc[q] = "net" /\ q # p
  BY <1>1, <1>2, <1>3, LaunchFillsFreeSlot DEF IndSlot
<1>5. launch_lock \in {None, p}
  BY DEF TryLaunchOffline, NetAlive, TriggerLaunch, HasLock, At, IndSlot, Guarded
<1>. QED
  BY <1>1, <1>2, <1>3, <1>4, <1>5, ProcsAssumption DEF IndSlot, Guarded, Drainers, Procs

\* The lock invariant is inductive, and no step replaces a registration.
LEMMA SlotStep ==
    ASSUME IndSlot, [Next]_vars, "retype" \notin Ops
    PROVE  IndSlot' /\ KeepsSlots
<1>t. IndType'
  BY TypeStep DEF IndSlot
<1>1. CASE Bystander
  BY <1>t, <1>1, BystanderKeeps
<1>2. CASE Restart
  <2>1. (\A p \in Drainers : pc'[p] # "net") /\ KeepsSlots
    BY <1>2 DEF Restart, KeepsSlots, NoTasks, Drainers, Procs
  <2>. QED
    BY <1>t, <2>1 DEF IndSlot, Guarded
<1>3. CASE \E p \in Drainers : TryProbe(p)
  BY <1>t, <1>3, ProbeTakesLock DEF IndSlot, Guarded, TypeRunning, KeepsSlots, MayLaunch
<1>4. ASSUME NEW p \in Procs,
             \/ p \in Drainers /\ (TryLaunchOffline(p) \/ NetAlive(p))
             \/ p \in Triggers /\ TriggerLaunch(p) /\ ~AlreadyRunning(held[p])
      PROVE  IndSlot' /\ KeepsSlots
  BY <1>t, <1>4, LaunchersAreAlone, LaunchFillsFreeSlot DEF IndSlot, Guarded, KeepsSlots
<1>. QED
  BY <1>1, <1>2, <1>3, <1>4, StepKinds DEF Drainers, Procs

\* As long as nobody changes the type of a schedule, no launch replaces the
\* registration of a task that has not given it up, whatever drains, "Run now"
\* requests, hunts, outages, restarts and deletions interleave with it.
THEOREM LaunchesOverwriteNothing ==
    ASSUME "retype" \notin Ops
    PROVE  Spec => NoOverwrite
<1>1. Init => IndSlot
  <2>1. Init => Guarded
    BY DEF Init, Guarded, Drainers, Procs
  <2>2. Init => IndType
    BY TypeInit DEF IndType, Holders, Init
  <2>. QED
    BY <2>1, <2>2 DEF IndSlot
<1>2. IndSlot /\ [Next]_vars => IndSlot'
  BY SlotStep
<1>3. IndSlot /\ [Next]_vars =>
        [\A t \in TaskTypes : running_tasks[t] # None =>
            running_tasks'[t] \in {running_tasks[t], None}]_vars
  BY SlotStep DEF KeepsSlots
<1>. QED
  BY <1>1, <1>2, <1>3, PTL DEF Spec, NoOverwrite

(***************************************************************************)
(* The lock: what IndSlot needs of it is that who is at the canary has it. *)
(* The converse needs nothing but the types: who has it is at the canary.  *)
(***************************************************************************)
IndHolder == IndType /\ LockHasHolder

\* A step that takes nobody away from the canary and does not touch the lock.
StaysAtCanary ==
    launch_lock' = launch_lock /\ \A q \in Drainers : pc[q] = "net" => pc'[q] = "net"

\* A launch takes neither a drain at the canary away from it nor one that is there.
LEMMA LaunchStays ==
    ASSUME IndType, NEW p \in Procs, NEW e \in Entries, NEW l, Launch(p, e, l)
    PROVE  \A q \in Drainers \ {p} : pc[q] = "net" => pc'[q] = "net"
<1>1. PICK i \in FreshTasks : pc' = [pc EXCEPT ![p] = l, ![i] = "created"]
  BY DEF Launch
<1>. QED
  BY <1>1 DEF FreshTasks, IndType, TypeOK, Drainers, Procs

\* A drain takes the lock and goes to the canary, returns from it and gives the lock
\* back, or is elsewhere.
LEMMA DrainHolds ==
    ASSUME IndHolder, NEW p \in Drainers, Drain(p)
    PROVE  LockHasHolder'
<1>p. p \in Procs
  BY DEF Drainers, Procs
<1>1. CASE NetAlive(p) \/ NetDead(p)
  BY <1>1 DEF NetAlive, NetDead, Release, LockHasHolder
<1>2. CASE TryProbe(p)
  BY <1>p, <1>2 DEF TryProbe, Yield, LockHasHolder, IndHolder, IndType, TypeOK
<1>3. CASE TryLaunchOffline(p)
  <2>1. held[p] \in Entries /\ Launch(p, held[p], "drain") /\ pc[p] # "net"
        /\ launch_lock' = launch_lock
    BY <1>p, <1>3 DEF TryLaunchOffline, LaunchQueued, HasLock, At, IndHolder, IndType,
       Holders, TypeOK
  <2>. QED
    BY <1>p, <2>1, LaunchStays DEF LockHasHolder, IndHolder
<1>4. CASE DrainGone(p) \/ DrainBlocked(p) \/ DrainTry(p) \/ DrainDone(p) \/ TryBlocked(p)
  BY <1>p, <1>4 DEF LockHasHolder, IndHolder, IndType, TypeOK, Drainers, Procs, DrainGone,
     DrainBlocked, DrainTry, DrainDone, TryBlocked, HasLock, Blocked, AwaitLock, At, Goto,
     Yield, Hold
<1>. QED
  BY <1>1, <1>2, <1>3, <1>4 DEF Drain

\* A cancellation at the canary gives it back as well.
LEMMA AbortHolds ==
    ASSUME IndHolder, NEW p \in Drainers, Abort(p)
    PROVE  LockHasHolder'
<1>1. launch_lock' = IF launch_lock = p THEN None ELSE launch_lock
  BY DEF Abort, GivesBack
<1>2. \A q \in Drainers \ {p} : pc'[q] = pc[q]
  BY DEF Abort, Yield, IndHolder, IndType, TypeOK, Drainers, Procs
<1>. QED
  BY <1>1, <1>2 DEF LockHasHolder, IndHolder

\* Tasks before and after their executor, the tick loop outside its drain ...
LEMMA TaskStays ==
    ASSUME IndType, NEW i \in TaskIds, Task(i)
    PROVE  StaysAtCanary
BY DEF StaysAtCanary, IndType, TypeOK, Drainers, Procs, Task, EndUnstarted, Start, Finish,
   BeginDrain, At, Goto, Yield

LEMMA LoopStays ==
    ASSUME IndType, TheLoop
    PROVE  StaysAtCanary
<1>p. Loop \in Procs
  BY DEF Procs
<1>1. CASE \E sid \in Sids : LoopVisit(sid)
  BY <1>1 DEF LoopVisit, procVars, StaysAtCanary
<1>2. CASE LoopGoesOn
  BY <1>p, <1>2 DEF StaysAtCanary, IndType, TypeOK, Drainers, Procs, LoopGoesOn, Tick, GateUp,
     GateDown, GateGathered, Gathered, LoopDrain, TickUnlessPaused, BeginDrain, At, Goto, Yield
<1>. QED
  BY <1>1, <1>2 DEF TheLoop

\* ... and "Run now", which gives the lock back within the step that takes it.
LEMMA TriggerStays ==
    ASSUME IndType, NEW p \in Triggers, Trigger(p)
    PROVE  StaysAtCanary
<1>p. p \in Procs /\ p \notin Drainers
  BY ProcsAssumption DEF Drainers, Procs
<1>1. CASE TriggerLaunch(p) /\ ~AlreadyRunning(held[p])
  <2>1. held[p] \in Entries /\ Launch(p, held[p], "free") /\ launch_lock' = launch_lock
    BY <1>p, <1>1 DEF TriggerLaunch, At, IndType, Holders, TypeOK
  <2>. QED
    BY <1>p, <2>1, LaunchStays DEF StaysAtCanary
<1>2. CASE TriggerLaunch(p) /\ AlreadyRunning(held[p])
  BY <1>p, <1>2 DEF TriggerLaunch, StaysAtCanary, IndType, TypeOK, Drainers, Procs, Yield
<1>3. CASE \E sid \in Sids : TriggerNow(p, sid)
  BY <1>p, <1>3 DEF StaysAtCanary, IndType, TypeOK, Drainers, Procs, TriggerNow,
     TriggerChecked, AwaitLock, Yield
<1>4. CASE TriggerAlive(p) \/ TriggerDead(p)
  BY <1>p, <1>4 DEF StaysAtCanary, IndType, TypeOK, Drainers, Procs, TriggerAlive,
     TriggerDead, TriggerChecked, AwaitLock, Yield
<1>. QED
  BY <1>1, <1>2, <1>3, <1>4 DEF Trigger

\* No request but the restart of the process touches it.
LEMMA OperatorStays ==
    ASSUME IndType, Operator, ~Restart
    PROVE  StaysAtCanary
<1>p. Hunter \in Procs \ Drainers /\ Stopper \in Procs \ Drainers
  BY ProcsAssumption DEF Drainers, Procs
<1>1. CASE PauseAll \/ ResumeAll \/ RestoreDefaults \/ HuntEnd \/ StopHunt
  BY <1>1 DEF PauseAll, ResumeAll, RestoreDefaults, HuntEnd, StopHunt, procVars,
     StaysAtCanary
<1>2. CASE \E sid \in Sids : Schedule(sid)
  BY <1>2 DEF Schedule, CancelRunning, Toggle, Delete, UpdateType, Add, procVars,
     StaysAtCanary
<1>3. CASE HuntBegin \/ HuntReady \/ StopStep
  BY <1>p, <1>3 DEF StaysAtCanary, IndType, TypeOK, Drainers, Procs, HuntBegin, HuntReady,
     StopStep, StopBegin, StopTasks, StopEnd, Gathered, Goto, Yield
<1>. QED
  BY <1>1, <1>2, <1>3 DEF Operator, HuntStep

\* The lock that decides over every launch is never left behind: who has it waits for
\* the canary, whatever is cancelled, swept, stopped or restarted meanwhile.
THEOREM LockIsNeverOrphaned == Spec => []LockHasHolder
<1>1. Init => IndHolder
  BY TypeInit DEF Init, IndHolder, IndType, Holders, LockHasHolder
<1>2. IndHolder /\ [Next]_vars => IndHolder'
  <2> SUFFICES ASSUME IndHolder, [Next]_vars PROVE LockHasHolder'
    BY TypeStep DEF IndHolder
  <2>1. CASE StaysAtCanary
    BY <2>1 DEF StaysAtCanary, LockHasHolder, IndHolder
  <2>2. CASE Restart
    BY <2>2 DEF Restart, LockHasHolder
  <2>3. CASE UNCHANGED vars
    BY <2>3 DEF vars, procVars, LockHasHolder, IndHolder
  <2>. QED
    BY <2>1, <2>2, <2>3, DrainHolds, AbortHolds, TaskStays, LoopStays, TriggerStays,
       OperatorStays DEF Next, IndHolder
<1>3. IndHolder => LockHasHolder
  BY DEF IndHolder
<1>. QED
  BY <1>1, <1>2, <1>3, PTL DEF Spec

(***************************************************************************)
(* One task per type, as long as nobody sweeps the registrations (a hunt,  *)
(* an outage or the shutdown) or gives a schedule another type.            *)
(***************************************************************************)

\* The operations of which none may be enabled.
Undisturbed == Ops \cap {"retype", "add", "hunt", "outage", "stop"} = {}
Live(i) == pc[i] \in {"created", "executing"}

\* A live task is registered under the type of its schedule ...
OwnSlot == \A i \in TaskIds : Live(i) => running_tasks[type[held[i]]] = i
\* ... whose executor is the one that runs ...
OwnJob == \A i \in TaskIds : job[i] # None => pc[i] = "executing" /\ job[i] = type[held[i]]
\* ... what a process holds is the schedule of its id, unless that is deleted ...
HeldIsCurrent == \A p \in Procs : held[p] # None => schedules[EntrySid[held[p]]] \in {None, held[p]}
OwnSid == \A sid \in Sids : schedules[sid] # None => EntrySid[schedules[sid]] = sid
\* ... and nobody is about to clear registrations.
NoSweep == pc[Hunter] # "gather" /\ pc[Stopper] \notin {"stopping", "gather"} /\ pc[Loop] # "gather"
IndOne == IndSlot /\ OwnSlot /\ OwnJob /\ HeldIsCurrent /\ OwnSid /\ NoSweep

\* The invariant holds when the scheduler starts: nothing runs.
LEMMA OneInit == Init => IndOne
<1>. SUFFICES ASSUME Init PROVE IndOne
  OBVIOUS
<1>1. IndSlot
  BY TypeInit DEF Init, IndSlot, IndType, Holders, Guarded, Drainers, Procs
<1>2. OwnSid
  BY EnoughEntries DEF Init, OwnSid, FirstEntry
<1>3. OwnSlot /\ OwnJob /\ HeldIsCurrent
  BY DEF Init, OwnSlot, OwnJob, HeldIsCurrent, Live, Procs
<1>4. NoSweep
  BY DEF Init, NoSweep, Procs
<1>. QED
  BY <1>1, <1>2, <1>3, <1>4 DEF IndOne

\* Steps that neither start nor end a task and sweep nothing.
Calm ==
    /\ UNCHANGED <<type, running_tasks, job>>
    /\ \A sid \in Sids : schedules'[sid] \in {schedules[sid], None}
    /\ \A i \in TaskIds : /\ Live(i)' => Live(i) /\ held'[i] = held[i]
                          /\ pc[i] = "executing" => pc'[i] = "executing"
    /\ \A p \in Procs : held'[p] # None =>
          held'[p] = held[p] \/ \E sid \in Sids : schedules[sid] = held'[p]

\* A calm step keeps tasks, registrations and jobs together.
LEMMA CalmKeeps ==
    ASSUME IndOne, IndSlot', Calm, NoSweep'
    PROVE  IndOne'
<1>1. OwnSlot'
  BY DEF IndOne, Calm, OwnSlot
<1>2. OwnJob'
  BY DEF IndOne, Calm, OwnJob, Live
<1>3. OwnSid'
  BY DEF IndOne, Calm, OwnSid
<1>4. HeldIsCurrent'
  <2>. SUFFICES ASSUME NEW p \in Procs, held'[p] # None
                PROVE  schedules'[EntrySid[held'[p]]] \in {None, held'[p]}
    BY DEF HeldIsCurrent
  <2>1. held'[p] \in Entries /\ EntrySid[held'[p]] \in Sids
    BY EntriesAssumption DEF IndSlot, IndType, TypeOK
  <2>2. schedules[EntrySid[held'[p]]] \in {None, held'[p]}
    BY DEF IndOne, Calm, HeldIsCurrent, OwnSid
  <2>. QED
    BY <2>1, <2>2 DEF Calm
<1>. QED
  BY <1>1, <1>2, <1>3, <1>4 DEF IndOne

\* A launch registers the new task under the type of the schedule it holds.
LEMMA LaunchIsOwn ==
    ASSUME IndOne, NEW p \in Procs, NEW e \in Entries, NEW l \in {"free", "drain"},
           Launch(p, e, l), ~TypeRunning(e), held[p] = e, ~(p \in TaskIds /\ Live(p)),
           UNCHANGED <<schedules, type, job>>, IndSlot'
    PROVE  IndOne'
<1>1. PICK i \in FreshTasks :
        /\ running_tasks' = [running_tasks EXCEPT ![type[e]] = i]
        /\ pc' = [pc EXCEPT ![p] = l, ![i] = "created"]
        /\ held' = [held EXCEPT ![p] = None, ![i] = e]
  BY DEF Launch
<1>2. i \in TaskIds /\ i \in Procs /\ pc[i] = "free"
  BY DEF FreshTasks, Procs
<1>3. type[e] \in TaskTypes /\ running_tasks[type[e]] = None
  BY DEF IndOne, IndSlot, IndType, TypeOK, TypeRunning
<1>4. OwnSlot'
  <2>. SUFFICES ASSUME NEW j \in TaskIds, Live(j)'
                PROVE  running_tasks'[type[held'[j]]] = j
    BY DEF OwnSlot
  <2>1. CASE j = i
    BY <1>1, <1>2, <1>3, <2>1 DEF IndOne, IndSlot, IndType, TypeOK
  <2>2. CASE j # i
    <3>1. j # p /\ Live(j) /\ held'[j] = held[j] /\ j \in Procs
      BY <1>1, <1>2, <2>2 DEF Live, IndOne, IndSlot, IndType, TypeOK, Procs
    <3>2. running_tasks[type[held[j]]] = j /\ j # None
      BY <3>1, ProcsAssumption DEF IndOne, OwnSlot
    <3>. QED
      BY <1>1, <1>3, <3>1, <3>2 DEF IndOne, IndSlot, IndType, TypeOK
  <2>. QED
    BY <2>1, <2>2
<1>5. OwnJob'
  BY <1>1, <1>2 DEF IndOne, OwnJob, Live, IndSlot, IndType, TypeOK, Procs
<1>6. HeldIsCurrent'
  BY <1>1, <1>2 DEF IndOne, HeldIsCurrent, IndSlot, IndType, TypeOK
<1>7. OwnSid'
  BY DEF IndOne, OwnSid
<1>8. NoSweep'
  BY <1>1, <1>2, ProcsAssumption DEF IndOne, NoSweep, IndSlot, IndType, TypeOK, Procs
<1>. QED
  BY <1>4, <1>5, <1>6, <1>7, <1>8 DEF IndOne

\* Drains keep the invariant: they are calm, or launch.
LEMMA OneDrain ==
    ASSUME IndOne, IndSlot', NEW p \in Drainers, Drain(p)
    PROVE  IndOne'
<1>p. p \in Procs /\ Loop \in Procs /\ Hunter \in Procs /\ Stopper \in Procs
      /\ p # Hunter /\ p # Stopper /\ TaskIds \subseteq Procs
  BY ProcsAssumption DEF Drainers, Procs
<1>1. CASE DrainGone(p) \/ DrainBlocked(p) \/ DrainDone(p) \/ TryBlocked(p)
           \/ TryProbe(p) \/ NetDead(p)
  <2>1. Calm /\ NoSweep'
    BY <1>p, <1>1 DEF Calm, Live, IndOne, NoSweep, IndSlot, IndType, TypeOK,
       DrainGone, DrainBlocked, DrainDone, TryBlocked, TryProbe, NetDead, HasLock, Blocked,
       At, Goto, Yield, Hold, entryVars
  <2>. QED
    BY <2>1, CalmKeeps
<1>2. CASE DrainTry(p)
  <2>1. Head(todo[p]) \in Sids
    BY <1>2 DEF DrainTry, IndOne, IndSlot, IndType, TypeOK
  <2>2. held' = [held EXCEPT ![p] = schedules[Head(todo[p])]]
    BY <1>2 DEF DrainTry, Hold
  <2>3. Calm /\ NoSweep'
    BY <1>p, <1>2, <2>1, <2>2 DEF Calm, Live, IndOne, NoSweep, IndSlot, IndType, TypeOK,
       DrainTry, At, AwaitLock, entryVars
  <2>. QED
    BY <2>3, CalmKeeps
<1>3. CASE TryLaunchOffline(p) \/ NetAlive(p)
  <2>1. held[p] \in Entries /\ pc[p] \in {"lock", "net"}
    BY <1>p, <1>3 DEF TryLaunchOffline, NetAlive, HasLock, At, IndOne, IndSlot, IndType,
       Holders, TypeOK
  <2>2. ~TypeRunning(held[p]) /\ Launch(p, held[p], "drain")
    BY <1>3 DEF TryLaunchOffline, NetAlive, MayLaunch, LaunchQueued, At, IndOne, IndSlot, Guarded
  <2>3. UNCHANGED <<schedules, type, job>>
    BY <1>3 DEF TryLaunchOffline, NetAlive, LaunchQueued
  <2>. QED
    BY <1>p, <2>1, <2>2, <2>3, LaunchIsOwn DEF Live
<1>. QED
  BY <1>1, <1>2, <1>3 DEF Drain

\* A task keeps it: it starts the executor of its own type and gives up that
\* type's registration when it ends.
LEMMA OneTask ==
    ASSUME IndOne, IndSlot', NEW i \in TaskIds, Task(i)
    PROVE  IndOne'
<1>p. i \in Procs /\ i # Hunter /\ i # Stopper /\ i # Loop /\ TaskIds \subseteq Procs
      /\ Loop \in Procs /\ Hunter \in Procs /\ Stopper \in Procs
  BY ProcsAssumption DEF Procs
<1>h. held[i] # None => held[i] \in Entries /\ EntrySid[held[i]] \in Sids
  BY <1>p, EntriesAssumption DEF IndOne, IndSlot, IndType, TypeOK
<1>1. CASE EndUnstarted(i)
  <2>1. Calm /\ NoSweep'
    BY <1>p, <1>1 DEF Calm, Live, IndOne, NoSweep, IndSlot, IndType, TypeOK,
       EndUnstarted, At, Yield, Hold, entryVars
  <2>. QED
    BY <2>1, CalmKeeps
<1>2. CASE Start(i)
  <2>1. held[i] # None /\ pc[i] = "created"
    BY <1>p, <1>2 DEF Start, At, IndOne, IndSlot, IndType, Holders
  <2>2. schedules[EntrySid[held[i]]] = held[i]
    BY <1>p, <1>2, <2>1 DEF Start, IndOne, HeldIsCurrent
  <2>3. /\ held' = held /\ pc' = [pc EXCEPT ![i] = "executing"]
        /\ job' = [job EXCEPT ![i] = type[held[i]]]
        /\ UNCHANGED <<schedules, type, running_tasks>>
    BY <1>p, <1>2, <2>2 DEF Start, Hold, Yield, entryVars, IndOne, IndSlot, IndType, TypeOK
  <2>4. OwnSlot'
    BY <1>p, <2>1, <2>3 DEF IndOne, OwnSlot, Live, IndSlot, IndType, TypeOK
  <2>5. OwnJob'
    BY <1>p, <2>1, <2>3 DEF IndOne, OwnJob, IndSlot, IndType, TypeOK
  <2>6. HeldIsCurrent' /\ OwnSid' /\ NoSweep'
    BY <1>p, <2>3 DEF IndOne, HeldIsCurrent, OwnSid, NoSweep, IndSlot, IndType, TypeOK
  <2>. QED
    BY <2>4, <2>5, <2>6 DEF IndOne
<1>3. CASE Finish(i)
  <2>1. held[i] \in Entries /\ pc[i] = "executing" /\ type[held[i]] \in TaskTypes
    BY <1>p, <1>3 DEF Finish, At, IndOne, IndSlot, IndType, Holders, TypeOK
  <2>2. /\ running_tasks' = [running_tasks EXCEPT ![type[held[i]]] = None]
        /\ held' = [held EXCEPT ![i] = None] /\ job' = [job EXCEPT ![i] = None]
        /\ pc' = [pc EXCEPT ![i] = "free"] \/ pc' = [pc EXCEPT ![i] = "drain"]
        /\ UNCHANGED <<schedules, type>>
    BY <1>3 DEF Finish, Unregister, Hold, BeginDrain, Yield, Goto
  <2>3. OwnSlot'
    <3>. SUFFICES ASSUME NEW j \in TaskIds, Live(j)'
                  PROVE  running_tasks'[type[held'[j]]] = j
      BY <2>2 DEF OwnSlot
    <3>1. j # i /\ Live(j) /\ held'[j] = held[j] /\ held[j] \in Entries
      BY <1>p, <2>2 DEF Live, IndOne, IndSlot, IndType, TypeOK, Holders
    <3>2. running_tasks[type[held[j]]] = j /\ running_tasks[type[held[i]]] = i
      BY <2>1, <3>1 DEF IndOne, OwnSlot, Live
    <3>. QED
      BY <2>1, <2>2, <3>1, <3>2 DEF IndOne, IndSlot, IndType, TypeOK
  <2>4. OwnJob'
    BY <1>p, <2>2 DEF IndOne, OwnJob, IndSlot, IndType, TypeOK
  <2>5. HeldIsCurrent' /\ OwnSid' /\ NoSweep'
    BY <1>p, <2>2 DEF IndOne, HeldIsCurrent, OwnSid, NoSweep, IndSlot, IndType, TypeOK
  <2>. QED
    BY <2>3, <2>4, <2>5 DEF IndOne
<1>. QED
  BY <1>1, <1>2, <1>3 DEF Task

\* A cancelled drain is a calm step.
LEMMA OneAbort ==
    ASSUME IndOne, IndSlot', NEW p \in Drainers, Abort(p)
    PROVE  IndOne'
<1>p. p \in Procs /\ p # Hunter /\ p # Stopper /\ TaskIds \subseteq Procs
      /\ Loop \in Procs /\ Hunter \in Procs /\ Stopper \in Procs /\ Loop \notin TaskIds
  BY ProcsAssumption DEF Procs, Drainers
<1>1. Calm /\ NoSweep'
  BY <1>p DEF Calm, Live, IndOne, NoSweep, IndSlot, IndType, TypeOK, Abort, Yield, Hold,
     entryVars
<1>. QED
  BY <1>1, CalmKeeps

\* The tick loop only queues schedules.
LEMMA OneLoop ==
    ASSUME IndOne, IndSlot', TheLoop, Undisturbed
    PROVE  IndOne'
<1>p. Loop \in Procs /\ Loop # Hunter /\ Loop # Stopper /\ TaskIds \subseteq Procs
      /\ Hunter \in Procs /\ Stopper \in Procs /\ Loop \notin TaskIds
  BY ProcsAssumption DEF Procs
<1>1. Calm /\ NoSweep'
  <2>1. CASE Tick \/ GateUp \/ LoopDrain
    BY <1>p, <2>1 DEF Calm, Live, IndOne, NoSweep, IndSlot, IndType, TypeOK, Tick, GateUp,
       LoopDrain, TickUnlessPaused, BeginDrain, Goto, Yield, entryVars
  <2>2. CASE GateDown \/ GateGathered
    BY <2>2 DEF GateDown, GateGathered, Gathered, At, Undisturbed, IndOne, NoSweep
  <2>3. CASE \E sid \in Sids : LoopVisit(sid)
    BY <2>3 DEF Calm, Live, IndOne, NoSweep, LoopVisit, procVars
  <2>. QED
    BY <2>1, <2>2, <2>3 DEF TheLoop, LoopGoesOn
<1>. QED
  BY <1>1, CalmKeeps

\* "Run now" is calm, or launches.
LEMMA OneTrigger ==
    ASSUME IndOne, IndSlot', NEW p \in Triggers, Trigger(p)
    PROVE  IndOne'
<1>p. p \in Procs /\ p # Hunter /\ p # Stopper /\ p # Loop /\ p \notin TaskIds
      /\ Loop \in Procs /\ Hunter \in Procs /\ Stopper \in Procs /\ TaskIds \subseteq Procs
  BY ProcsAssumption DEF Procs
<1>1. CASE \E sid \in Sids : TriggerNow(p, sid)
  <2>1. Calm /\ NoSweep'
    BY <1>p, <1>1 DEF Calm, Live, IndOne, NoSweep, IndSlot, IndType, TypeOK, TriggerNow,
       TriggerChecked, AwaitLock, Hold, Yield
  <2>. QED
    BY <2>1, CalmKeeps
<1>2. CASE TriggerAlive(p) \/ TriggerDead(p)
  <2>1. Calm /\ NoSweep'
    BY <1>p, <1>2 DEF Calm, Live, IndOne, NoSweep, IndSlot, IndType, TypeOK, TriggerAlive,
       TriggerDead, TriggerChecked, AwaitLock, Hold, Yield, entryVars
  <2>. QED
    BY <2>1, CalmKeeps
<1>3. CASE TriggerLaunch(p) /\ AlreadyRunning(held[p])
  <2>1. Calm /\ NoSweep'
    BY <1>p, <1>3 DEF Calm, Live, IndOne, NoSweep, IndSlot, IndType, TypeOK, TriggerLaunch,
       Hold, Yield
  <2>. QED
    BY <2>1, CalmKeeps
<1>4. CASE TriggerLaunch(p) /\ ~AlreadyRunning(held[p])
  <2>1. held[p] \in Entries
    BY <1>p, <1>4 DEF TriggerLaunch, At, IndOne, IndSlot, IndType, Holders, TypeOK
  <2>2. /\ ~TypeRunning(held[p]) /\ Launch(p, held[p], "free")
        /\ UNCHANGED <<schedules, type, job>>
    BY <1>4 DEF TriggerLaunch, AlreadyRunning
  <2>. QED
    BY <1>p, <2>1, <2>2, LaunchIsOwn
<1>. QED
  BY <1>1, <1>2, <1>3, <1>4 DEF Trigger

\* The requests that are left are calm, and a restart starts from nothing.
LEMMA OneOperator ==
    ASSUME IndOne, IndSlot', Operator, Undisturbed
    PROVE  IndOne'
<1>1. CASE PauseAll \/ ResumeAll \/ StopHunt \/ HuntEnd
  <2>1. Calm /\ NoSweep'
    BY <1>1 DEF Calm, Live, IndOne, NoSweep, PauseAll, ResumeAll, StopHunt, HuntEnd,
       entryVars, procVars
  <2>. QED
    BY <2>1, CalmKeeps
<1>2. CASE \E sid \in Sids : Schedule(sid)
  <2>1. PICK sid \in Sids : CancelRunning(sid) \/ Toggle(sid) \/ Delete(sid)
    BY <1>2 DEF Schedule, UpdateType, Add, Request, Undisturbed
  <2>2. Calm /\ NoSweep'
    BY <2>1 DEF Calm, Live, IndOne, NoSweep, IndSlot, IndType, TypeOK, CancelRunning, Toggle,
       Delete, entryVars, procVars
  <2>. QED
    BY <2>2, CalmKeeps
<1>3. CASE Restart
  <2>1. /\ \A p \in Procs : pc'[p] = "free" /\ held'[p] = None
        /\ \A i \in TaskIds : job'[i] = None
    BY <1>3 DEF Restart
  <2>2. OwnSid'
    BY <1>3, EnoughEntries DEF Restart, OwnSid, FirstEntry
  <2>3. OwnSlot' /\ OwnJob' /\ HeldIsCurrent' /\ NoSweep'
    BY <2>1 DEF OwnSlot, OwnJob, HeldIsCurrent, NoSweep, Live, Procs
  <2>. QED
    BY <2>2, <2>3 DEF IndOne
<1>4. ~RestoreDefaults /\ ~HuntBegin /\ ~HuntReady /\ ~StopStep
  BY DEF RestoreDefaults, HuntBegin, HuntReady, StopStep, StopBegin, StopTasks, StopEnd,
     Gathered, At, Request, Undisturbed, IndOne, NoSweep
<1>. QED
  BY <1>1, <1>2, <1>3, <1>4 DEF Operator, HuntStep

\* One task per type is inductive.
LEMMA OneStep ==
    ASSUME IndOne, [Next]_vars, Undisturbed
    PROVE  IndOne'
<1>1. IndSlot'
  BY SlotStep DEF IndOne, Undisturbed
<1>2. CASE UNCHANGED vars
  BY <1>1, <1>2 DEF vars, IndOne, OwnSlot, OwnJob, HeldIsCurrent, OwnSid, NoSweep, Live,
     entryVars, procVars
<1>. QED
  BY <1>1, <1>2, OneLoop, OneOperator, OneDrain, OneAbort, OneTask, OneTrigger DEF Next

\* No two executors of one task type run at once, and no running task is
\* missing from _running_tasks, whatever number of drains and "Run now"
\* requests compete while schedules are paused, cancelled, toggled and deleted
\* and the process is restarted.
THEOREM OneTaskPerType ==
    ASSUME Undisturbed
    PROVE  Spec => [](OnePerType /\ LiveIsRegistered)
<1>1. IndOne /\ [Next]_vars => IndOne'
  BY OneStep
<1>2. IndOne => OnePerType
  BY DEF IndOne, OwnSlot, OwnJob, OnePerType, Live
<1>3. IndOne => LiveIsRegistered
  <2>. SUFFICES ASSUME IndOne, NEW i \in TaskIds, Live(i)
                PROVE  i \in Registered
    BY DEF LiveIsRegistered, Live
  <2>1. held[i] \in Entries /\ running_tasks[type[held[i]]] = i
    BY DEF IndOne, OwnSlot, IndSlot, IndType, Holders, TypeOK, Live, Procs
  <2>. QED
    BY <2>1, ProcsAssumption DEF Registered, IndOne, IndSlot, IndType, TypeOK, Procs
<1>. QED
  BY OneInit, <1>1, <1>2, <1>3, PTL DEF Spec

\* The same for the second half by itself: a task that runs is always the one
\* _running_tasks names for its type, so that the gate, the hunt and the
\* shutdown, which cancel what is registered, reach it.
THEOREM LiveTasksAreRegistered ==
    ASSUME Undisturbed
    PROVE  Spec => []LiveIsRegistered
BY OneTaskPerType, PTL

(***************************************************************************)
(* Mutual exclusion of task types, where only the drains launch: the "Run  *)
(* now" button looks at mutex_with before it waits for the lock.           *)
(***************************************************************************)

ClearAhead == \A p \in Drainers : pc[p] = "net" => ~Conflicting(held[p])
IndMutex == IndSlot /\ ClearAhead /\ MutexHolds

\* What a drain that finds no conflict launches excludes nothing that runs.
LEMMA LaunchExcludesNothing ==
    ASSUME IndMutex, NEW p \in Procs, NEW e \in Entries, NEW l \in {"free", "drain"},
           Launch(p, e, l), ~Conflicting(e)
    PROVE  MutexHolds'
<1>1. PICK i \in FreshTasks : running_tasks' = [running_tasks EXCEPT ![type[e]] = i]
  BY DEF Launch
<1>2. \A t \in mutex_with[type[e]] : running_tasks[t] = None
  BY DEF Conflicting
<1>3. type[e] \in TaskTypes
  BY DEF IndMutex, IndSlot, IndType, TypeOK
<1>. QED
  BY <1>1, <1>2, <1>3, TypesAssumption DEF IndMutex, MutexHolds, IndSlot, IndType, TypeOK

\* A step that opens slots at most creates no conflict.
LEMMA BystanderExcludes ==
    ASSUME IndMutex, IndSlot', Bystander
    PROVE  IndMutex'
<1>1. MutexHolds'
  BY DEF Bystander, OpensSlots, IndMutex, MutexHolds
<1>2. ASSUME NEW p \in Drainers, pc'[p] = "net"
      PROVE  ~Conflicting(held[p])'
  <2>1. /\ pc[p] = "net" /\ held'[p] = held[p] /\ type'[held[p]] = type[held[p]]
        /\ ~Conflicting(held[p])
    BY <1>2 DEF Bystander, IndMutex, ClearAhead
  <2>2. mutex_with[type[held[p]]] \subseteq TaskTypes
    BY <2>1, TypesAssumption
       DEF IndMutex, IndSlot, IndType, TypeOK, Holders, Drainers, Procs
  <2>. QED
    BY <2>1, <2>2 DEF Bystander, OpensSlots, Conflicting
<1>. QED
  BY <1>1, <1>2 DEF IndMutex, ClearAhead

\* Exclusion is inductive: only a drain launches, and it has found no conflict.
LEMMA MutexStep ==
    ASSUME IndMutex, [Next]_vars, "retype" \notin Ops, Triggers = {}
    PROVE  IndMutex'
<1>s. IndSlot /\ IndSlot'
  BY SlotStep DEF IndMutex
<1>1. CASE Bystander
  BY <1>s, <1>1, BystanderExcludes
<1>2. CASE Restart
  BY <1>s, <1>2 DEF Restart, IndMutex, ClearAhead, MutexHolds, NoTasks, Drainers, Procs
<1>3. CASE \E p \in Drainers : TryProbe(p)
  <2>1. PICK p \in Drainers : TryProbe(p)
    BY <1>3
  <2>2. ClearAhead'
    BY <1>s, <2>1, ProbeTakesLock DEF ClearAhead, Conflicting, MayLaunch
  <2>. QED
    BY <1>s, <2>1, <2>2, ProbeTakesLock DEF IndMutex, MutexHolds
<1>4. ASSUME NEW p \in Drainers, TryLaunchOffline(p) \/ NetAlive(p)
      PROVE  IndMutex'
  <2>p. p \in Procs
    BY DEF Drainers, Procs
  <2>1. ~Conflicting(held[p])
    BY <1>4 DEF TryLaunchOffline, NetAlive, MayLaunch, At, IndMutex, ClearAhead
  <2>2. MutexHolds'
    BY <1>s, <1>4, <2>p, <2>1, LaunchersAreAlone, LaunchExcludesNothing
  <2>3. ClearAhead'
    BY <1>s, <1>4, <2>p, LaunchersAreAlone DEF ClearAhead
  <2>. QED
    BY <1>s, <2>2, <2>3 DEF IndMutex
<1>. QED
  BY <1>s, <1>1, <1>2, <1>3, <1>4, StepKinds

\* Types that exclude each other never run together, whatever drains, hunts,
\* outages, restarts and edits interleave, where no "Run now" request comes in.
THEOREM ExclusiveTypesExclude ==
    ASSUME "retype" \notin Ops, Triggers = {}
    PROVE  Spec => []MutexHolds
<1>1. Init => IndMutex
  BY OneInit DEF IndOne, IndMutex, ClearAhead, MutexHolds, Init, NoTasks, Drainers, Procs
<1>2. IndMutex /\ [Next]_vars => IndMutex'
  BY MutexStep
<1>3. IndMutex => MutexHolds
  BY DEF IndMutex
<1>. QED
  BY <1>1, <1>2, <1>3, PTL DEF Spec

\* In TaskSlots, opening slots is the end of some tasks, or nothing.
LEMMA FewerRunning ==
    ASSUME OpensSlots
    PROVE  [Slots!Next]_{t \in TaskTypes : running_tasks[t] # None}
<1> DEFINE before == {t \in TaskTypes : running_tasks[t] # None}
           after == {t \in TaskTypes : running_tasks'[t] # None}
<1>1. after = before \ (before \ after)
  BY DEF OpensSlots
<1>2. (before \ after) \in SUBSET before
  OBVIOUS
<1>3. CASE before \ after = {}
  BY <1>1, <1>3
<1>4. CASE before \ after # {}
  BY <1>1, <1>2, <1>4 DEF Slots!Next, Slots!End
<1>. QED
  BY <1>3, <1>4

\* In TaskSlots, a launch starts one type.
LEMMA OneMoreRunning ==
    ASSUME IndType, NEW p \in Procs, NEW e \in Entries, NEW l \in {"free", "drain"},
           Launch(p, e, l), ~TypeRunning(e), ~Conflicting(e)
    PROVE  Slots!Next
<1>1. PICK i \in FreshTasks : running_tasks' = [running_tasks EXCEPT ![type[e]] = i]
  BY DEF Launch
<1>2. i # None /\ type[e] \in TaskTypes
  BY ProcsAssumption DEF FreshTasks, Procs, IndType, TypeOK
<1>3. mutex_with[type[e]] \cap {t \in TaskTypes : running_tasks[t] # None} = {}
  BY DEF Conflicting
<1>4. {t \in TaskTypes : running_tasks[t] # None}'
        = {t \in TaskTypes : running_tasks[t] # None} \cup {type[e]}
  BY <1>1, <1>2 DEF IndType, TypeOK
<1>. QED
  BY <1>2, <1>3, <1>4 DEF Slots!Next, Slots!Start, TypeRunning

\* The scheduler implements TaskSlots, where only the drains launch and no
\* schedule changes its type: every launch starts one type that is free and
\* excluded by nothing, every other step ends tasks or none.
THEOREM SchedulerImplementsSlots ==
    ASSUME "retype" \notin Ops, Triggers = {}
    PROVE  Spec => ImplementsSlots
<1>1. Init => IndMutex
  BY OneInit DEF IndOne, IndMutex, ClearAhead, MutexHolds, Init, NoTasks, Drainers, Procs
<1>2. IndMutex /\ [Next]_vars => IndMutex'
  BY MutexStep
<1>3. Init => Slots!Init
  BY DEF Init, NoTasks, Slots!Init
<1>4. IndMutex /\ [Next]_vars => [Slots!Next]_{t \in TaskTypes : running_tasks[t] # None}
  <2>. SUFFICES ASSUME IndMutex, [Next]_vars
                PROVE  [Slots!Next]_{t \in TaskTypes : running_tasks[t] # None}
    OBVIOUS
  <2>s. IndSlot /\ IndType
    BY DEF IndMutex, IndSlot
  <2>1. CASE Bystander
    BY <2>1, FewerRunning DEF Bystander
  <2>2. CASE Restart
    BY <2>2, FewerRunning DEF Restart, OpensSlots, NoTasks
  <2>3. CASE \E p \in Drainers : TryProbe(p)
    BY <2>s, <2>3, FewerRunning, ProbeTakesLock DEF OpensSlots
  <2>4. ASSUME NEW p \in Drainers, TryLaunchOffline(p) \/ NetAlive(p)
        PROVE  Slots!Next
    <3>1. p \in Procs /\ ~Conflicting(held[p])
      BY <2>4 DEF TryLaunchOffline, NetAlive, MayLaunch, At, IndMutex, ClearAhead,
         Drainers, Procs
    <3>. QED
      BY <2>s, <2>4, <3>1, LaunchersAreAlone, OneMoreRunning
  <2>. QED
    BY <2>s, <2>1, <2>2, <2>3, <2>4, StepKinds
<1>. QED
  BY <1>1, <1>2, <1>3, <1>4, PTL DEF Spec, ImplementsSlots, Slots!Spec

(***************************************************************************)
(* Who pauses and who resumes.                                             *)
(***************************************************************************)

\* Only the gate, the two buttons, the hunt and a restart touch the pauses.
LEMMA OthersLeavePauses ==
    ASSUME [Next]_vars, ~GateUp, ~GateDown, ~PauseAll, ~ResumeAll,
           ~HuntBegin, ~HuntReady, ~HuntEnd, ~Restart
    PROVE  UNCHANGED pauseVars
<1>1. CASE TheLoop
  BY <1>1 DEF TheLoop, LoopGoesOn, Tick, GateGathered, LoopDrain, LoopVisit
<1>2. CASE \E p \in Drainers : Drain(p) \/ Abort(p)
  <2>. PICK p \in Drainers : Drain(p) \/ Abort(p)
    BY <1>2
  <2>. QED
    BY DEF Drain, DrainGone, DrainBlocked, DrainTry, DrainDone, TryBlocked, TryProbe,
       TryLaunchOffline, LaunchQueued, NetAlive, NetDead, Abort
<1>3. CASE \E i \in TaskIds : Task(i)
  BY <1>3 DEF Task, EndUnstarted, Start, Finish
<1>4. CASE \E p \in Triggers : Trigger(p)
  BY <1>4 DEF Trigger, TriggerNow, TriggerAlive, TriggerDead, TriggerLaunch
<1>5. CASE \E sid \in Sids : Schedule(sid)
  BY <1>5 DEF Schedule, CancelRunning, Toggle, Delete, UpdateType, Add
<1>6. CASE StopHunt \/ StopStep \/ RestoreDefaults
  BY <1>6 DEF StopHunt, StopStep, StopBegin, StopTasks, StopEnd, RestoreDefaults
<1>7. CASE UNCHANGED vars
  BY <1>7 DEF vars
<1>. QED
  BY <1>1, <1>2, <1>3, <1>4, <1>5, <1>6, <1>7 DEF Next, Operator, HuntStep

\* Only their own moves take the hunt request and the shutdown on.
LEMMA LeftAlone ==
    ASSUME IndType, [Next]_vars, ~Restart, NEW h \in {Hunter, Stopper},
           HuntStep => h = Stopper, StopStep => h = Hunter
    PROVE  pc'[h] = pc[h] /\ (~HuntStep => hunt' = hunt)
<1>h. h \in Procs /\ h \notin Drainers /\ h \notin Triggers /\ h \notin TaskIds
      /\ h # Loop /\ Hunter # Stopper
  BY ProcsAssumption DEF Procs, Drainers
<1>t. pc \in [Procs -> Locations]
  BY DEF IndType, TypeOK
<1>1. CASE TheLoop
  BY <1>h, <1>t, <1>1 DEF TheLoop, LoopGoesOn, Tick, GateUp, GateDown, GateGathered, LoopDrain,
     LoopVisit, TickUnlessPaused, BeginDrain, Goto, Yield, huntVars, procVars
<1>2. CASE \E p \in Drainers : Drain(p)
  <2>. PICK p \in Drainers : Drain(p)
    BY <1>2
  <2>1. CASE DrainGone(p) \/ DrainBlocked(p) \/ DrainTry(p) \/ DrainDone(p)
             \/ TryBlocked(p) \/ NetDead(p)
    BY <1>h, <1>t, <2>1 DEF DrainGone, DrainBlocked, DrainTry, DrainDone, TryBlocked,
       NetDead, Blocked, AwaitLock, Goto, Yield, huntVars
  <2>2. CASE TryProbe(p)
    BY <1>h, <1>t, <2>2 DEF TryProbe, Goto, Yield, huntVars
  <2>3. CASE TryLaunchOffline(p) \/ NetAlive(p)
    BY <1>h, <1>t, <2>3 DEF TryLaunchOffline, NetAlive, LaunchQueued, Launch, FreshTasks,
       Goto, Yield, huntVars
  <2>. QED
    BY <2>1, <2>2, <2>3 DEF Drain
<1>3. CASE \E p \in Drainers : Abort(p)
  BY <1>h, <1>t, <1>3 DEF Abort, Yield, huntVars
<1>4. CASE \E i \in TaskIds : Task(i)
  BY <1>h, <1>t, <1>4 DEF Task, EndUnstarted, Start, Finish, BeginDrain, Goto, Yield, huntVars
<1>5. CASE \E p \in Triggers : Trigger(p)
  <2>. PICK p \in Triggers : Trigger(p)
    BY <1>5
  <2>1. CASE TriggerLaunch(p)
    BY <1>h, <1>t, <2>1 DEF TriggerLaunch, Launch, FreshTasks, Yield, huntVars
  <2>2. CASE ~TriggerLaunch(p)
    BY <1>h, <1>t, <2>2 DEF Trigger, TriggerNow, TriggerAlive, TriggerDead, TriggerChecked,
       AwaitLock, Yield, huntVars
  <2>. QED
    BY <2>1, <2>2
<1>6. CASE \E sid \in Sids : Schedule(sid)
  BY <1>6 DEF Schedule, CancelRunning, Toggle, Delete, UpdateType, Add, huntVars, procVars
<1>7. CASE StopStep
  BY <1>h, <1>t, <1>7 DEF StopStep, StopBegin, StopTasks, StopEnd, Goto, Yield, huntVars
<1>8. CASE PauseAll \/ ResumeAll \/ RestoreDefaults
  BY <1>8 DEF PauseAll, ResumeAll, RestoreDefaults, huntVars, procVars
<1>9. CASE UNCHANGED vars
  BY <1>9 DEF vars, huntVars, procVars
<1>10. CASE HuntStep
  BY <1>h, <1>t, <1>10 DEF HuntStep, HuntBegin, HuntReady, HuntEnd, StopHunt, Goto, Yield,
     procVars
<1>. QED
  BY <1>1, <1>2, <1>3, <1>4, <1>5, <1>6, <1>7, <1>8, <1>9, <1>10 DEF Next, Operator

\* Without a hunt and without the pause buttons, the pause is the gate's own.
IndGate == InternetPauseHolds /\ ~hunt /\ pc[Hunter] = "free"

\* No step breaks that while nobody else pauses or resumes.
LEMMA GateStep ==
    ASSUME Ops \cap {"pause", "hunt"} = {}, IndType, IndType', IndGate, [Next]_vars
    PROVE  IndGate'
<1>1. ~PauseAll /\ ~ResumeAll /\ ~HuntBegin /\ ~HuntReady /\ ~HuntEnd /\ ~HuntStep
  BY DEF HuntStep, PauseAll, ResumeAll, HuntBegin, HuntReady, HuntEnd, StopHunt, Request,
     Gathered, At, IndGate
<1>h. Hunter \in Procs /\ Hunter \notin Drainers /\ Hunter \notin Triggers
      /\ Hunter \notin TaskIds /\ Hunter # Loop /\ Hunter # Stopper
  BY ProcsAssumption DEF Procs, Drainers
<1>2. CASE Restart
  BY <1>2, <1>h DEF Restart, IndGate, InternetPauseHolds
<1>3. CASE ~Restart
  <2>1. InternetPauseHolds'
    <3>1. CASE GateUp
      BY <3>1 DEF GateUp, LiftInternetPause, InternetPauseHolds
    <3>2. CASE GateDown
      BY <3>2 DEF GateDown, IndGate, InternetPauseHolds
    <3>3. CASE ~GateUp /\ ~GateDown
      BY <1>1, <1>3, <3>3, OthersLeavePauses DEF pauseVars, IndGate, InternetPauseHolds
    <3>. QED
      BY <3>1, <3>2, <3>3
  <2>2. hunt' = hunt /\ pc'[Hunter] = pc[Hunter]
    BY <1>1, <1>3, LeftAlone
  <2>. QED
    BY <2>1, <2>2 DEF IndGate
<1>. QED
  BY <1>2, <1>3

\* While the gate holds the scheduler paused for want of internet it is
\* paused (_internet_gate), unless a button or a hunt lifts the pause for it.
THEOREM GatePauseHolds ==
    ASSUME Ops \cap {"pause", "hunt"} = {}
    PROVE  Spec => []InternetPauseHolds
<1>1. Init => IndGate
  BY DEF Init, IndGate, InternetPauseHolds, Procs
<1>2. IndType /\ IndType' /\ IndGate /\ [Next]_vars => IndGate'
  BY GateStep
<1>3. IndGate => InternetPauseHolds
  BY DEF IndGate
<1>. QED
  BY <1>1, <1>2, <1>3, TypeInvariant, PTL DEF Spec

\* A gate that never finds the internet gone never holds a pause.
LEMMA NoOutageStep ==
    ASSUME Ops \cap {"pause", "outage"} = {}, ~paused_by_internet, [Next]_vars
    PROVE  /\ ~paused_by_internet'
           /\ paused_by_hunt /\ paused /\ paused_by_hunt' => paused'
<1>1. ~GateDown /\ ~PauseAll /\ ~ResumeAll
  BY DEF GateDown, PauseAll, ResumeAll, Request
<1>2. CASE GateUp
  BY <1>2 DEF GateUp, LiftInternetPause
<1>3. CASE HuntBegin \/ HuntReady \/ HuntEnd
  BY <1>3 DEF HuntBegin, HuntReady, HuntEnd
<1>4. CASE Restart
  BY <1>4 DEF Restart
<1>. QED
  BY <1>1, <1>2, <1>3, <1>4, OthersLeavePauses DEF pauseVars

\* The pause of the manual hunt lasts until the hunt gives it up
\* (_end_manual_hunt), if neither the operator nor an outage interferes.
THEOREM HuntsPauseLasts ==
    ASSUME Ops \cap {"pause", "outage"} = {}
    PROVE  Spec => HuntPauseIsKept
<1>1. Init => ~paused_by_internet
  BY DEF Init
<1>2. ~paused_by_internet /\ [Next]_vars => ~paused_by_internet'
  BY NoOutageStep
<1>3. ~paused_by_internet /\ [Next]_vars
        => [paused_by_hunt /\ paused /\ paused_by_hunt' => paused']_vars
  BY NoOutageStep
<1>. QED
  BY <1>1, <1>2, <1>3, PTL DEF Spec, HuntPauseIsKept

(***************************************************************************)
(* What a crash loses.                                                     *)
(***************************************************************************)

\* While no schedule is added, an id has the object it was loaded with or none.
First(e) == e = FirstEntry(EntrySid[e])
FirstOnly ==
    /\ \A sid \in Sids : schedules[sid] \in {FirstEntry(sid), None}
    /\ \A p \in Procs : held[p] # None => First(held[p])
IndRows == IndType /\ FirstOnly /\ RowsCurrent

\* The first object of an id has that id.
LEMMA FirstEntryIsOwn ==
    ASSUME NEW sid \in Sids
    PROVE  FirstEntry(sid) \in Entries /\ EntrySid[FirstEntry(sid)] = sid /\ FirstEntry(sid) # None
<1>1. \E e \in Entries : EntrySid[e] = sid
  BY EnoughEntries
<1>. QED
  BY <1>1, EntriesAssumption DEF FirstEntry

\* An object reaches a process only from the dict or from itself.
TakesKnown ==
    /\ schedules' = schedules
    /\ \A p \in Procs : held'[p] \in {held[p], None} \cup {schedules[sid] : sid \in Sids}

\* So nobody gets hold of another object.
LEMMA KnownStaysFirst ==
    ASSUME FirstOnly, TakesKnown
    PROVE  FirstOnly'
<1>1. ASSUME NEW p \in Procs, held'[p] # None
      PROVE  First(held'[p])
  <2>1. CASE held'[p] = held[p]
    BY <1>1, <2>1 DEF FirstOnly
  <2>2. CASE held'[p] # held[p]
    <3>1. PICK sid \in Sids : held'[p] = schedules[sid]
      BY <1>1, <2>2 DEF TakesKnown
    <3>2. held'[p] = FirstEntry(sid)
      BY <1>1, <3>1 DEF FirstOnly
    <3>. QED
      BY <3>2, FirstEntryIsOwn DEF First
  <2>. QED
    BY <2>1, <2>2
<1>2. \A sid \in Sids : schedules'[sid] \in {FirstEntry(sid), None}
  BY DEF FirstOnly, TakesKnown
<1>. QED
  BY <1>1, <1>2 DEF FirstOnly, First

\* A step that touches neither a field nor a row.
LEMMA UntouchedRows ==
    ASSUME IndRows, TakesKnown, UNCHANGED <<entryVars, rows>>
    PROVE  (FirstOnly /\ RowsCurrent)'
BY KnownStaysFirst DEF IndRows, TakesKnown, RowsCurrent, Row, entryVars

\* _persist writes the row of the object that has the id.
LEMMA StatusWritten ==
    ASSUME IndRows, NEW e \in Entries, First(e), NEW s \in Statuses, SetStatus(e, s),
           NEW sid \in Sids, schedules[sid] # None
    PROVE  rows'[sid] = [type |-> type[schedules[sid]], enabled |-> enabled[schedules[sid]],
                         status |-> status'[schedules[sid]]]
<1>1. schedules[sid] = FirstEntry(sid) /\ schedules[sid] \in Entries
      /\ EntrySid[schedules[sid]] = sid
  BY FirstEntryIsOwn DEF IndRows, FirstOnly
<1>2. status' = [status EXCEPT ![e] = s] /\ status \in [Entries -> Statuses]
  BY DEF SetStatus, IndRows, IndType, TypeOK
<1>3. rows' = [rows EXCEPT ![EntrySid[e]] = [Row(e) EXCEPT !.status = s]]
      /\ rows \in [Sids -> RowType \cup {None}]
  BY DEF SetStatus, Persist, IndRows, IndType, TypeOK
<1>4. rows[sid] = Row(schedules[sid])
  BY DEF IndRows, RowsCurrent
<1>5. CASE EntrySid[e] = sid
  <2>1. schedules[sid] = e
    BY <1>1, <1>5 DEF First
  <2>2. rows'[sid] = [Row(e) EXCEPT !.status = s]
    BY <1>3, <1>5
  <2>3. status'[e] = s
    BY <1>2
  <2>. QED
    BY <2>1, <2>2, <2>3 DEF Row
<1>6. CASE EntrySid[e] # sid
  <2>1. schedules[sid] # e
    BY <1>1, <1>6
  <2>2. status'[schedules[sid]] = status[schedules[sid]] /\ rows'[sid] = rows[sid]
    BY <1>1, <1>2, <1>3, <1>6, <2>1
  <2>. QED
    BY <1>4, <2>2 DEF Row
<1>. QED
  BY <1>5, <1>6

\* So every row stays what its schedule says.
LEMMA PersistedRows ==
    ASSUME IndRows, TakesKnown, NEW e \in Entries, First(e), NEW s \in Statuses,
           SetStatus(e, s), UNCHANGED <<type, enabled>>
    PROVE  (FirstOnly /\ RowsCurrent)'
<1>1. RowsCurrent'
  BY StatusWritten DEF RowsCurrent, Row, TakesKnown
<1>. QED
  BY <1>1, KnownStaysFirst DEF IndRows

\* _enqueue writes one row at most, the one of the schedule it queues.
LEMMA EnqueuedRows ==
    ASSUME IndRows, TakesKnown, NEW sid \in Sids, NEW q, Enqueue(sid, q),
           UNCHANGED <<type, enabled>>
    PROVE  (FirstOnly /\ RowsCurrent)'
<1>1. CASE UNCHANGED <<status, rows>>
  BY <1>1, UntouchedRows DEF entryVars
<1>2. CASE schedules[sid] # None /\ SetStatus(schedules[sid], "queued")
  <2>1. schedules[sid] \in Entries /\ First(schedules[sid])
    BY <1>2, FirstEntryIsOwn DEF IndRows, FirstOnly, First
  <2>. QED
    BY <1>2, <2>1, PersistedRows DEF Statuses
<1>. QED
  BY <1>1, <1>2 DEF Enqueue

\* A launch writes the row of the schedule its launcher holds.
LEMMA LaunchedRows ==
    ASSUME IndRows, NEW p \in Procs, held[p] # None, NEW l, Launch(p, held[p], l),
           UNCHANGED <<schedules, type, enabled>>
    PROVE  (FirstOnly /\ RowsCurrent)'
<1>1. held[p] \in Entries /\ First(held[p])
  BY DEF IndRows, IndType, TypeOK, FirstOnly
<1>2. PICK i \in TaskIds :
        SetStatus(held[p], "running") /\ held' = [held EXCEPT ![p] = None, ![i] = held[p]]
  BY DEF Launch, FreshTasks
<1>3. held \in [Procs -> Entries \cup {None}]
  BY DEF IndRows, IndType, TypeOK
<1>4. FirstOnly'
  <2>1. ASSUME NEW q \in Procs, held'[q] # None
        PROVE  First(held'[q])
    <3>1. held'[q] \in {held[q], held[p]}
      BY <1>2, <1>3, <2>1
    <3>. QED
      BY <1>1, <2>1, <3>1 DEF IndRows, FirstOnly
  <2>. QED
    BY <2>1 DEF IndRows, FirstOnly, First
<1>5. ASSUME NEW sid \in Sids, schedules[sid] # None
      PROVE  rows'[sid] = [type |-> type[schedules[sid]], enabled |-> enabled[schedules[sid]],
                           status |-> status'[schedules[sid]]]
  BY <1>1, <1>2, <1>5, StatusWritten DEF Statuses
<1>. QED
  BY <1>4, <1>5 DEF RowsCurrent, Row

\* The steps of the coroutines ...
LEMMA RowsDrain ==
    ASSUME IndRows, NEW p \in Drainers, Drain(p) \/ Abort(p)
    PROVE  (FirstOnly /\ RowsCurrent)'
<1>p. p \in Procs
  BY DEF Drainers, Procs
<1>t. held \in [Procs -> Entries \cup {None}] /\ todo[p] \in Seq(Sids)
  BY DEF IndRows, IndType, TypeOK
<1>1. CASE DrainTry(p)
  <2>1. Head(todo[p]) \in Sids
    BY <1>t, <1>1 DEF DrainTry
  <2>2. TakesKnown
    BY <1>p, <1>t, <1>1, <2>1 DEF DrainTry, TakesKnown, Hold
  <2>. QED
    BY <1>1, <2>2, UntouchedRows DEF DrainTry
<1>2. CASE DrainGone(p) \/ DrainBlocked(p) \/ DrainDone(p) \/ TryBlocked(p)
           \/ TryProbe(p) \/ NetDead(p) \/ Abort(p)
  <2>1. TakesKnown
    BY <1>p, <1>t, <1>2 DEF TakesKnown, DrainGone, DrainBlocked, DrainDone, TryBlocked,
       TryProbe, NetDead, Abort, Blocked, Hold
  <2>2. UNCHANGED <<entryVars, rows>>
    BY <1>2 DEF DrainGone, DrainBlocked, DrainDone, TryBlocked, TryProbe, NetDead, Abort
  <2>. QED
    BY <2>1, <2>2, UntouchedRows
<1>3. CASE TryLaunchOffline(p) \/ NetAlive(p)
  <2>1. held[p] # None
    BY <1>p, <1>3 DEF TryLaunchOffline, NetAlive, HasLock, At, IndRows, IndType, Holders
  <2>2. Launch(p, held[p], "drain") /\ UNCHANGED <<schedules, type, enabled>>
    BY <1>3 DEF TryLaunchOffline, NetAlive, LaunchQueued
  <2>. QED
    BY <1>p, <2>1, <2>2, LaunchedRows
<1>. QED
  BY <1>1, <1>2, <1>3 DEF Drain

\* ... of the tasks ...
LEMMA RowsTask ==
    ASSUME IndRows, NEW i \in TaskIds, Task(i)
    PROVE  (FirstOnly /\ RowsCurrent)'
<1>p. i \in Procs
  BY DEF Procs
<1>t. held \in [Procs -> Entries \cup {None}]
  BY DEF IndRows, IndType, TypeOK
<1>1. CASE EndUnstarted(i)
  <2>1. TakesKnown
    BY <1>p, <1>t, <1>1 DEF TakesKnown, EndUnstarted, Hold
  <2>. QED
    BY <1>1, <2>1, UntouchedRows DEF EndUnstarted
<1>2. CASE Start(i)
  <2>1. held[i] \in Entries
    BY <1>p, <1>t, <1>2 DEF Start, At, IndRows, IndType, Holders
  <2>2. EntrySid[held[i]] \in Sids
    BY <2>1, EntriesAssumption
  <2>3. TakesKnown
    BY <1>p, <1>t, <1>2, <2>2 DEF TakesKnown, Start, Hold
  <2>. QED
    BY <1>2, <2>3, UntouchedRows DEF Start
<1>3. CASE Finish(i)
  <2>1. held[i] \in Entries /\ First(held[i])
    BY <1>p, <1>t, <1>3 DEF Finish, At, IndRows, IndType, Holders, FirstOnly
  <2>2. TakesKnown
    BY <1>p, <1>t, <1>3 DEF TakesKnown, Finish, Hold
  <2>. QED
    BY <1>3, <2>1, <2>2, PersistedRows DEF Finish, Statuses
<1>. QED
  BY <1>1, <1>2, <1>3 DEF Task

\* ... of the tick loop ...
LEMMA RowsLoop ==
    ASSUME IndRows, TheLoop
    PROVE  (FirstOnly /\ RowsCurrent)'
<1>1. CASE LoopGoesOn
  <2>1. TakesKnown
    BY <1>1 DEF LoopGoesOn, TakesKnown, Tick, GateUp, GateDown, GateGathered, LoopDrain
  <2>2. UNCHANGED <<entryVars, rows>>
    BY <1>1 DEF LoopGoesOn, Tick, GateUp, GateDown, GateGathered, LoopDrain
  <2>. QED
    BY <2>1, <2>2, UntouchedRows
<1>2. CASE \E sid \in Sids : LoopVisit(sid)
  <2>. PICK sid \in Sids : LoopVisit(sid)
    BY <1>2
  <2>1. TakesKnown /\ Enqueue(sid, queue) /\ UNCHANGED <<type, enabled>>
    BY DEF LoopVisit, TakesKnown, procVars
  <2>. QED
    BY <2>1, EnqueuedRows
<1>. QED
  BY <1>1, <1>2 DEF TheLoop

\* ... of "Run now", past the canary ...
LEMMA RowsChecked ==
    ASSUME IndRows, NEW p \in Procs, NEW e \in Entries, e \in {held[p]} \cup {schedules[sid] : sid \in Sids},
           TriggerChecked(p, e), UNCHANGED <<schedules, type, enabled>>
    PROVE  (FirstOnly /\ RowsCurrent)'
<1>1. TakesKnown
  BY DEF TriggerChecked, TakesKnown, Hold, IndRows, IndType, TypeOK
<1>2. EntrySid[e] \in Sids
  BY EntriesAssumption
<1>3. CASE UNCHANGED <<status, rows>>
  BY <1>1, <1>3, UntouchedRows DEF entryVars
<1>4. CASE \E q : Enqueue(EntrySid[e], q)
  BY <1>1, <1>2, <1>4, EnqueuedRows
<1>. QED
  BY <1>3, <1>4 DEF TriggerChecked

\* ... and before and after it ...
LEMMA RowsTrigger ==
    ASSUME IndRows, NEW p \in Triggers, Trigger(p)
    PROVE  (FirstOnly /\ RowsCurrent)'
<1>p. p \in Procs
  BY DEF Procs
<1>t. held \in [Procs -> Entries \cup {None}] /\ schedules \in [Sids -> Entries \cup {None}]
  BY DEF IndRows, IndType, TypeOK
<1>1. CASE \E sid \in Sids : TriggerNow(p, sid)
  <2>. PICK sid \in Sids : TriggerNow(p, sid)
    BY <1>1
  <2>1. schedules[sid] \in Entries /\ UNCHANGED <<schedules, type, enabled>>
    BY <1>t DEF TriggerNow
  <2>2. CASE type[schedules[sid]] \in NetTypes
    <3>1. TakesKnown
      BY <1>p, <1>t, <2>2 DEF TakesKnown, TriggerNow, Hold
    <3>2. UNCHANGED <<entryVars, rows>>
      BY <2>2 DEF TriggerNow, entryVars
    <3>. QED
      BY <3>1, <3>2, UntouchedRows
  <2>3. CASE type[schedules[sid]] \notin NetTypes
    BY <1>p, <2>1, <2>3, RowsChecked DEF TriggerNow
  <2>. QED
    BY <2>2, <2>3
<1>2. CASE TriggerAlive(p)
  <2>1. held[p] \in Entries
    BY <1>p, <1>t, <1>2 DEF TriggerAlive, At, IndRows, IndType, Holders
  <2>. QED
    BY <1>p, <1>2, <2>1, RowsChecked DEF TriggerAlive
<1>3. CASE TriggerDead(p)
  <2>1. TakesKnown
    BY <1>p, <1>t, <1>3 DEF TakesKnown, TriggerDead, Hold
  <2>. QED
    BY <1>3, <2>1, UntouchedRows DEF TriggerDead
<1>4. CASE TriggerLaunch(p)
  <2>1. CASE AlreadyRunning(held[p])
    <3>1. TakesKnown
      BY <1>p, <1>t, <1>4, <2>1 DEF TakesKnown, TriggerLaunch, Hold
    <3>2. UNCHANGED <<entryVars, rows>>
      BY <1>4, <2>1 DEF TriggerLaunch, entryVars
    <3>. QED
      BY <3>1, <3>2, UntouchedRows
  <2>2. CASE ~AlreadyRunning(held[p])
    <3>1. held[p] # None
      BY <1>p, <1>4 DEF TriggerLaunch, At, IndRows, IndType, Holders
    <3>2. Launch(p, held[p], "free") /\ UNCHANGED <<schedules, type, enabled>>
      BY <1>4, <2>2 DEF TriggerLaunch
    <3>. QED
      BY <1>p, <3>1, <3>2, LaunchedRows
  <2>. QED
    BY <2>1, <2>2
<1>. QED
  BY <1>1, <1>2, <1>3, <1>4 DEF Trigger

\* ... the edits of a schedule ...
LEMMA RowsSchedule ==
    ASSUME IndRows, "add" \notin Ops, NEW sid \in Sids, Schedule(sid)
    PROVE  (FirstOnly /\ RowsCurrent)'
<1>t. /\ held \in [Procs -> Entries \cup {None}] /\ schedules \in [Sids -> Entries \cup {None}]
      /\ type \in [Entries -> TaskTypes] /\ enabled \in [Entries -> BOOLEAN]
      /\ status \in [Entries -> Statuses] /\ rows \in [Sids -> RowType \cup {None}]
  BY DEF IndRows, IndType, TypeOK
<1>f. \A s \in Sids : schedules[s] # None =>
         schedules[s] \in Entries /\ First(schedules[s]) /\ EntrySid[schedules[s]] = s
  BY FirstEntryIsOwn DEF IndRows, FirstOnly, First
<1>1. CASE CancelRunning(sid)
  <2>1. TakesKnown /\ UNCHANGED <<type, enabled>>
    BY <1>1 DEF TakesKnown, CancelRunning
  <2>2. CASE UNCHANGED <<status, rows>>
    BY <2>1, <2>2, UntouchedRows DEF entryVars
  <2>3. CASE SetStatus(schedules[sid], "rest")
    <3>1. schedules[sid] \in Entries /\ First(schedules[sid])
      BY <1>1, <1>f DEF CancelRunning
    <3>. QED
      BY <2>1, <2>3, <3>1, PersistedRows DEF Statuses
  <2>. QED
    BY <1>1, <2>2, <2>3 DEF CancelRunning
<1>2. CASE Toggle(sid)
  <2>1. TakesKnown /\ UNCHANGED <<type, status>> /\ schedules[sid] # None
    BY <1>2 DEF TakesKnown, Toggle, procVars
  <2>2. /\ enabled' = [enabled EXCEPT ![schedules[sid]] = ~@]
        /\ rows' = [rows EXCEPT ![sid] =
                      [Row(schedules[sid]) EXCEPT !.enabled = ~enabled[schedules[sid]]]]
    BY <1>2 DEF Toggle
  <2>3. ASSUME NEW s \in Sids, schedules[s] # None
        PROVE  rows'[s] = [type |-> type[schedules[s]], enabled |-> enabled'[schedules[s]],
                           status |-> status[schedules[s]]]
    <3>1. CASE s = sid
      BY <1>t, <1>f, <2>1, <2>2, <3>1 DEF Row
    <3>2. CASE s # sid
      <4>1. schedules[s] # schedules[sid]
        BY <1>f, <2>1, <2>3, <3>2
      <4>2. rows'[s] = rows[s] /\ enabled'[schedules[s]] = enabled[schedules[s]]
        BY <1>t, <1>f, <2>2, <2>3, <3>2, <4>1
      <4>. QED
        BY <2>3, <4>2 DEF IndRows, RowsCurrent, Row
    <3>. QED
      BY <3>1, <3>2
  <2>. QED
    BY <2>1, <2>3, KnownStaysFirst DEF IndRows, TakesKnown, RowsCurrent, Row
<1>3. CASE \E t \in TaskTypes : UpdateType(sid, t)
  <2>. PICK t \in TaskTypes : UpdateType(sid, t)
    BY <1>3
  <2>1. TakesKnown /\ UNCHANGED <<enabled, status>> /\ schedules[sid] # None
    BY DEF TakesKnown, UpdateType, procVars
  <2>2. /\ type' = [type EXCEPT ![schedules[sid]] = t]
        /\ rows' = [rows EXCEPT ![sid] = [Row(schedules[sid]) EXCEPT !.type = t]]
    BY DEF UpdateType
  <2>3. ASSUME NEW s \in Sids, schedules[s] # None
        PROVE  rows'[s] = [type |-> type'[schedules[s]], enabled |-> enabled[schedules[s]],
                           status |-> status[schedules[s]]]
    <3>1. CASE s = sid
      BY <1>t, <1>f, <2>1, <2>2, <3>1 DEF Row
    <3>2. CASE s # sid
      <4>1. schedules[s] # schedules[sid]
        BY <1>f, <2>1, <2>3, <3>2
      <4>2. rows'[s] = rows[s] /\ type'[schedules[s]] = type[schedules[s]]
        BY <1>t, <1>f, <2>2, <2>3, <3>2, <4>1
      <4>. QED
        BY <2>3, <4>2 DEF IndRows, RowsCurrent, Row
    <3>. QED
      BY <3>1, <3>2
  <2>. QED
    BY <2>1, <2>3, KnownStaysFirst DEF IndRows, TakesKnown, RowsCurrent, Row
<1>4. CASE Delete(sid)
  <2>1. schedules' = [schedules EXCEPT ![sid] = None] /\ rows' = [rows EXCEPT ![sid] = None]
    BY <1>4 DEF Delete
  <2>2. UNCHANGED <<type, enabled, status, held>>
    BY <1>4 DEF Delete, entryVars, procVars
  <2>3. FirstOnly'
    BY <1>t, <2>1, <2>2 DEF IndRows, FirstOnly, First
  <2>4. RowsCurrent'
    BY <1>t, <2>1, <2>2 DEF IndRows, RowsCurrent, Row
  <2>. QED
    BY <2>3, <2>4
<1>5. ~ \E t \in TaskTypes : Add(sid, t)
  BY DEF Add, Request
<1>. QED
  BY <1>1, <1>2, <1>3, <1>4, <1>5 DEF Schedule

\* ... the hunt, whose cancel_all resets every status, and the shutdown ...
LEMMA RowsHuntAndStop ==
    ASSUME IndRows, HuntStep \/ StopStep \/ PauseAll \/ ResumeAll
    PROVE  (FirstOnly /\ RowsCurrent)'
<1>1. CASE ~HuntReady
  <2>1. TakesKnown
    BY <1>1 DEF TakesKnown, HuntStep, StopStep, HuntBegin, HuntEnd, StopHunt, StopBegin,
       StopTasks, StopEnd, PauseAll, ResumeAll, procVars
  <2>2. UNCHANGED <<entryVars, rows>>
    BY <1>1 DEF HuntStep, StopStep, HuntBegin, HuntEnd, StopHunt, StopBegin,
       StopTasks, StopEnd, PauseAll, ResumeAll
  <2>. QED
    BY <2>1, <2>2, UntouchedRows
<1>2. CASE HuntReady
  <2>1. TakesKnown /\ UNCHANGED <<type, enabled>>
    BY <1>2 DEF TakesKnown, HuntReady
  <2>2. ASSUME NEW sid \in Sids, schedules[sid] # None
        PROVE  rows'[sid] = [type |-> type[schedules[sid]], enabled |-> enabled[schedules[sid]],
                             status |-> status'[schedules[sid]]]
    <3>1. schedules[sid] \in Entries
      BY <2>2 DEF IndRows, IndType, TypeOK
    <3>2. status'[schedules[sid]] = "rest"
      BY <1>2, <3>1 DEF HuntReady
    <3>3. rows'[sid] = IF status[schedules[sid]] # "rest"
                       THEN [Row(schedules[sid]) EXCEPT !.status = "rest"] ELSE rows[sid]
      BY <1>2, <2>2 DEF HuntReady, Swept
    <3>4. rows[sid] = Row(schedules[sid])
      BY <2>2 DEF IndRows, RowsCurrent
    <3>. QED
      BY <3>2, <3>3, <3>4 DEF Row
  <2>. QED
    BY <2>1, <2>2, KnownStaysFirst DEF IndRows, TakesKnown, RowsCurrent, Row
<1>. QED
  BY <1>1, <1>2

\* ... and a restart, which loads what the table has.
LEMMA RowsRestart ==
    ASSUME IndRows, Restart
    PROVE  (FirstOnly /\ RowsCurrent)'
<1> DEFINE row == [sid \in Sids |-> IF rows[sid] = None /\ sid \in DefaultSids
                                    THEN DefaultRow(sid) ELSE rows[sid]]
           loaded(e) == row[EntrySid[e]] # None /\ e = FirstEntry(EntrySid[e])
<1>1. /\ rows' = row
      /\ schedules' = [sid \in Sids |-> IF row[sid] = None THEN None ELSE FirstEntry(sid)]
      /\ type' = [e \in Entries |-> IF loaded(e) THEN row[EntrySid[e]].type ELSE type[e]]
      /\ enabled' = [e \in Entries |-> IF loaded(e) THEN row[EntrySid[e]].enabled
                                       ELSE enabled[e]]
      /\ status' = [e \in Entries |-> IF loaded(e) THEN row[EntrySid[e]].status
                                      ELSE status[e]]
      /\ held' = [p \in Procs |-> None]
  BY DEF Restart
<1>2. ASSUME NEW sid \in Sids, schedules'[sid] # None
      PROVE  rows'[sid] = [type |-> type'[schedules'[sid]], enabled |-> enabled'[schedules'[sid]],
                           status |-> status'[schedules'[sid]]]
  <2>1. row[sid] # None /\ schedules'[sid] = FirstEntry(sid)
    BY <1>1, <1>2
  <2>2. schedules'[sid] \in Entries /\ EntrySid[schedules'[sid]] = sid
    BY <2>1, FirstEntryIsOwn
  <2>3. loaded(schedules'[sid])
    BY <2>1, <2>2
  <2>4. /\ type'[schedules'[sid]] = row[sid].type
        /\ enabled'[schedules'[sid]] = row[sid].enabled
        /\ status'[schedules'[sid]] = row[sid].status
    BY <1>1, <2>2, <2>3
  <2>5. row[sid] \in RowType
    <3>1. rows'[sid] = row[sid] /\ rows'[sid] \in RowType \cup {None}
      BY <1>1, TypeRestart DEF IndRows, IndType, TypeOK
    <3>. QED
      BY <2>1, <3>1
  <2>6. rows'[sid] = row[sid]
    BY <1>1
  <2>7. row[sid] = [type |-> row[sid].type, enabled |-> row[sid].enabled,
                    status |-> row[sid].status]
    <3>. HIDE DEF row
    <3>. QED
      BY <2>5 DEF RowType
  <2>. QED
    <3>. HIDE DEF row, loaded
    <3>. QED
      BY <2>4, <2>6, <2>7
<1>3. FirstOnly'
  BY <1>1 DEF FirstOnly
<1>4. RowsCurrent'
  BY <1>2 DEF RowsCurrent, Row
<1>. QED
  BY <1>3, <1>4

\* Every step keeps the rows current, but for a schedule that is added.
LEMMA RowsStep ==
    ASSUME "add" \notin Ops, IndRows, [Next]_vars
    PROVE  IndRows'
<1>1. IndType'
  BY TypeStep DEF IndRows
<1>2. CASE Operator
  <2>1. ~RestoreDefaults
    BY DEF RestoreDefaults, Request
  <2>. QED
    BY <1>1, <1>2, <2>1, RowsSchedule, RowsHuntAndStop, RowsRestart DEF Operator, IndRows
<1>3. CASE UNCHANGED vars
  <2>1. TakesKnown /\ UNCHANGED <<entryVars, rows>>
    BY <1>3 DEF vars, TakesKnown, procVars
  <2>. QED
    BY <1>1, <2>1, UntouchedRows DEF IndRows
<1>. QED
  BY <1>1, <1>2, <1>3, RowsLoop, RowsDrain, RowsTask, RowsTrigger DEF Next, IndRows

\* They are current when the program starts.
LEMMA RowsInit == Init => IndRows
<1>. SUFFICES ASSUME Init
              PROVE  IndRows
  OBVIOUS
<1>1. IndType
  BY TypeInit DEF IndType, Holders, Init
<1>2. FirstOnly
  BY DEF Init, FirstOnly
<1>3. RowsCurrent
  BY FirstEntryIsOwn DEF Init, RowsCurrent, Row, DefaultRow
<1>. QED
  BY <1>1, <1>2, <1>3 DEF IndRows

\* The table holds every schedule as it is now (_persist after every change),
\* so a crash loses none of it, unless an id is used again after a delete.
THEOREM NothingIsLost ==
    ASSUME "add" \notin Ops
    PROVE  Spec => []RowsCurrent
<1>1. Init => IndRows
  BY RowsInit
<1>2. IndRows /\ [Next]_vars => IndRows'
  BY RowsStep
<1>3. IndRows => RowsCurrent
  BY DEF IndRows
<1>. QED
  BY <1>1, <1>2, <1>3, PTL DEF Spec

(***************************************************************************)
(* What the queue loses.                                                   *)
(***************************************************************************)

\* Without a hunt, a shutdown or a restart nobody clears the queue; without
\* "Run now" a schedule that says it is queued is there.
Unswept == /\ Ops \cap {"hunt", "stop", "toggle", "restart", "add"} = {}
           /\ Triggers = {}
QueueHolds ==
    \A sid \in Sids : schedules[sid] # None /\ status[schedules[sid]] = "queued" => Queued(sid)
IndQueue == IndRows /\ QueueHolds /\ pc[Stopper] = "free"

\* _persist with "running" or a result: the schedule itself may leave the queue.
LEMMA LeavesQueue ==
    ASSUME IndQueue, NEW e \in Entries, First(e), NEW s \in {"rest", "running"},
           SetStatus(e, s), schedules' = schedules,
           queue' \in {queue, RemoveFirst(queue, EntrySid[e])}
    PROVE  QueueHolds'
<1>1. /\ status \in [Entries -> Statuses] /\ queue \in Seq(Sids)
      /\ status' = [status EXCEPT ![e] = s]
  BY DEF IndQueue, IndRows, IndType, TypeOK, SetStatus
<1>2. ASSUME NEW sid \in Sids, schedules[sid] # None, status'[schedules[sid]] = "queued"
      PROVE  Contains(queue', sid)
  <2>1. schedules[sid] \in Entries /\ First(schedules[sid]) /\ EntrySid[schedules[sid]] = sid
    BY <1>2, FirstEntryIsOwn DEF IndQueue, IndRows, FirstOnly, First
  <2>2. schedules[sid] # e
    BY <1>1, <1>2
  <2>3. EntrySid[e] # sid
    BY <2>1, <2>2 DEF First
  <2>4. status[schedules[sid]] = "queued"
    BY <1>1, <1>2, <2>1, <2>2
  <2>5. Contains(queue, sid)
    BY <1>2, <2>4 DEF IndQueue, QueueHolds, Queued
  <2>. QED
    BY <1>1, <2>3, <2>5, RemoveFirstKeepsOthers
<1>. QED
  BY <1>2 DEF QueueHolds, Queued

\* _enqueue: the status and the queue change together.
LEMMA JoinsQueue ==
    ASSUME IndQueue, NEW sid \in Sids, Enqueue(sid, queue), schedules' = schedules
    PROVE  QueueHolds'
<1>1. CASE queue' = queue /\ UNCHANGED status
  BY <1>1 DEF IndQueue, QueueHolds, Queued
<1>2. CASE /\ schedules[sid] # None /\ queue' = Append(queue, sid)
           /\ SetStatus(schedules[sid], "queued")
  <2>1. queue \in Seq(Sids) /\ status \in [Entries -> Statuses]
    BY DEF IndQueue, IndRows, IndType, TypeOK
  <2>2. ASSUME NEW u \in Sids, schedules[u] # None, status'[schedules[u]] = "queued"
        PROVE  Contains(queue', u)
    <3>1. CASE u = sid
      BY <1>2, <2>1, <3>1, AppendKeeps
    <3>2. CASE u # sid
      <4>1. schedules[u] # schedules[sid]
        BY <1>2, <2>2, <3>2, FirstEntryIsOwn DEF IndQueue, IndRows, FirstOnly
      <4>2. status[schedules[u]] = "queued"
        BY <1>2, <2>1, <2>2, <4>1 DEF SetStatus
      <4>3. Contains(queue, u)
        BY <2>2, <4>2 DEF IndQueue, QueueHolds, Queued
      <4>. QED
        BY <1>2, <2>1, <4>3, AppendKeeps
    <3>. QED
      BY <3>1, <3>2
  <2>. QED
    BY <2>2 DEF QueueHolds, Queued
<1>. QED
  BY <1>1, <1>2 DEF Enqueue

\* A drain takes out what it launches and what is deleted ...
LEMMA QueueDrain ==
    ASSUME IndQueue, NEW p \in Drainers, Drain(p) \/ Abort(p)
    PROVE  QueueHolds'
<1>p. p \in Procs
  BY DEF Drainers, Procs
<1>t. held \in [Procs -> Entries \cup {None}] /\ queue \in Seq(Sids)
  BY DEF IndQueue, IndRows, IndType, TypeOK
<1>1. CASE DrainBlocked(p) \/ DrainTry(p) \/ DrainDone(p) \/ TryBlocked(p)
           \/ TryProbe(p) \/ NetDead(p) \/ Abort(p)
  <2>1. UNCHANGED <<queue, schedules, status>>
    BY <1>1 DEF DrainBlocked, DrainTry, DrainDone, TryBlocked, TryProbe, NetDead, Abort,
       Blocked, entryVars
  <2>. QED
    BY <2>1 DEF IndQueue, QueueHolds, Queued
<1>2. CASE DrainGone(p)
  <2>1. /\ schedules[Head(todo[p])] = None /\ queue' = RemoveFirst(queue, Head(todo[p]))
        /\ UNCHANGED <<schedules, status>>
    BY <1>2 DEF DrainGone, entryVars
  <2>2. ASSUME NEW sid \in Sids, schedules[sid] # None, status[schedules[sid]] = "queued"
        PROVE  Contains(queue', sid)
    <3>1. Contains(queue, sid) /\ sid # Head(todo[p])
      BY <2>1, <2>2 DEF IndQueue, QueueHolds, Queued
    <3>. QED
      BY <1>t, <2>1, <3>1, RemoveFirstKeepsOthers
  <2>. QED
    BY <2>1, <2>2 DEF QueueHolds, Queued
<1>3. CASE TryLaunchOffline(p) \/ NetAlive(p)
  <2>1. held[p] \in Entries /\ First(held[p])
    BY <1>p, <1>t, <1>3 DEF TryLaunchOffline, NetAlive, HasLock, At, IndQueue, IndRows,
       IndType, Holders, FirstOnly
  <2>2. /\ SetStatus(held[p], "running") /\ schedules' = schedules
        /\ queue' = RemoveFirst(queue, EntrySid[held[p]])
    BY <1>3 DEF TryLaunchOffline, NetAlive, LaunchQueued, Launch
  <2>. QED
    BY <2>1, <2>2, LeavesQueue
<1>. QED
  BY <1>1, <1>2, <1>3 DEF Drain

\* ... a task nothing ...
LEMMA QueueTask ==
    ASSUME IndQueue, NEW i \in TaskIds, Task(i)
    PROVE  QueueHolds'
<1>1. CASE EndUnstarted(i) \/ Start(i)
  BY <1>1 DEF EndUnstarted, Start, entryVars, IndQueue, QueueHolds, Queued
<1>2. CASE Finish(i)
  <2>1. held[i] \in Entries /\ First(held[i])
    BY <1>2 DEF Finish, At, IndQueue, IndRows, IndType, TypeOK, Holders, FirstOnly, Procs
  <2>2. SetStatus(held[i], "rest") /\ schedules' = schedules /\ queue' = queue
    BY <1>2 DEF Finish
  <2>. QED
    BY <2>1, <2>2, LeavesQueue
<1>. QED
  BY <1>1, <1>2 DEF Task

\* ... the tick loop only adds ...
LEMMA QueueLoop ==
    ASSUME IndQueue, TheLoop
    PROVE  QueueHolds'
<1>1. CASE LoopGoesOn
  <2>1. UNCHANGED <<queue, schedules, status>>
    BY <1>1 DEF LoopGoesOn, Tick, GateUp, GateDown, GateGathered, LoopDrain, entryVars
  <2>. QED
    BY <2>1 DEF IndQueue, QueueHolds, Queued
<1>2. CASE \E sid \in Sids : LoopVisit(sid)
  BY <1>2, JoinsQueue DEF LoopVisit
<1>. QED
  BY <1>1, <1>2 DEF TheLoop

\* ... and a cancelled schedule is at rest.
LEMMA QueueOperator ==
    ASSUME Unswept, IndQueue, Operator
    PROVE  QueueHolds' /\ pc'[Stopper] = "free"
<1>1. /\ ~HuntBegin /\ ~StopStep /\ ~Restart /\ ~RestoreDefaults
      /\ \A sid \in Sids : ~Toggle(sid) /\ ~ \E t \in TaskTypes : Add(sid, t)
  BY DEF Unswept, HuntBegin, StopStep, StopBegin, StopTasks, StopEnd, Restart,
     RestoreDefaults, Toggle, Add, Request, Gathered, At, IndQueue
<1>2. pc'[Stopper] = "free"
  <2>1. [Next]_vars
    BY DEF Next
  <2>. QED
    BY <1>1, <2>1, LeftAlone DEF IndQueue, IndRows
<1>3. CASE PauseAll \/ ResumeAll \/ HuntEnd \/ StopHunt
  BY <1>2, <1>3 DEF PauseAll, ResumeAll, HuntEnd, StopHunt, entryVars, IndQueue, QueueHolds, Queued
<1>4. CASE HuntReady
  <2>1. ASSUME NEW sid \in Sids, schedules'[sid] # None
        PROVE  status'[schedules'[sid]] = "rest"
    <3>1. schedules' = schedules /\ schedules[sid] \in Entries
      BY <1>4, <2>1 DEF HuntReady, IndQueue, IndRows, IndType, TypeOK
    <3>. QED
      BY <1>4, <3>1 DEF HuntReady
  <2>. QED
    BY <1>2, <2>1 DEF QueueHolds
<1>5. ASSUME NEW sid \in Sids, Schedule(sid)
      PROVE  QueueHolds'
  <2>1. CASE CancelRunning(sid)
    <3>1. schedules[sid] \in Entries /\ First(schedules[sid]) /\ EntrySid[schedules[sid]] = sid
      BY <2>1, FirstEntryIsOwn DEF CancelRunning, IndQueue, IndRows, FirstOnly, First
    <3>2. schedules' = schedules
      BY <2>1 DEF CancelRunning
    <3>3. CASE UNCHANGED <<queue, status>>
      BY <3>2, <3>3 DEF IndQueue, QueueHolds, Queued
    <3>4. CASE queue' = RemoveFirst(queue, sid) /\ SetStatus(schedules[sid], "rest")
      BY <3>1, <3>2, <3>4, LeavesQueue
    <3>. QED
      BY <2>1, <3>3, <3>4 DEF CancelRunning
  <2>2. CASE \E t \in TaskTypes : UpdateType(sid, t)
    BY <2>2 DEF UpdateType, IndQueue, QueueHolds, Queued
  <2>3. CASE Delete(sid)
    BY <2>3 DEF Delete, entryVars, IndQueue, IndRows, IndType, TypeOK, QueueHolds, Queued
  <2>. QED
    BY <1>1, <1>5, <2>1, <2>2, <2>3 DEF Schedule
<1>. QED
  BY <1>1, <1>2, <1>3, <1>4, <1>5 DEF Operator, HuntStep

\* So every step keeps the queue, if nothing sweeps it.
LEMMA QueueStep ==
    ASSUME Unswept, IndQueue, [Next]_vars
    PROVE  IndQueue'
<1>1. IndRows'
  BY RowsStep DEF IndQueue, Unswept
<1>2. CASE Operator
  BY <1>1, <1>2, QueueOperator DEF IndQueue
<1>3. CASE ~Operator
  <2>1. pc'[Stopper] = "free"
    BY <1>3, LeftAlone DEF Operator, IndQueue, IndRows
  <2>2. UNCHANGED vars => QueueHolds'
    BY DEF vars, entryVars, IndQueue, QueueHolds, Queued
  <2>3. ~ \E p \in Triggers : Trigger(p)
    BY DEF Unswept
  <2>4. QueueHolds'
    BY <1>3, <2>2, <2>3, QueueLoop, QueueDrain, QueueTask DEF Next
  <2>. QED
    BY <1>1, <2>1, <2>4 DEF IndQueue
<1>. QED
  BY <1>2, <1>3

\* "a queued task is never silently dropped" (_drain_queue): a schedule that
\* says it is queued is in the queue, if nothing sweeps the queue.
THEOREM NoneIsDropped ==
    ASSUME Unswept
    PROVE  Spec => []QueuedIsKept
<1>1. Init => IndQueue
  <2>. SUFFICES ASSUME Init
                PROVE  IndQueue
    OBVIOUS
  <2>1. IndRows
    BY RowsInit
  <2>2. QueueHolds
    BY FirstEntryIsOwn DEF Init, QueueHolds
  <2>. QED
    BY <2>1, <2>2 DEF IndQueue, Init, Procs
<1>2. IndQueue /\ [Next]_vars => IndQueue'
  BY QueueStep
<1>3. IndQueue => QueuedIsKept
  BY DEF IndQueue, QueueHolds, QueuedIsKept
<1>. QED
  BY <1>1, <1>2, <1>3, PTL DEF Spec

(***************************************************************************)
(* What stays registered.                                                  *)
(***************************************************************************)

\* Tasks are cancelled by the gate and by the hunt, which wait for them.
Awaiting == Ops \cap {"cancel", "delete", "add", "retype", "stop"} = {}

Waited(i) == i \in Awaited(Loop) \cup Awaited(Hunter)
\* Who is registered lives and will drop that very registration, or has
\* ended before its first step and is waited for.
OwnOrWaited ==
    \A t \in TaskTypes, i \in TaskIds : running_tasks[t] = i =>
        \/ Live(i) /\ type[held[i]] = t /\ (cancel[i] => Waited(i))
        \/ pc[i] = "free" /\ Waited(i)
\* A snapshot has a task under the type it is registered for.
SnapshotAgrees ==
    \A p \in {Loop, Hunter} : \A t, u \in TaskTypes :
        snapshot[p][t] # None /\ running_tasks[u] = snapshot[p][t] => t = u
CancelsLive == \A i \in TaskIds : cancel[i] => Live(i)
LoopWaits == pc[Loop] # "gather" => snapshot[Loop] = NoTasks
NobodyStops == ~cancel[Loop] /\ pc[Stopper] = "free"
HeldIsScheduled == \A p \in Procs : held[p] # None => schedules[EntrySid[held[p]]] # None
Registers == OwnOrWaited /\ SnapshotAgrees /\ CancelsLive /\ LoopWaits
IndLive == IndRows /\ Registers /\ NobodyStops /\ HeldIsScheduled

\* A step that launches, ends, cancels and awaits nobody.
Aside ==
    /\ OpensSlots
    /\ UNCHANGED <<snapshot, cancel>>
    /\ \A i \in TaskIds :
          /\ (Live(i))' <=> Live(i)
          /\ pc[i] = "free" => pc'[i] = "free"
          /\ Live(i) => held'[i] = held[i] /\ type'[held[i]] = type[held[i]]
    /\ pc[Loop] = "gather" => pc'[Loop] = "gather"

\* Such a step changes nothing about the registrations.
LEMMA AsideRegisters ==
    ASSUME IndLive, Aside
    PROVE  Registers'
<1>1. ASSUME NEW t \in TaskTypes, NEW i \in TaskIds, running_tasks'[t] = i
      PROVE  running_tasks[t] = i
  <2>1. i # None
    BY ProcsAssumption DEF Procs
  <2>. QED
    BY <1>1, <2>1 DEF Aside, OpensSlots
<1>2. OwnOrWaited'
  <2>. SUFFICES ASSUME NEW t \in TaskTypes, NEW i \in TaskIds, running_tasks'[t] = i
                PROVE  \/ (Live(i) /\ type[held[i]] = t /\ (cancel[i] => Waited(i)))'
                       \/ (pc[i] = "free" /\ Waited(i))'
    BY DEF OwnOrWaited
  <2>1. Waited(i)' <=> Waited(i)
    BY DEF Aside, Waited, Awaited
  <2>2. cancel'[i] = cancel[i]
    BY DEF Aside
  <2>3. CASE Live(i) /\ type[held[i]] = t /\ (cancel[i] => Waited(i))
    <3>1. Live(i)' /\ held'[i] = held[i] /\ type'[held[i]] = type[held[i]]
      BY <2>3 DEF Aside
    <3>. QED
      BY <2>1, <2>2, <2>3, <3>1
  <2>4. CASE pc[i] = "free" /\ Waited(i)
    BY <2>1, <2>4 DEF Aside
  <2>. QED
    BY <1>1, <2>3, <2>4 DEF IndLive, Registers, OwnOrWaited
<1>3. SnapshotAgrees'
  <2>. SUFFICES ASSUME NEW p \in {Loop, Hunter}, NEW t \in TaskTypes, NEW u \in TaskTypes,
                       snapshot'[p][t] # None, running_tasks'[u] = snapshot'[p][t]
                PROVE  t = u
    BY DEF SnapshotAgrees
  <2>1. snapshot[p][t] \in TaskIds
    BY DEF Aside, IndLive, IndRows, IndType, TypeOK
  <2>2. running_tasks[u] = snapshot[p][t]
    BY <1>1, <2>1 DEF Aside
  <2>. QED
    BY <2>2 DEF Aside, IndLive, Registers, SnapshotAgrees
<1>4. CancelsLive'
  BY DEF Aside, IndLive, Registers, CancelsLive
<1>5. LoopWaits'
  BY DEF Aside, IndLive, Registers, LoopWaits
<1>. QED
  BY <1>2, <1>3, <1>4, <1>5 DEF Registers

\* A launch registers a task nobody knows yet.
LEMMA LaunchRegisters ==
    ASSUME IndLive, NEW p \in Procs, pc[p] \in {"lock", "net"}, held[p] # None,
           NEW l \in {"free", "drain"}, Launch(p, held[p], l),
           UNCHANGED <<type, snapshot, cancel>>
    PROVE  Registers'
<1>t. /\ pc \in [Procs -> Locations] /\ held \in [Procs -> Entries \cup {None}]
      /\ running_tasks \in [TaskTypes -> TaskIds \cup {None}]
      /\ type \in [Entries -> TaskTypes] /\ held[p] \in Entries /\ type[held[p]] \in TaskTypes
      /\ Loop \in Procs /\ Loop \notin TaskIds
  BY ProcsAssumption DEF IndLive, IndRows, IndType, TypeOK, Procs
<1>1. PICK i \in FreshTasks :
        /\ running_tasks' = [running_tasks EXCEPT ![type[held[p]]] = i]
        /\ pc' = [pc EXCEPT ![p] = l, ![i] = "created"]
        /\ held' = [held EXCEPT ![p] = None, ![i] = held[p]]
  BY DEF Launch
<1>2. /\ i \in TaskIds /\ i \in Procs /\ pc[i] = "free" /\ i \notin Registered
      /\ ~Waited(i) /\ i # None
  BY <1>1, ProcsAssumption DEF FreshTasks, Procs, Waited
<1>3. ~cancel[i]
  BY <1>2 DEF IndLive, Registers, CancelsLive, Live
<1>4. ASSUME NEW j \in TaskIds, j # i
      PROVE  /\ Live(j) => Live(j)' /\ held'[j] = held[j]
             /\ pc[j] = "free" /\ j # p => pc'[j] = "free"
  BY <1>t, <1>1, <1>2, <1>4 DEF Live, Procs
<1>w. \A j : Waited(j)' <=> Waited(j)
  BY DEF Waited, Awaited
<1>5. OwnOrWaited'
  <2>. SUFFICES ASSUME NEW t \in TaskTypes, NEW j \in TaskIds, running_tasks'[t] = j
                PROVE  \/ (Live(j) /\ type[held[j]] = t /\ (cancel[j] => Waited(j)))'
                       \/ (pc[j] = "free" /\ Waited(j))'
    BY DEF OwnOrWaited
  <2>1. CASE j = i
    <3>1. t = type[held[p]]
      BY <1>t, <1>1, <1>2, <2>1 DEF Registered
    <3>2. pc'[i] = "created" /\ held'[i] = held[p]
      BY <1>t, <1>1, <1>2
    <3>. QED
      BY <1>3, <2>1, <3>1, <3>2 DEF Live
  <2>2. CASE j # i
    <3>1. running_tasks[t] = j
      BY <1>t, <1>1, <2>2
    <3>2. \/ Live(j) /\ type[held[j]] = t /\ (cancel[j] => Waited(j))
          \/ pc[j] = "free" /\ Waited(j)
      BY <3>1 DEF IndLive, Registers, OwnOrWaited
    <3>3. CASE Live(j) /\ type[held[j]] = t /\ (cancel[j] => Waited(j))
      BY <1>4, <1>w, <2>2, <3>3
    <3>4. CASE pc[j] = "free" /\ Waited(j)
      <4>1. j # p
        BY <3>4
      <4>. QED
        BY <1>4, <1>w, <2>2, <3>4, <4>1
    <3>. QED
      BY <3>2, <3>3, <3>4
  <2>. QED
    BY <2>1, <2>2
<1>6. SnapshotAgrees'
  <2>. SUFFICES ASSUME NEW q \in {Loop, Hunter}, NEW t \in TaskTypes, NEW u \in TaskTypes,
                       snapshot[q][t] # None, running_tasks'[u] = snapshot[q][t]
                PROVE  t = u
    BY DEF SnapshotAgrees
  <2>1. snapshot[q][t] # i
    BY <1>2 DEF Waited, Awaited
  <2>2. running_tasks[u] = snapshot[q][t]
    BY <1>t, <1>1, <2>1
  <2>. QED
    BY <2>2 DEF IndLive, Registers, SnapshotAgrees
<1>7. CancelsLive'
  BY <1>3, <1>4 DEF IndLive, Registers, CancelsLive
<1>8. LoopWaits'
  <2>1. pc[Loop] = "gather" => pc'[Loop] = "gather"
    BY <1>t, <1>1, <1>2
  <2>. QED
    BY <2>1 DEF IndLive, Registers, LoopWaits
<1>. QED
  BY <1>5, <1>6, <1>7, <1>8 DEF Registers

\* The start of a task leaves it the schedule it was launched for.
LEMMA StartRegisters ==
    ASSUME IndLive, NEW i \in TaskIds, Start(i)
    PROVE  Registers'
<1>p. i \in Procs /\ i # Loop /\ Loop \in Procs
  BY ProcsAssumption DEF Procs
<1>t. pc \in [Procs -> Locations] /\ held \in [Procs -> Entries \cup {None}]
  BY DEF IndLive, IndRows, IndType, TypeOK
<1>1. held[i] \in Entries /\ First(held[i])
  BY <1>p, <1>t DEF Start, At, IndLive, IndRows, IndType, Holders, FirstOnly
<1>2. EntrySid[held[i]] \in Sids
  BY <1>1, EntriesAssumption
<1>3. schedules[EntrySid[held[i]]] = held[i]
  BY <1>1, <1>2 DEF Start, IndLive, IndRows, FirstOnly, First
<1>4. held' = held
  BY <1>p, <1>t, <1>3 DEF Start, Hold
<1>5. pc[i] = "created" /\ pc' = [pc EXCEPT ![i] = "executing"]
  BY DEF Start, At, Yield
<1>6. ASSUME NEW j \in TaskIds
      PROVE  (Live(j)' <=> Live(j)) /\ (pc[j] = "free" => pc'[j] = "free")
  BY <1>p, <1>t, <1>5 DEF Live, Procs
<1>7. pc'[Loop] = pc[Loop]
  BY <1>p, <1>t, <1>5
<1>8. UNCHANGED <<running_tasks, snapshot, cancel, type>>
  BY DEF Start, entryVars
<1>9. Aside
  BY <1>4, <1>6, <1>7, <1>8 DEF Aside, OpensSlots
<1>. QED
  BY <1>9, AsideRegisters

\* A task cancelled before its first step stays registered; who cancelled it
\* waits for it.
LEMMA UnstartedRegisters ==
    ASSUME IndLive, NEW i \in TaskIds, EndUnstarted(i)
    PROVE  Registers'
<1>p. i \in Procs /\ i # Loop /\ Loop \in Procs
  BY ProcsAssumption DEF Procs
<1>t. /\ pc \in [Procs -> Locations] /\ held \in [Procs -> Entries \cup {None}]
      /\ cancel \in [Drainers -> BOOLEAN]
  BY DEF IndLive, IndRows, IndType, TypeOK
<1>1. /\ pc' = [pc EXCEPT ![i] = "free"] /\ held' = [held EXCEPT ![i] = None]
      /\ cancel' = [cancel EXCEPT ![i] = FALSE] /\ pc[i] = "created"
      /\ UNCHANGED <<running_tasks, snapshot, type>>
  BY DEF EndUnstarted, At, Yield, Hold, entryVars
<1>2. cancel[i]
  BY <1>p, <1>1 DEF EndUnstarted, IndLive, HeldIsScheduled, IndRows, IndType, Holders
<1>w. \A j : Waited(j)' <=> Waited(j)
  BY <1>1 DEF Waited, Awaited
<1>3. ASSUME NEW j \in TaskIds, j # i
      PROVE  (Live(j)' <=> Live(j)) /\ pc'[j] = pc[j] /\ held'[j] = held[j] /\ cancel'[j] = cancel[j]
  BY <1>p, <1>t, <1>1, <1>3 DEF Live, Procs, Drainers
<1>4. pc'[i] = "free" /\ ~cancel'[i] /\ pc'[Loop] = pc[Loop]
  BY <1>p, <1>t, <1>1 DEF Drainers
<1>5. OwnOrWaited'
  <2>. SUFFICES ASSUME NEW t \in TaskTypes, NEW j \in TaskIds, running_tasks'[t] = j
                PROVE  \/ (Live(j) /\ type[held[j]] = t /\ (cancel[j] => Waited(j)))'
                       \/ (pc[j] = "free" /\ Waited(j))'
    BY DEF OwnOrWaited
  <2>1. \/ Live(j) /\ type[held[j]] = t /\ (cancel[j] => Waited(j))
        \/ pc[j] = "free" /\ Waited(j)
    BY <1>1 DEF IndLive, Registers, OwnOrWaited
  <2>2. CASE j = i
    BY <1>1, <1>2, <1>4, <1>w, <2>1, <2>2
  <2>3. CASE j # i
    BY <1>1, <1>3, <1>w, <2>1, <2>3
  <2>. QED
    BY <2>2, <2>3
<1>6. SnapshotAgrees'
  BY <1>1 DEF IndLive, Registers, SnapshotAgrees
<1>7. CancelsLive'
  BY <1>3, <1>4 DEF IndLive, Registers, CancelsLive
<1>8. LoopWaits'
  BY <1>1, <1>4 DEF IndLive, Registers, LoopWaits
<1>. QED
  BY <1>5, <1>6, <1>7, <1>8 DEF Registers

\* A task that ends drops its own registration.
LEMMA FinishRegisters ==
    ASSUME IndLive, NEW i \in TaskIds, Finish(i)
    PROVE  Registers'
<1>p. i \in Procs /\ i # Loop /\ Loop \in Procs /\ i # None
  BY ProcsAssumption DEF Procs
<1>t. /\ pc \in [Procs -> Locations] /\ held \in [Procs -> Entries \cup {None}]
      /\ cancel \in [Drainers -> BOOLEAN] /\ type \in [Entries -> TaskTypes]
      /\ running_tasks \in [TaskTypes -> TaskIds \cup {None}]
      /\ snapshot \in [{Loop, Hunter, Stopper} -> [TaskTypes -> TaskIds \cup {None}]]
  BY DEF IndLive, IndRows, IndType, TypeOK
<1>1. /\ held' = [held EXCEPT ![i] = None] /\ cancel' = [cancel EXCEPT ![i] = FALSE]
      /\ pc[i] = "executing"
      /\ running_tasks' = [running_tasks EXCEPT ![type[held[i]]] = None]
      /\ UNCHANGED <<snapshot, type>>
  BY DEF Finish, At, Hold, Unregister
<1>2. \E l \in {"free", "drain"} : pc' = [pc EXCEPT ![i] = l]
  BY DEF Finish, BeginDrain, Goto, Yield
<1>w. \A j : Waited(j)' <=> Waited(j)
  BY <1>1 DEF Waited, Awaited
<1>3. ASSUME NEW j \in TaskIds, j # i
      PROVE  (Live(j)' <=> Live(j)) /\ pc'[j] = pc[j] /\ held'[j] = held[j] /\ cancel'[j] = cancel[j]
  BY <1>p, <1>t, <1>1, <1>2, <1>3 DEF Live, Procs, Drainers
<1>4. ~cancel'[i] /\ pc'[Loop] = pc[Loop]
  BY <1>p, <1>t, <1>1, <1>2 DEF Drainers
<1>5. ASSUME NEW t \in TaskTypes, running_tasks'[t] # None
      PROVE  running_tasks'[t] = running_tasks[t] /\ running_tasks[t] # i
  <2>1. running_tasks'[t] = running_tasks[t] /\ t # type[held[i]]
    BY <1>t, <1>1, <1>5
  <2>2. running_tasks[t] # i
    BY <1>1, <2>1 DEF IndLive, Registers, OwnOrWaited
  <2>. QED
    BY <2>1, <2>2
<1>6. OwnOrWaited'
  <2>. SUFFICES ASSUME NEW t \in TaskTypes, NEW j \in TaskIds, running_tasks'[t] = j
                PROVE  \/ (Live(j) /\ type[held[j]] = t /\ (cancel[j] => Waited(j)))'
                       \/ (pc[j] = "free" /\ Waited(j))'
    BY DEF OwnOrWaited
  <2>1. j # None
    BY ProcsAssumption DEF Procs
  <2>2. running_tasks[t] = j /\ j # i
    BY <1>5, <2>1
  <2>3. \/ Live(j) /\ type[held[j]] = t /\ (cancel[j] => Waited(j))
        \/ pc[j] = "free" /\ Waited(j)
    BY <2>2 DEF IndLive, Registers, OwnOrWaited
  <2>. QED
    BY <1>1, <1>3, <1>w, <2>2, <2>3
<1>7. SnapshotAgrees'
  <2>. SUFFICES ASSUME NEW q \in {Loop, Hunter}, NEW t \in TaskTypes, NEW u \in TaskTypes,
                       snapshot[q][t] # None, running_tasks'[u] = snapshot[q][t]
                PROVE  t = u
    BY <1>1 DEF SnapshotAgrees
  <2>1. running_tasks[u] = snapshot[q][t]
    BY <1>5
  <2>. QED
    BY <2>1 DEF IndLive, Registers, SnapshotAgrees
<1>8. CancelsLive'
  BY <1>3, <1>4 DEF IndLive, Registers, CancelsLive
<1>9. LoopWaits'
  BY <1>1, <1>4 DEF IndLive, Registers, LoopWaits
<1>. QED
  BY <1>6, <1>7, <1>8, <1>9 DEF Registers

\* A task is registered for one type.
LEMMA RegisteredOnce ==
    ASSUME IndLive, NEW t \in TaskTypes, NEW u \in TaskTypes,
           running_tasks[t] \in TaskIds, running_tasks[u] = running_tasks[t]
    PROVE  t = u
<1> DEFINE i == running_tasks[t]
<1>1. \A v \in TaskTypes : running_tasks[v] = i =>
        \/ Live(i) /\ type[held[i]] = v
        \/ pc[i] = "free" /\ Waited(i)
  BY DEF IndLive, Registers, OwnOrWaited
<1>2. CASE Live(i)
  BY <1>1, <1>2 DEF Live
<1>3. CASE ~Live(i)
  <2>1. PICK q \in {Loop, Hunter}, v \in TaskTypes : snapshot[q][v] = i /\ i # None
    BY <1>1, <1>3 DEF Waited, Awaited
  <2>. QED
    BY <2>1 DEF IndLive, Registers, SnapshotAgrees
<1>. QED
  BY <1>2, <1>3

\* Who cancels takes down whom it cancels, and waits for them.
LEMMA SweepRegisters ==
    ASSUME IndLive, NEW s \in {Loop, Hunter}, NEW snap \in [TaskTypes -> TaskIds \cup {None}],
           \A t \in TaskTypes : snap[t] \in {running_tasks[t], None},
           snapshot' = [snapshot EXCEPT ![s] = snap],
           CancelTasks({snap[t] : t \in TaskTypes} \ {None}),
           \A i \in Registered : Waited(i) => Waited(i)',
           \A i \in TaskIds : pc'[i] = pc[i],
           UNCHANGED <<running_tasks, type, held>>
    PROVE  OwnOrWaited' /\ SnapshotAgrees' /\ CancelsLive' /\ ~cancel'[Loop]
<1>t. /\ running_tasks \in [TaskTypes -> TaskIds \cup {None}]
      /\ snapshot \in [{Loop, Hunter, Stopper} -> [TaskTypes -> TaskIds \cup {None}]]
      /\ Loop \in Drainers /\ TaskIds \subseteq Drainers /\ Loop \notin TaskIds /\ None \notin TaskIds
  BY ProcsAssumption DEF IndLive, IndRows, IndType, TypeOK, Drainers, Procs
<1>1. \A p \in Drainers : cancel'[p] <=>
        (cancel[p] \/ (p \in ({snap[t] : t \in TaskTypes} \ {None}) /\ pc[p] # "free"))
  BY DEF CancelTasks
<1>2. \A t \in TaskTypes : snap[t] # None => Waited(snap[t])'
  BY <1>t DEF Waited, Awaited
<1>3. OwnOrWaited'
  <2>. SUFFICES ASSUME NEW t \in TaskTypes, NEW i \in TaskIds, running_tasks[t] = i
                PROVE  \/ (Live(i) /\ type[held[i]] = t /\ (cancel[i] => Waited(i)))'
                       \/ (pc[i] = "free" /\ Waited(i))'
    BY DEF OwnOrWaited
  <2>1. Waited(i) => Waited(i)'
    BY <1>t DEF Registered
  <2>2. \/ Live(i) /\ type[held[i]] = t /\ (cancel[i] => Waited(i))
        \/ pc[i] = "free" /\ Waited(i)
    BY DEF IndLive, Registers, OwnOrWaited
  <2>3. cancel'[i] => cancel[i] \/ Waited(i)'
    <3>1. i \in {snap[v] : v \in TaskTypes} \ {None} => Waited(i)'
      BY <1>2
    <3>. QED
      BY <1>t, <1>1, <3>1
  <2>4. Live(i)' <=> Live(i)
    BY DEF Live
  <2>. QED
    BY <2>1, <2>2, <2>3, <2>4
<1>4. SnapshotAgrees'
  <2>. SUFFICES ASSUME NEW q \in {Loop, Hunter}, NEW t \in TaskTypes, NEW u \in TaskTypes,
                       snapshot'[q][t] # None, running_tasks[u] = snapshot'[q][t]
                PROVE  t = u
    BY DEF SnapshotAgrees
  <2>1. CASE q = s
    <3>1. snapshot'[q][t] = running_tasks[t] /\ running_tasks[t] \in TaskIds
      BY <1>t, <2>1
    <3>. QED
      BY <3>1, RegisteredOnce
  <2>2. CASE q # s
    <3>1. snapshot'[q][t] = snapshot[q][t]
      BY <1>t, <2>2
    <3>. QED
      BY <3>1 DEF IndLive, Registers, SnapshotAgrees
  <2>. QED
    BY <2>1, <2>2
<1>5. CancelsLive'
  <2>. SUFFICES ASSUME NEW i \in TaskIds, cancel'[i]
                PROVE  Live(i)
    BY DEF CancelsLive, Live
  <2>1. CASE cancel[i]
    BY <2>1 DEF IndLive, Registers, CancelsLive
  <2>2. CASE ~cancel[i]
    <3>1. PICK t \in TaskTypes : snap[t] = i /\ pc[i] # "free"
      BY <1>t, <1>1, <2>2
    <3>2. running_tasks[t] = i
      BY <1>t, <3>1
    <3>. QED
      BY <3>1, <3>2 DEF IndLive, Registers, OwnOrWaited
  <2>. QED
    BY <2>1, <2>2
<1>6. ~cancel'[Loop]
  <2>1. Loop \notin {snap[t] : t \in TaskTypes} \ {None}
    BY <1>t
  <2>. QED
    BY <1>t, <1>1, <2>1 DEF IndLive, NobodyStops
<1>. QED
  BY <1>3, <1>4, <1>5, <1>6

\* The gate does when the internet goes ...
LEMMA GateRegisters ==
    ASSUME IndLive, GateDown
    PROVE  Registers' /\ ~cancel'[Loop]
<1>t. /\ running_tasks \in [TaskTypes -> TaskIds \cup {None}] /\ pc \in [Procs -> Locations]
      /\ snapshot \in [{Loop, Hunter, Stopper} -> [TaskTypes -> TaskIds \cup {None}]]
      /\ Loop \in Procs /\ Loop \notin TaskIds /\ TaskIds \subseteq Procs /\ Loop # Hunter
      /\ None \notin Procs
  BY ProcsAssumption DEF IndLive, IndRows, IndType, TypeOK, Procs
<1>1. pc[Loop] = "gate" /\ snapshot[Loop] = NoTasks
  BY DEF GateDown, At, IndLive, Registers, LoopWaits
<1>2. \E l \in Locations : pc' = [pc EXCEPT ![Loop] = l]
  BY DEF GateDown, TickUnlessPaused, Goto, Yield, Locations
<1>3. \A i \in TaskIds : pc'[i] = pc[i]
  BY <1>t, <1>2
<1>4. UNCHANGED <<running_tasks, type, held>>
  BY DEF GateDown, entryVars
<1>5. CASE paused_by_internet
  <2>1. UNCHANGED <<cancel, snapshot>>
    BY <1>5 DEF GateDown
  <2>2. Aside
    BY <1>1, <1>3, <1>4, <2>1 DEF Aside, OpensSlots, Live
  <2>. QED
    BY <2>1, <2>2, AsideRegisters DEF IndLive, NobodyStops
<1>6. CASE ~paused_by_internet
  <2>1. snapshot' = [snapshot EXCEPT ![Loop] = CheckTasks]
        /\ CancelTasks({CheckTasks[t] : t \in TaskTypes})
        /\ pc' = [pc EXCEPT ![Loop] = IF CheckTasks = NoTasks THEN "free" ELSE "gather"]
    BY <1>6 DEF GateDown, Yield
  <2>2. /\ CheckTasks \in [TaskTypes -> TaskIds \cup {None}]
        /\ \A t \in TaskTypes : CheckTasks[t] \in {running_tasks[t], None}
    BY <1>t DEF CheckTasks
  <2>3. CancelTasks({CheckTasks[t] : t \in TaskTypes} \ {None})
    BY <1>t, <2>1 DEF CancelTasks, Drainers, Procs
  <2>4. \A i \in Registered : Waited(i) => Waited(i)'
    <3>1. Awaited(Loop) = {}
      BY <1>1 DEF Awaited, NoTasks
    <3>2. Awaited(Hunter)' = Awaited(Hunter)
      BY <1>t, <2>1 DEF Awaited
    <3>. QED
      BY <3>1, <3>2 DEF Waited
  <2>5. OwnOrWaited' /\ SnapshotAgrees' /\ CancelsLive' /\ ~cancel'[Loop]
    BY <1>3, <1>4, <2>1, <2>2, <2>3, <2>4, SweepRegisters
  <2>6. LoopWaits'
    BY <1>t, <2>1 DEF LoopWaits, NoTasks
  <2>. QED
    BY <2>5, <2>6 DEF Registers
<1>. QED
  BY <1>5, <1>6

\* ... and so does the hunt when it begins.
LEMMA HuntRegisters ==
    ASSUME IndLive, HuntBegin
    PROVE  Registers' /\ ~cancel'[Loop]
<1>t. /\ running_tasks \in [TaskTypes -> TaskIds \cup {None}] /\ pc \in [Procs -> Locations]
      /\ snapshot \in [{Loop, Hunter, Stopper} -> [TaskTypes -> TaskIds \cup {None}]]
      /\ Hunter \in Procs /\ Hunter \notin TaskIds /\ TaskIds \subseteq Procs /\ Loop # Hunter
      /\ Loop \in Procs
  BY ProcsAssumption DEF IndLive, IndRows, IndType, TypeOK, Procs
<1>1. /\ snapshot' = [snapshot EXCEPT ![Hunter] = running_tasks]
      /\ CancelTasks({running_tasks[t] : t \in TaskTypes} \ {None})
      /\ pc' = [pc EXCEPT ![Hunter] = "gather"]
      /\ UNCHANGED <<running_tasks, type, held>>
  BY DEF HuntBegin, Registered, Goto, Yield, entryVars
<1>2. \A i \in Registered : Waited(i)'
  BY <1>t, <1>1 DEF Registered, Waited, Awaited
<1>3. (\A i \in TaskIds : pc'[i] = pc[i]) /\ pc'[Loop] = pc[Loop] /\ snapshot'[Loop] = snapshot[Loop]
  BY <1>t, <1>1
<1>4. OwnOrWaited' /\ SnapshotAgrees' /\ CancelsLive' /\ ~cancel'[Loop]
  BY <1>t, <1>1, <1>2, <1>3, SweepRegisters
<1>5. LoopWaits'
  BY <1>3 DEF IndLive, Registers, LoopWaits
<1>. QED
  BY <1>4, <1>5 DEF Registers

\* The gate drops the registrations of those it has waited for.
LEMMA GatheredRegisters ==
    ASSUME IndLive, GateGathered
    PROVE  Registers'
<1>t. /\ running_tasks \in [TaskTypes -> TaskIds \cup {None}] /\ pc \in [Procs -> Locations]
      /\ snapshot \in [{Loop, Hunter, Stopper} -> [TaskTypes -> TaskIds \cup {None}]]
      /\ Loop \in Procs /\ Loop \notin TaskIds /\ TaskIds \subseteq Procs /\ Loop # Hunter
      /\ None \notin TaskIds
  BY ProcsAssumption DEF IndLive, IndRows, IndType, TypeOK, Procs
<1>1. /\ running_tasks' = [t \in TaskTypes |->
            IF snapshot[Loop][t] = None THEN running_tasks[t] ELSE None]
      /\ snapshot' = [snapshot EXCEPT ![Loop] = NoTasks]
      /\ UNCHANGED <<type, held, cancel>>
  BY DEF GateGathered, Popped, entryVars
<1>2. \E l \in Locations : pc' = [pc EXCEPT ![Loop] = l]
  BY DEF GateGathered, TickUnlessPaused, Goto, Yield, Locations
<1>3. \A i \in TaskIds : pc'[i] = pc[i]
  BY <1>t, <1>2
<1>4. ASSUME NEW t \in TaskTypes, NEW i \in TaskIds, running_tasks'[t] = i
      PROVE  running_tasks[t] = i /\ (Waited(i) => Waited(i)')
  <2>1. running_tasks[t] = i /\ snapshot[Loop][t] = None
    BY <1>t, <1>1, <1>4
  <2>2. i \notin Awaited(Loop)
    BY <1>t, <2>1 DEF Awaited, IndLive, Registers, SnapshotAgrees
  <2>3. Awaited(Hunter)' = Awaited(Hunter)
    BY <1>t, <1>1 DEF Awaited
  <2>. QED
    BY <2>1, <2>2, <2>3 DEF Waited
<1>5. OwnOrWaited'
  <2>. SUFFICES ASSUME NEW t \in TaskTypes, NEW i \in TaskIds, running_tasks'[t] = i
                PROVE  \/ (Live(i) /\ type[held[i]] = t /\ (cancel[i] => Waited(i)))'
                       \/ (pc[i] = "free" /\ Waited(i))'
    BY DEF OwnOrWaited
  <2>1. \/ Live(i) /\ type[held[i]] = t /\ (cancel[i] => Waited(i))
        \/ pc[i] = "free" /\ Waited(i)
    BY <1>4 DEF IndLive, Registers, OwnOrWaited
  <2>2. Live(i)' <=> Live(i)
    BY <1>3 DEF Live
  <2>. QED
    BY <1>1, <1>3, <1>4, <2>1, <2>2
<1>6. SnapshotAgrees'
  <2>. SUFFICES ASSUME NEW q \in {Loop, Hunter}, NEW t \in TaskTypes, NEW u \in TaskTypes,
                       snapshot'[q][t] # None, running_tasks'[u] = snapshot'[q][t]
                PROVE  t = u
    BY DEF SnapshotAgrees
  <2>1. q = Hunter /\ snapshot'[q][t] = snapshot[q][t]
    BY <1>t, <1>1 DEF NoTasks
  <2>2. running_tasks[u] = snapshot[q][t]
    BY <1>t, <1>4, <2>1
  <2>. QED
    BY <2>1, <2>2 DEF IndLive, Registers, SnapshotAgrees
<1>7. CancelsLive'
  BY <1>1, <1>3 DEF IndLive, Registers, CancelsLive, Live
<1>8. LoopWaits'
  BY <1>t, <1>1 DEF LoopWaits, NoTasks
<1>. QED
  BY <1>5, <1>6, <1>7, <1>8 DEF Registers

\* cancel_all clears everything, and so does a restart.
LEMMA ClearedRegisters ==
    ASSUME IndLive, HuntReady \/ Restart
    PROVE  Registers'
<1>n. None \notin TaskIds /\ Loop \in Procs /\ TaskIds \subseteq Procs /\ Loop # Hunter
      /\ Hunter \notin TaskIds /\ Loop \in Drainers /\ TaskIds \subseteq Drainers
  BY ProcsAssumption DEF Procs, Drainers
<1>1. OwnOrWaited' /\ SnapshotAgrees'
  <2>1. running_tasks' = NoTasks
    BY DEF HuntReady, Restart
  <2>. QED
    BY <1>n, <2>1 DEF NoTasks, OwnOrWaited, SnapshotAgrees
<1>2. CASE HuntReady
  <2>1. /\ pc' = [pc EXCEPT ![Hunter] = "free"] /\ cancel' = cancel
        /\ snapshot' = [snapshot EXCEPT ![Hunter] = NoTasks]
    BY <1>2 DEF HuntReady, Yield
  <2>2. (\A i \in TaskIds : pc'[i] = pc[i]) /\ pc'[Loop] = pc[Loop] /\ snapshot'[Loop] = snapshot[Loop]
    BY <1>n, <2>1 DEF IndLive, IndRows, IndType, TypeOK
  <2>. QED
    BY <1>1, <2>1, <2>2 DEF IndLive, Registers, CancelsLive, LoopWaits, Live
<1>3. CASE Restart
  <2>1. /\ cancel' = [p \in Drainers |-> FALSE]
        /\ snapshot' = [p \in {Loop, Hunter, Stopper} |-> NoTasks]
    BY <1>3 DEF Restart
  <2>. QED
    BY <1>1, <1>n, <2>1 DEF Registers, CancelsLive, LoopWaits, NoTasks
<1>. QED
  BY <1>2, <1>3

\* What a drain does short of a launch concerns no registration ...
LEMMA RegistersDrain ==
    ASSUME IndLive, NEW p \in Drainers, Drain(p)
    PROVE  Registers'
<1>p. p \in Procs /\ TaskIds \subseteq Procs /\ Loop \in Procs
  BY DEF Drainers, Procs
<1>t. pc \in [Procs -> Locations] /\ held \in [Procs -> Entries \cup {None}]
  BY DEF IndLive, IndRows, IndType, TypeOK
<1>1. CASE TryLaunchOffline(p) \/ NetAlive(p)
  <2>1. pc[p] \in {"lock", "net"}
    BY <1>1 DEF TryLaunchOffline, NetAlive, HasLock, At
  <2>2. held[p] # None
    BY <1>p, <2>1 DEF IndLive, IndRows, IndType, Holders
  <2>3. Launch(p, held[p], "drain") /\ UNCHANGED <<type, snapshot, cancel>>
    BY <1>1 DEF TryLaunchOffline, NetAlive, LaunchQueued
  <2>. QED
    BY <1>p, <2>1, <2>2, <2>3, LaunchRegisters
<1>2. CASE ~TryLaunchOffline(p) /\ ~NetAlive(p)
  <2>1. pc[p] \in {"drain", "lock", "net"}
    BY <1>2 DEF Drain, DrainGone, DrainBlocked, DrainTry, DrainDone, TryBlocked, TryProbe,
       NetDead, HasLock, At
  <2>2. \E l \in {"drain", "lock", "net", "free"} : pc' = [pc EXCEPT ![p] = l]
    BY <1>2 DEF Drain, DrainGone, DrainBlocked, DrainTry, DrainDone, TryBlocked, TryProbe,
       NetDead, Blocked, AwaitLock, Goto, Yield
  <2>3. \A i \in TaskIds : i # p => held'[i] = held[i]
    BY <1>p, <1>t, <1>2 DEF Drain, DrainGone, DrainBlocked, DrainTry, DrainDone, TryBlocked,
       TryProbe, NetDead, Blocked, Hold
  <2>4. UNCHANGED <<running_tasks, snapshot, cancel, type>>
    BY <1>2 DEF Drain, DrainGone, DrainBlocked, DrainTry, DrainDone, TryBlocked, TryProbe,
       NetDead, entryVars
  <2>5. ASSUME NEW i \in TaskIds
        PROVE  /\ Live(i)' <=> Live(i)
               /\ pc[i] = "free" => pc'[i] = "free"
               /\ Live(i) => held'[i] = held[i]
    BY <1>p, <1>t, <2>1, <2>2, <2>3 DEF Live
  <2>6. pc[Loop] = "gather" => pc'[Loop] = "gather"
    BY <1>p, <1>t, <2>1, <2>2
  <2>7. Aside
    BY <2>4, <2>5, <2>6 DEF Aside, OpensSlots
  <2>. QED
    BY <2>7, AsideRegisters
<1>. QED
  BY <1>1, <1>2

\* ... nor does a "Run now" ...
LEMMA RegistersTrigger ==
    ASSUME IndLive, NEW p \in Triggers, Trigger(p)
    PROVE  Registers'
<1>p. p \in Procs /\ p \notin TaskIds /\ TaskIds \subseteq Procs /\ Loop \in Procs /\ p # Loop
  BY ProcsAssumption DEF Procs
<1>t. pc \in [Procs -> Locations] /\ held \in [Procs -> Entries \cup {None}]
  BY DEF IndLive, IndRows, IndType, TypeOK
<1>1. CASE TriggerLaunch(p) /\ ~AlreadyRunning(held[p])
  <2>1. pc[p] \in {"lock", "net"}
    BY <1>1 DEF TriggerLaunch, At
  <2>2. held[p] # None
    BY <1>p, <2>1 DEF IndLive, IndRows, IndType, Holders
  <2>3. Launch(p, held[p], "free") /\ UNCHANGED <<type, snapshot, cancel>>
    BY <1>1 DEF TriggerLaunch
  <2>. QED
    BY <1>p, <2>1, <2>2, <2>3, LaunchRegisters
<1>2. CASE ~(TriggerLaunch(p) /\ ~AlreadyRunning(held[p]))
  <2>1. UNCHANGED <<running_tasks, snapshot, cancel, type>>
    BY <1>2 DEF Trigger, TriggerNow, TriggerAlive, TriggerDead, TriggerLaunch, entryVars
  <2>2. \A q \in Procs : q # p => pc'[q] = pc[q] /\ held'[q] = held[q]
    BY <1>p, <1>t, <1>2 DEF Trigger, TriggerNow, TriggerAlive, TriggerDead, TriggerLaunch,
       TriggerChecked, AwaitLock, Yield, Hold
  <2>3. Aside
    BY <1>p, <2>1, <2>2 DEF Aside, OpensSlots, Live
  <2>. QED
    BY <2>3, AsideRegisters
<1>. QED
  BY <1>1, <1>2

\* ... nor a tick outside the gate ...
LEMMA RegistersLoop ==
    ASSUME IndLive, TheLoop
    PROVE  Registers'
<1>p. Loop \in Procs /\ Loop \notin TaskIds /\ TaskIds \subseteq Procs
  BY ProcsAssumption DEF Procs
<1>t. pc \in [Procs -> Locations]
  BY DEF IndLive, IndRows, IndType, TypeOK
<1>1. CASE Tick \/ GateUp \/ LoopDrain \/ \E sid \in Sids : LoopVisit(sid)
  <2>1. UNCHANGED <<running_tasks, snapshot, cancel, type, held>>
    BY <1>1 DEF Tick, GateUp, LoopDrain, LoopVisit, entryVars, procVars
  <2>2. pc' = pc \/ \E l \in Locations : pc' = [pc EXCEPT ![Loop] = l]
    BY <1>1 DEF Tick, GateUp, LoopDrain, LoopVisit, TickUnlessPaused, BeginDrain, Goto, Yield,
       procVars, Locations
  <2>3. pc[Loop] # "gather"
    BY <1>1 DEF Tick, GateUp, LoopDrain, LoopVisit, At
  <2>4. \A i \in TaskIds : pc'[i] = pc[i]
    BY <1>p, <1>t, <2>2
  <2>5. Aside
    BY <2>1, <2>3, <2>4 DEF Aside, OpensSlots, Live
  <2>. QED
    BY <2>5, AsideRegisters
<1>. QED
  BY <1>1, GateRegisters, GatheredRegisters DEF TheLoop, LoopGoesOn

\* ... nor the buttons that do not cancel.
LEMMA RegistersOperator ==
    ASSUME Awaiting, IndLive, Operator
    PROVE  Registers'
<1>1. /\ ~StopStep /\ ~RestoreDefaults
      /\ \A sid \in Sids : Schedule(sid) => Toggle(sid)
  BY DEF Awaiting, StopStep, StopBegin, StopTasks, StopEnd, RestoreDefaults, Schedule,
     CancelRunning, Delete, UpdateType, Add, Request, Gathered, At, IndLive, NobodyStops
<1>2. CASE PauseAll \/ ResumeAll \/ HuntEnd \/ StopHunt \/ \E sid \in Sids : Toggle(sid)
  <2>1. UNCHANGED <<running_tasks, snapshot, cancel, type, held, pc>>
    BY <1>2 DEF PauseAll, ResumeAll, HuntEnd, StopHunt, Toggle, entryVars, procVars
  <2>2. Aside
    BY <2>1 DEF Aside, OpensSlots, Live
  <2>. QED
    BY <2>2, AsideRegisters
<1>. QED
  BY <1>1, <1>2, HuntRegisters, ClearedRegisters DEF Operator, HuntStep

\* Only the edits of the schedules change the dict.
LEMMA DictIsKept ==
    ASSUME Awaiting, [Next]_vars, ~Restart
    PROVE  schedules' = schedules
<1>1. CASE TheLoop
  BY <1>1 DEF TheLoop, LoopGoesOn, Tick, GateUp, GateDown, GateGathered, LoopDrain, LoopVisit
<1>2. CASE \E p \in Drainers : Drain(p) \/ Abort(p)
  <2>. PICK p \in Drainers : Drain(p) \/ Abort(p)
    BY <1>2
  <2>. QED
    BY DEF Drain, DrainGone, DrainBlocked, DrainTry, DrainDone, TryBlocked, TryProbe,
       TryLaunchOffline, LaunchQueued, NetAlive, NetDead, Abort
<1>3. CASE \E i \in TaskIds : Task(i)
  BY <1>3 DEF Task, EndUnstarted, Start, Finish
<1>4. CASE \E p \in Triggers : Trigger(p)
  BY <1>4 DEF Trigger, TriggerNow, TriggerAlive, TriggerDead, TriggerLaunch
<1>5. CASE \E sid \in Sids : Schedule(sid)
  BY <1>5 DEF Schedule, CancelRunning, Toggle, Delete, UpdateType, Add, Request, Awaiting
<1>6. CASE PauseAll \/ ResumeAll \/ RestoreDefaults \/ HuntStep \/ StopStep
  BY <1>6 DEF PauseAll, ResumeAll, RestoreDefaults, Request, Awaiting, HuntStep, HuntBegin,
     HuntReady, HuntEnd, StopHunt, StopStep, StopBegin, StopTasks, StopEnd
<1>7. CASE UNCHANGED vars
  BY <1>7 DEF vars
<1>. QED
  BY <1>1, <1>2, <1>3, <1>4, <1>5, <1>6, <1>7 DEF Next, Operator

\* A launch hands its entry to the task.
LEMMA LaunchHolds ==
    ASSUME IndLive, NEW p \in Procs, NEW q \in Procs, NEW l, Launch(q, held[q], l),
           held'[p] # None
    PROVE  \E r \in Procs : held'[p] = held[r]
<1>1. PICK i \in TaskIds : held' = [held EXCEPT ![q] = None, ![i] = held[q]]
  BY DEF Launch, FreshTasks
<1>2. held \in [Procs -> Entries \cup {None}]
  BY DEF IndLive, IndRows, IndType, TypeOK
<1>. QED
  BY <1>1, <1>2

\* Who is given an entry gets it from the dict or from its launcher.
LEMMA HeldIsTaken ==
    ASSUME IndLive, [Next]_vars, ~Restart, NEW p \in Procs, held'[p] # None
    PROVE  \/ \E q \in Procs : held'[p] = held[q]
           \/ \E sid \in Sids : held'[p] = schedules[sid]
<1>t. held \in [Procs -> Entries \cup {None}]
  BY DEF IndLive, IndRows, IndType, TypeOK
<1>p. Drainers \subseteq Procs /\ TaskIds \subseteq Procs /\ Triggers \subseteq Procs
  BY DEF Drainers, Procs
<1>1. CASE held' = held
  BY <1>1
<1>2. CASE \E q \in Drainers : Drain(q) \/ Abort(q)
  <2>. PICK q \in Drainers : Drain(q) \/ Abort(q)
    BY <1>2
  <2>1. CASE DrainTry(q)
    <3>1. Head(todo[q]) \in Sids
      BY <2>1 DEF DrainTry, IndLive, IndRows, IndType, TypeOK
    <3>. QED
      BY <1>t, <1>p, <2>1, <3>1 DEF DrainTry, Hold
  <2>2. CASE TryLaunchOffline(q) \/ NetAlive(q)
    BY <1>t, <1>p, <2>2, LaunchHolds DEF TryLaunchOffline, NetAlive, LaunchQueued
  <2>3. CASE ~DrainTry(q) /\ ~TryLaunchOffline(q) /\ ~NetAlive(q)
    BY <1>t, <1>p, <2>3 DEF Drain, DrainGone, DrainBlocked, DrainDone, TryBlocked, TryProbe,
       NetDead, Abort, Blocked, Hold
  <2>. QED
    BY <2>1, <2>2, <2>3
<1>3. CASE \E i \in TaskIds : Task(i)
  <2>. PICK i \in TaskIds : Task(i)
    BY <1>3
  <2>1. CASE Start(i)
    <3>1. held[i] \in Entries
      BY <1>t, <1>p, <2>1 DEF Start, At, IndLive, IndRows, IndType, Holders
    <3>2. EntrySid[held[i]] \in Sids
      BY <3>1, EntriesAssumption
    <3>. QED
      BY <1>t, <1>p, <2>1, <3>2 DEF Start, Hold
  <2>2. CASE EndUnstarted(i) \/ Finish(i)
    BY <1>t, <1>p, <2>2 DEF EndUnstarted, Finish, Hold
  <2>. QED
    BY <2>1, <2>2 DEF Task
<1>4. CASE \E q \in Triggers : Trigger(q)
  <2>. PICK q \in Triggers : Trigger(q)
    BY <1>4
  <2>1. CASE TriggerLaunch(q) /\ ~AlreadyRunning(held[q])
    BY <1>t, <1>p, <2>1, LaunchHolds DEF TriggerLaunch
  <2>2. CASE TriggerLaunch(q) /\ AlreadyRunning(held[q])
    BY <1>t, <1>p, <2>2 DEF TriggerLaunch, Hold
  <2>3. CASE TriggerAlive(q) \/ TriggerDead(q)
    BY <1>t, <1>p, <2>3 DEF TriggerAlive, TriggerDead, TriggerChecked, Hold
  <2>4. CASE \E sid \in Sids : TriggerNow(q, sid)
    BY <1>t, <1>p, <2>4 DEF TriggerNow, TriggerChecked, Hold
  <2>. QED
    BY <2>1, <2>2, <2>3, <2>4 DEF Trigger
<1>5. CASE TheLoop \/ Operator \/ UNCHANGED vars
  <2>1. CASE TheLoop
    BY <1>1, <2>1 DEF TheLoop, LoopGoesOn, Tick, GateUp, GateDown, GateGathered, LoopDrain,
       LoopVisit, procVars
  <2>2. CASE UNCHANGED vars
    BY <1>1, <2>2 DEF vars, procVars
  <2>3. CASE \E sid \in Sids : Schedule(sid)
    BY <1>1, <2>3 DEF Schedule, CancelRunning, Toggle, Delete, UpdateType, Add, procVars
  <2>4. CASE PauseAll \/ ResumeAll \/ RestoreDefaults \/ HuntStep \/ StopStep
    BY <1>1, <2>4 DEF PauseAll, ResumeAll, RestoreDefaults, HuntStep, HuntBegin,
       HuntReady, HuntEnd, StopHunt, StopStep, StopBegin, StopTasks, StopEnd, procVars
  <2>. QED
    BY <1>5, <2>1, <2>2, <2>3, <2>4 DEF Operator
<1>. QED
  BY <1>2, <1>3, <1>4, <1>5 DEF Next

\* Only the gate, the hunt and the shutdown cancel the tick loop or anybody.
LEMMA LoopIsNotCancelled ==
    ASSUME Awaiting, IndLive, [Next]_vars, ~Restart, ~StopStep, ~GateDown, ~HuntBegin
    PROVE  ~cancel'[Loop]
<1>p. Loop \in Drainers /\ Loop \notin TaskIds /\ TaskIds \subseteq Drainers
  BY ProcsAssumption DEF Drainers
<1>t. cancel \in [Drainers -> BOOLEAN] /\ ~cancel[Loop]
  BY DEF IndLive, IndRows, IndType, TypeOK, NobodyStops
<1>1. CASE cancel' = cancel
  BY <1>t, <1>1
<1>2. CASE \E i \in Drainers : cancel' = [cancel EXCEPT ![i] = FALSE]
  BY <1>t, <1>p, <1>2
<1>3. CASE TheLoop
  BY <1>1, <1>3 DEF TheLoop, LoopGoesOn, Tick, GateUp, GateGathered, LoopDrain, LoopVisit,
     procVars
<1>4. CASE \E p \in Drainers : Drain(p) \/ Abort(p)
  <2>. PICK p \in Drainers : Drain(p) \/ Abort(p)
    BY <1>4
  <2>. QED
    BY <1>1, <1>2 DEF Drain, DrainGone, DrainBlocked, DrainTry, DrainDone, TryBlocked,
       TryProbe, TryLaunchOffline, LaunchQueued, NetAlive, NetDead, Abort
<1>5. CASE \E i \in TaskIds : Task(i)
  BY <1>p, <1>1, <1>2, <1>5 DEF Task, EndUnstarted, Start, Finish
<1>6. CASE \E p \in Triggers : Trigger(p)
  BY <1>1, <1>6 DEF Trigger, TriggerNow, TriggerAlive, TriggerDead, TriggerLaunch
<1>7. CASE \E sid \in Sids : Schedule(sid)
  BY <1>1, <1>7 DEF Schedule, CancelRunning, Toggle, Delete, UpdateType, Add, procVars,
     Request, Awaiting
<1>8. CASE PauseAll \/ ResumeAll \/ RestoreDefaults \/ HuntStep
  BY <1>1, <1>8 DEF PauseAll, ResumeAll, RestoreDefaults, HuntStep, HuntReady, HuntEnd,
     StopHunt, procVars
<1>9. CASE UNCHANGED vars
  BY <1>1, <1>9 DEF vars, procVars
<1>. QED
  BY <1>3, <1>4, <1>5, <1>6, <1>7, <1>8, <1>9 DEF Next, Operator

\* Nobody is given a schedule that is not in the dict.
LEMMA HeldStays ==
    ASSUME Awaiting, IndLive, [Next]_vars
    PROVE  HeldIsScheduled'
<1>1. CASE Restart
  BY <1>1 DEF Restart, HeldIsScheduled
<1>2. CASE ~Restart
  <2>1. schedules' = schedules
    BY <1>2, DictIsKept
  <2>2. ASSUME NEW p \in Procs, held'[p] # None
        PROVE  \/ \E q \in Procs : held'[p] = held[q]
               \/ \E sid \in Sids : held'[p] = schedules[sid]
    BY <1>2, <2>2, HeldIsTaken
  <2>3. ASSUME NEW sid \in Sids, schedules[sid] # None
        PROVE  schedules[EntrySid[schedules[sid]]] # None
    BY <2>3, FirstEntryIsOwn DEF IndLive, IndRows, FirstOnly
  <2>. QED
    BY <2>1, <2>2, <2>3 DEF IndLive, HeldIsScheduled
<1>. QED
  BY <1>1, <1>2

\* Without a shutdown the tick loop is never cancelled.
LEMMA NobodyStopsStep ==
    ASSUME Awaiting, IndLive, [Next]_vars
    PROVE  NobodyStops'
<1>1. CASE Restart
  BY <1>1 DEF Restart, NobodyStops, Procs, Drainers
<1>2. CASE ~Restart
  <2>1. ~StopStep
    BY DEF Awaiting, StopStep, StopBegin, StopTasks, StopEnd, Request, Gathered, At, IndLive,
       NobodyStops
  <2>2. pc'[Stopper] = "free"
    BY <1>2, <2>1, LeftAlone DEF IndLive, IndRows, NobodyStops
  <2>3. ~cancel'[Loop]
    <3>1. CASE GateDown
      BY <3>1, GateRegisters
    <3>2. CASE HuntBegin
      BY <3>2, HuntRegisters
    <3>3. CASE ~GateDown /\ ~HuntBegin
      BY <1>2, <2>1, <3>3, LoopIsNotCancelled
    <3>. QED
      BY <3>1, <3>2, <3>3
  <2>. QED
    BY <2>2, <2>3 DEF NobodyStops
<1>. QED
  BY <1>1, <1>2

\* Every step keeps the registrations real.
LEMMA LiveStep ==
    ASSUME Awaiting, IndLive, [Next]_vars
    PROVE  IndLive'
<1>1. IndRows'
  BY RowsStep DEF IndLive, Awaiting
<1>2. Registers'
  <2>1. CASE \E p \in Drainers : Abort(p)
    <3>1. PICK p \in Drainers : Abort(p)
      BY <2>1
    <3>2. cancel[p] /\ p # Loop /\ p \in TaskIds
      BY <3>1 DEF Abort, IndLive, NobodyStops, Drainers
    <3>3. Live(p) /\ pc[p] \in {"lock", "net"}
      BY <3>1, <3>2 DEF Abort, IndLive, Registers, CancelsLive
    <3>. QED
      BY <3>3 DEF Live
  <2>2. CASE \E i \in TaskIds : Task(i)
    BY <2>2, StartRegisters, UnstartedRegisters, FinishRegisters DEF Task
  <2>3. CASE UNCHANGED vars
    <3>1. Aside
      BY <2>3 DEF vars, entryVars, procVars, Aside, OpensSlots, Live
    <3>. QED
      BY <3>1, AsideRegisters
  <2>. QED
    BY <2>1, <2>2, <2>3, RegistersDrain, RegistersTrigger, RegistersLoop, RegistersOperator
       DEF Next
<1>. QED
  BY <1>1, <1>2, HeldStays, NobodyStopsStep DEF IndLive

\* What get_status reports as running is still to run, or runs, or is waited
\* for by whoever cancelled it (_unregister_task, _internet_gate, cancel_all):
\* no type is blocked for good by a registration nobody will drop.
THEOREM RegistrationsAreReal ==
    ASSUME Awaiting
    PROVE  Spec => []RegisteredIsLive
<1>1. Init => IndLive
  <2>. SUFFICES ASSUME Init
                PROVE  IndLive
    OBVIOUS
  <2>n. /\ TaskIds \subseteq Drainers /\ Loop \in Drainers /\ Stopper \in Procs
        /\ None \notin TaskIds
    BY ProcsAssumption DEF Drainers, Procs
  <2>1. IndRows
    BY RowsInit
  <2>2. Registers
    BY <2>n DEF Init, Registers, OwnOrWaited, SnapshotAgrees, CancelsLive, LoopWaits, NoTasks
  <2>3. NobodyStops /\ HeldIsScheduled
    BY <2>n DEF Init, NobodyStops, HeldIsScheduled
  <2>. QED
    BY <2>1, <2>2, <2>3 DEF IndLive
<1>2. IndLive /\ [Next]_vars => IndLive'
  BY LiveStep
<1>3. IndLive => RegisteredIsLive
  <2>. SUFFICES ASSUME IndLive, NEW t \in TaskTypes, running_tasks[t] # None
                PROVE  \/ pc[running_tasks[t]] \in {"created", "executing"}
                       \/ \E p \in {Loop, Hunter, Stopper} : running_tasks[t] \in Awaited(p)
    BY DEF RegisteredIsLive
  <2>1. running_tasks[t] \in TaskIds
    BY DEF IndLive, IndRows, IndType, TypeOK
  <2>. QED
    BY <2>1 DEF IndLive, Registers, OwnOrWaited, Live, Waited
<1>. QED
  BY <1>1, <1>2, <1>3, PTL DEF Spec
=============================================================================
