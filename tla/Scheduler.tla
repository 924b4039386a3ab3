------------------------------ MODULE Scheduler ------------------------------
(***************************************************************************)
(* The maintenance scheduler of huntproxy: SchedulerEngine with its guard  *)
(* and API mixins (hunt/scheduler.py, scheduler_guard.py, scheduler_api.py)*)
(* and the parts of the manual hunt that reach into it.                    *)
(*                                                                         *)
(* Everything runs on one asyncio event loop.  A coroutine keeps the       *)
(* processor from one await to the next, so a step of the model is a piece *)
(* of code between two awaits; where such a piece is cut into several      *)
(* steps, `current' names the coroutine that still has the processor, and  *)
(* no other coroutine moves.  The processes are the tick loop, the         *)
(* asyncio.Tasks the scheduler creates, the "Run now" requests, the manual *)
(* hunt request that cancels everything, and the shutdown.                 *)
(*                                                                         *)
(* Clock readings are abstracted: an enabled schedule may or may not be    *)
(* due at a tick.  The canary's answer is abstracted: it may be any        *)
(* Boolean at any time.  `respect_pause' is False for every task type and  *)
(* is left out.                                                            *)
(***************************************************************************)
EXTENDS SequencesExt

CONSTANTS
    Sids,           \* schedule ids
    Entries,        \* ScheduleEntry objects
    EntrySid,       \* the id each object carries
    TaskTypes,      \* keys of TASK_TYPES
    mutex_with,     \* TASK_TYPES[t]["mutex_with"]
    NetTypes,       \* task types with respect_internet
    BusyTypes,      \* task types whose busy_flag is _hunt_running
    InitType,       \* the task type a schedule is first given
    DefaultSids,    \* ids of DEFAULT_SCHEDULES
    TaskIds,        \* asyncio.Tasks made by the scheduler (bound: live at once)
    MaxDrains,      \* finished tasks still draining the queue (bound)
    Triggers,       \* concurrent "Run now" requests (bound)
    Loop, Hunter, Stopper,      \* _run_loop, manual_start_hunt, stop
    Ops,            \* the operator's and the environment's moves enabled
    None

Procs == TaskIds \cup Triggers \cup {Loop, Hunter, Stopper}
Drainers == TaskIds \cup {Loop}
AllOps == {"pause", "cancel", "retype", "toggle", "add", "delete",
           "hunt", "blip", "outage", "restart", "stop"}
Statuses == {"rest", "queued", "running"}   \* "rest": never, ok, failed, cancelled
Locations == {"free", "created", "executing", "drain", "lock", "net",
              "gate", "gather", "visit", "ended", "stopping"}

ASSUME SidsAssumption == IsFiniteSet(Sids) /\ None \notin Sids
ASSUME EntriesAssumption == None \notin Entries /\ EntrySid \in [Entries -> Sids]
ASSUME TypesAssumption ==
    /\ mutex_with \in [TaskTypes -> SUBSET TaskTypes]
    /\ NetTypes \subseteq TaskTypes /\ BusyTypes \subseteq TaskTypes
    /\ InitType \in [Sids -> TaskTypes] /\ DefaultSids \subseteq Sids
ASSUME EnoughEntries == \A sid \in Sids : \E e \in Entries : EntrySid[e] = sid
ASSUME ProcsAssumption ==
    /\ None \notin Procs
    /\ TaskIds \cap (Triggers \cup {Loop, Hunter, Stopper}) = {}
    /\ Triggers \cap {Loop, Hunter, Stopper} = {}
    /\ Loop # Hunter /\ Loop # Stopper /\ Hunter # Stopper
ASSUME BoundsAssumption == MaxDrains \in Nat \ {0}
ASSUME OpsAssumption == Ops \subseteq AllOps

VARIABLES
    schedules,      \* _schedules: id -> entry object
    type, enabled, status,      \* fields of the entry objects
    rows,           \* table `schedules': id -> a RowType
    queue,          \* _queue: ids in insertion order
    running_tasks,  \* _running_tasks: task type -> task
    paused, paused_by_internet, stopped,
    launch_lock,    \* _launch_lock: its holder
    hunt_running,   \* HuntState._hunt_running, the busy flag
    hunt,           \* a hunt cycle task is alive behind the flag
    paused_by_hunt, \* HuntState._scheduler_paused_by_hunt
    pc,             \* where each process is suspended ("free": not there)
    held,           \* the entry object a process has a reference to
    job,            \* the task type whose executor a task runs
    todo,           \* list(self._queue.keys()) of a drain in progress
    cancel,         \* cancel() was called and not delivered yet
    snapshot,       \* the copy of _running_tasks a gather waits for
    current         \* the coroutine that has the processor

entryVars == <<type, enabled, status>>
pauseVars == <<paused, paused_by_internet, paused_by_hunt>>
huntVars == <<hunt_running, hunt>>
procVars == <<pc, held, job, todo, cancel, current>>
vars == <<schedules, entryVars, rows, queue, running_tasks, pauseVars, stopped,
          launch_lock, huntVars, procVars, snapshot>>

-----------------------------------------------------------------------------
Queued(sid) == Contains(queue, sid)
NoTasks == [t \in TaskTypes |-> None]
Registered == {running_tasks[t] : t \in TaskTypes} \ {None}
Awaited(p) == {snapshot[p][t] : t \in TaskTypes} \ {None}
Referenced == {schedules[sid] : sid \in Sids} \cup {held[p] : p \in Procs}
FreeEntries(sid) == {e \in Entries \ Referenced : EntrySid[e] = sid}
FreshTasks == {i \in TaskIds : /\ pc[i] = "free" /\ i \notin Registered
                               /\ \A p \in {Loop, Hunter, Stopper} : i \notin Awaited(p)}
Draining == {i \in TaskIds : pc[i] \in {"drain", "lock", "net"}}
Row(e) == [type |-> type[e], enabled |-> enabled[e], status |-> status[e]]

DefaultRow(sid) == [type |-> InitType[sid], enabled |-> TRUE, status |-> "rest"]
RowType == [type : TaskTypes, enabled : BOOLEAN, status : Statuses]
TypeOK ==
    /\ schedules \in [Sids -> Entries \cup {None}]
    /\ type \in [Entries -> TaskTypes] /\ enabled \in [Entries -> BOOLEAN]
    /\ status \in [Entries -> Statuses]
    /\ rows \in [Sids -> RowType \cup {None}]
    /\ queue \in Seq(Sids)
    /\ running_tasks \in [TaskTypes -> TaskIds \cup {None}]
    /\ paused \in BOOLEAN /\ paused_by_internet \in BOOLEAN
    /\ paused_by_hunt \in BOOLEAN /\ stopped \in BOOLEAN
    /\ launch_lock \in Procs \cup {None}
    /\ hunt_running \in BOOLEAN /\ hunt \in BOOLEAN
    /\ pc \in [Procs -> Locations] /\ held \in [Procs -> Entries \cup {None}]
    /\ job \in [TaskIds -> TaskTypes \cup {None}]
    /\ todo \in [Drainers -> Seq(Sids)]
    /\ cancel \in [Drainers -> BOOLEAN]
    /\ snapshot \in [{Loop, Hunter, Stopper} -> [TaskTypes -> TaskIds \cup {None}]]
    /\ current \in Procs \cup {None}

FirstEntry(sid) == CHOOSE e \in Entries : EntrySid[e] = sid

Init ==
    /\ schedules = [sid \in Sids |-> FirstEntry(sid)]
    /\ type = [e \in Entries |-> InitType[EntrySid[e]]]
    /\ enabled = [e \in Entries |-> TRUE] /\ status = [e \in Entries |-> "rest"]
    /\ rows = [sid \in Sids |-> DefaultRow(sid)]
    /\ queue = <<>> /\ running_tasks = NoTasks
    /\ paused = FALSE /\ paused_by_internet = FALSE /\ paused_by_hunt = FALSE
    /\ stopped = FALSE /\ launch_lock = None
    /\ hunt = FALSE
    /\ hunt_running \in BOOLEAN     \* possibly left behind by a crash
    /\ pc = [p \in Procs |-> "free"] /\ held = [p \in Procs |-> None]
    /\ job = [i \in TaskIds |-> None] /\ todo = [p \in Drainers |-> <<>>]
    /\ cancel = [p \in Drainers |-> FALSE]
    /\ snapshot = [p \in {Loop, Hunter, Stopper} |-> NoTasks]
    /\ current = None

-----------------------------------------------------------------------------
(* Control flow of a coroutine: it may move when nobody else has the       *)
(* processor; it keeps it (Goto) or gives it up at an await (Yield).       *)

MayRun(p) == current \in {None, p}
At(p, l) == pc[p] = l /\ MayRun(p)
Goto(p, l) == pc' = [pc EXCEPT ![p] = l] /\ current' = p
Yield(p, l) == pc' = [pc EXCEPT ![p] = l] /\ current' = None
Hold(p, e) == held' = [held EXCEPT ![p] = e]
\* `async with self._launch_lock': no suspension when the lock is free.
AwaitLock(p) == /\ pc' = [pc EXCEPT ![p] = "lock"]
                /\ current' = IF launch_lock = None THEN p ELSE None

\* _persist: the entry's fields, with status s, become its row.
Persist(e, s) == rows' = [rows EXCEPT ![EntrySid[e]] = [Row(e) EXCEPT !.status = s]]
SetStatus(e, s) == status' = [status EXCEPT ![e] = s] /\ Persist(e, s)

\* _enqueue, on the queue q.
Enqueue(sid, q) ==
    IF schedules[sid] = None \/ Contains(q, sid)
    THEN queue' = q /\ UNCHANGED <<status, rows>>
    ELSE queue' = Append(q, sid) /\ SetStatus(schedules[sid], "queued")

\* t.cancel() on those of the tasks that are not done.
CancelTasks(tasks) ==
    cancel' = [p \in Drainers |-> cancel[p] \/ (p \in tasks /\ pc[p] # "free")]

TypeRunning(e) == running_tasks[type[e]] # None
ConflictingReversed(e) ==                                           \* mutated
    \E t \in TaskTypes : type[e] \in mutex_with[t] /\ running_tasks[t] # None
Conflicting(e) == \E t \in mutex_with[type[e]] : running_tasks[t] # None
\* _check_busy_flag: a flag with a live hunt behind it blocks the launch,
\* any other one is cleared on the way.
BusyFlagNeverStale(e) == type[e] \in BusyTypes /\ hunt_running     \* mutated
BusyFlagActive(e) == type[e] \in BusyTypes /\ hunt_running /\ hunt
ClearStaleFlag(e) == hunt_running' = (hunt_running /\ (type[e] \in BusyTypes => hunt))

\* create_task(self._run_with_tracking(sid)) and its registration, which the
\* launcher p follows by going on to l.
Launch(p, e, l) ==
    \E i \in FreshTasks :
        /\ SetStatus(e, "running")
        /\ running_tasks' = [running_tasks EXCEPT ![type[e]] = i]
        /\ pc' = [pc EXCEPT ![p] = l, ![i] = "created"]
        /\ held' = [held EXCEPT ![p] = None, ![i] = e]

-----------------------------------------------------------------------------
(* _drain_queue and _try_launch, run by the tick loop and by every task    *)
(* that finishes.                                                          *)

BeginDrain(p) ==
    IF queue = <<>> \/ stopped \/ paused
    THEN Yield(p, "free") /\ UNCHANGED todo
    ELSE Goto(p, "drain") /\ todo' = [todo EXCEPT ![p] = queue]

NextQueuedHead(p) == todo' = [todo EXCEPT ![p] = Head(@)]          \* mutated
NextQueued(p) == todo' = [todo EXCEPT ![p] = Tail(@)]

DrainGone(p) ==
    /\ At(p, "drain") /\ todo[p] # <<>>
    /\ schedules[Head(todo[p])] = None
    /\ queue' = RemoveFirst(queue, Head(todo[p]))
    /\ NextQueued(p) /\ Goto(p, "drain")
    /\ UNCHANGED <<schedules, entryVars, rows, running_tasks, pauseVars, stopped,
                   launch_lock, huntVars, held, job, cancel, snapshot>>

DrainBlocked(p) ==
    /\ At(p, "drain") /\ todo[p] # <<>>
    /\ LET e == schedules[Head(todo[p])] IN e # None /\ TypeRunning(e)
    /\ NextQueued(p) /\ Goto(p, "drain")
    /\ UNCHANGED <<schedules, entryVars, rows, queue, running_tasks, pauseVars, stopped,
                   launch_lock, huntVars, held, job, cancel, snapshot>>

DrainTry(p) ==
    /\ At(p, "drain") /\ todo[p] # <<>>
    /\ LET e == schedules[Head(todo[p])] IN
        e # None /\ ~TypeRunning(e) /\ Hold(p, e)
    /\ NextQueued(p) /\ AwaitLock(p)
    /\ UNCHANGED <<schedules, entryVars, rows, queue, running_tasks, pauseVars, stopped,
                   launch_lock, huntVars, job, cancel, snapshot>>

DrainDone(p) ==
    /\ At(p, "drain") /\ todo[p] = <<>>
    /\ Yield(p, "free")
    /\ UNCHANGED <<schedules, entryVars, rows, queue, running_tasks, pauseVars, stopped,
                   launch_lock, huntVars, held, job, todo, cancel, snapshot>>

\* A blocked task stays queued.
BlockedDropped(p) ==                                                \* mutated
    queue' = RemoveFirst(queue, EntrySid[held[p]]) /\ Hold(p, None) /\ Goto(p, "drain")
Blocked(p) == UNCHANGED queue /\ Hold(p, None) /\ Goto(p, "drain")

HasLock(p) == At(p, "lock") /\ launch_lock = None /\ p \in Drainers /\ ~cancel[p]

TryBlocked(p) ==
    /\ HasLock(p)
    /\ LET e == held[p] IN
        \/ /\ TypeRunning(e) \/ BusyFlagActive(e)
           /\ UNCHANGED hunt_running
        \/ /\ ~TypeRunning(e) /\ ~BusyFlagActive(e) /\ Conflicting(e)
           /\ ClearStaleFlag(e)
    /\ Blocked(p)
    /\ UNCHANGED <<schedules, entryVars, rows, running_tasks, pauseVars, stopped,
                   launch_lock, hunt, job, todo, cancel, snapshot>>

MayLaunchTwice(e) == ~BusyFlagActive(e) /\ ~Conflicting(e)          \* mutated
MayLaunchInConflict(e) == ~TypeRunning(e) /\ ~BusyFlagActive(e)     \* mutated
MayLaunch(e) == ~TypeRunning(e) /\ ~BusyFlagActive(e) /\ ~Conflicting(e)

TryProbe(p) ==
    /\ HasLock(p) /\ MayLaunch(held[p]) /\ type[held[p]] \in NetTypes
    /\ ClearStaleFlag(held[p])
    /\ launch_lock' = p /\ Yield(p, "net")
    /\ UNCHANGED <<schedules, entryVars, rows, queue, running_tasks, pauseVars, stopped,
                   hunt, held, job, todo, cancel, snapshot>>

\* The launch, and the pop of the id in _drain_queue.
LaunchQueued(p) ==
    /\ Launch(p, held[p], "drain") /\ current' = p
    /\ queue' = RemoveFirst(queue, EntrySid[held[p]])
    /\ UNCHANGED <<schedules, type, enabled, pauseVars, stopped, hunt, job, todo,
                   cancel, snapshot>>

TryLaunchOffline(p) ==
    /\ HasLock(p) /\ MayLaunch(held[p]) /\ type[held[p]] \notin NetTypes
    /\ ClearStaleFlag(held[p])
    /\ LaunchQueued(p) /\ UNCHANGED launch_lock

Release == launch_lock' = None

NetAlive(p) ==
    /\ At(p, "net") /\ ~cancel[p]
    /\ LaunchQueued(p) /\ Release /\ UNCHANGED hunt_running

NetDead(p) ==
    /\ At(p, "net") /\ ~cancel[p]
    /\ "blip" \in Ops
    /\ Release /\ Blocked(p)
    /\ UNCHANGED <<schedules, entryVars, rows, running_tasks, pauseVars, stopped,
                   huntVars, job, todo, cancel, snapshot>>

Drain(p) == \/ DrainGone(p) \/ DrainBlocked(p) \/ DrainTry(p) \/ DrainDone(p)
            \/ TryBlocked(p) \/ TryProbe(p) \/ TryLaunchOffline(p)
            \/ NetAlive(p) \/ NetDead(p)

-----------------------------------------------------------------------------
(* _run_with_tracking: a task from its creation to the drain it ends with. *)

\* A task cancelled before its first step never runs its body.
EndUnstarted(i) ==
    /\ At(i, "created") /\ (cancel[i] \/ schedules[EntrySid[held[i]]] = None)
    /\ Yield(i, "free") /\ Hold(i, None) /\ cancel' = [cancel EXCEPT ![i] = FALSE]
    /\ UNCHANGED <<schedules, entryVars, rows, queue, running_tasks, pauseVars, stopped,
                   launch_lock, huntVars, job, todo, snapshot>>

\* The entry is looked up by id once more; the executor is chosen by its type.
Start(i) ==
    /\ At(i, "created") /\ ~cancel[i]
    /\ LET e == schedules[EntrySid[held[i]]] IN
        /\ e # None
        /\ Hold(i, e) /\ job' = [job EXCEPT ![i] = type[e]]
    /\ Yield(i, "executing")
    /\ UNCHANGED <<schedules, entryVars, rows, queue, running_tasks, pauseVars, stopped,
                   launch_lock, huntVars, todo, cancel, snapshot>>

UnregisterNever(e) == UNCHANGED running_tasks                       \* mutated
\* By the type the entry has by now.
Unregister(e) == running_tasks' = [running_tasks EXCEPT ![type[e]] = None]

\* The executor returns, fails or is cancelled; then the finally block.
Finish(i) ==
    /\ At(i, "executing") /\ Cardinality(Draining) < MaxDrains
    /\ SetStatus(held[i], "rest")
    /\ Unregister(held[i])
    /\ Hold(i, None) /\ job' = [job EXCEPT ![i] = None]
    /\ cancel' = [cancel EXCEPT ![i] = FALSE]
    /\ BeginDrain(i)
    /\ UNCHANGED <<schedules, type, enabled, queue, pauseVars, stopped, launch_lock,
                   huntVars, snapshot>>

\* `async with' gives the lock back, whoever is cancelled inside it.
GivesBackNever(p) == UNCHANGED launch_lock                          \* mutated
GivesBack(p) == launch_lock' = IF launch_lock = p THEN None ELSE launch_lock

\* A cancellation that reaches a coroutine suspended in its drain, or the
\* tick loop anywhere.
Abort(p) ==
    /\ current = None /\ cancel[p]
    /\ IF p = Loop THEN pc[p] # "ended" ELSE pc[p] \in {"lock", "net"}
    /\ Yield(p, IF p = Loop THEN "ended" ELSE "free")
    /\ GivesBack(p)
    /\ Hold(p, None) /\ todo' = [todo EXCEPT ![p] = <<>>]
    /\ cancel' = [cancel EXCEPT ![p] = FALSE]
    /\ snapshot' = IF p = Loop THEN [snapshot EXCEPT ![Loop] = NoTasks] ELSE snapshot
    /\ UNCHANGED <<schedules, entryVars, rows, queue, running_tasks, pauseVars, stopped,
                   huntVars, job>>

Task(i) == EndUnstarted(i) \/ Start(i) \/ Finish(i)

-----------------------------------------------------------------------------
(* _run_loop and _internet_gate.                                           *)

TickUnlessPaused == IF paused' THEN Yield(Loop, "free") ELSE Goto(Loop, "visit")

\* With a pause that is not the gate's own, a tick does nothing.
Tick ==
    /\ At(Loop, "free") /\ ~cancel[Loop] /\ (paused => paused_by_internet)
    /\ Yield(Loop, "gate")
    /\ UNCHANGED <<schedules, entryVars, rows, queue, running_tasks, pauseVars, stopped,
                   launch_lock, huntVars, held, job, todo, cancel, snapshot>>

LiftAnyPause == paused_by_internet' = FALSE /\ paused' = FALSE      \* mutated
LiftPauseOnly ==                                                    \* mutated
    UNCHANGED paused_by_internet /\ paused' = (paused /\ ~paused_by_internet)
LiftInternetPause ==
    paused_by_internet' = FALSE /\ paused' = (paused /\ ~paused_by_internet)

GateUp ==
    /\ At(Loop, "gate") /\ ~cancel[Loop]
    /\ LiftInternetPause
    /\ TickUnlessPaused
    /\ UNCHANGED <<schedules, entryVars, rows, queue, running_tasks, paused_by_hunt,
                   stopped, launch_lock, huntVars, held, job, todo, cancel, snapshot>>

CheckTasks == [t \in TaskTypes |-> IF t \in NetTypes THEN running_tasks[t] ELSE None]

GateDown ==
    /\ At(Loop, "gate") /\ ~cancel[Loop] /\ "outage" \in Ops
    /\ IF paused_by_internet
       THEN UNCHANGED <<paused, paused_by_internet, cancel, snapshot>> /\ TickUnlessPaused
       ELSE /\ paused_by_internet' = TRUE /\ paused' = TRUE
            /\ snapshot' = [snapshot EXCEPT ![Loop] = CheckTasks]
            /\ CancelTasks({CheckTasks[t] : t \in TaskTypes})
            /\ Yield(Loop, IF CheckTasks = NoTasks THEN "free" ELSE "gather")
    /\ UNCHANGED <<schedules, entryVars, rows, queue, running_tasks, paused_by_hunt,
                   stopped, launch_lock, huntVars, held, job, todo>>

Gathered(p) == At(p, "gather") /\ \A i \in Awaited(p) : pc[i] = "free"

PoppedNone == running_tasks                                         \* mutated
\* The types of the snapshot are popped, whatever they map to by now.
Popped == [t \in TaskTypes |-> IF snapshot[Loop][t] = None THEN running_tasks[t] ELSE None]

GateGathered ==
    /\ Gathered(Loop) /\ ~cancel[Loop]
    /\ running_tasks' = Popped
    /\ snapshot' = [snapshot EXCEPT ![Loop] = NoTasks]
    /\ UNCHANGED pauseVars /\ TickUnlessPaused
    /\ UNCHANGED <<schedules, entryVars, rows, queue, stopped, launch_lock, huntVars,
                   held, job, todo, cancel>>

LoopVisit(sid) ==
    /\ At(Loop, "visit") /\ schedules[sid] # None /\ ~Queued(sid)
    /\ enabled[schedules[sid]] /\ ~TypeRunning(schedules[sid])
    /\ Enqueue(sid, queue)
    /\ UNCHANGED <<schedules, type, enabled, running_tasks, pauseVars, stopped,
                   launch_lock, huntVars, procVars, snapshot>>

LoopDrain ==
    /\ At(Loop, "visit") /\ BeginDrain(Loop)
    /\ UNCHANGED <<schedules, entryVars, rows, queue, running_tasks, pauseVars, stopped,
                   launch_lock, huntVars, held, job, cancel, snapshot>>

LoopGoesOn == Tick \/ GateUp \/ GateDown \/ GateGathered \/ LoopDrain
TheLoop == LoopGoesOn \/ \E sid \in Sids : LoopVisit(sid)

-----------------------------------------------------------------------------
(* trigger_now, the "Run now" button.                                      *)

\* From the busy flag on: queue the schedule, or go for the lock.
TriggerChecked(p, e) ==
    LET sid == EntrySid[e] IN
    /\ UNCHANGED launch_lock
    /\ IF BusyFlagActive(e) THEN UNCHANGED hunt_running ELSE ClearStaleFlag(e)
    /\ IF BusyFlagActive(e) THEN Enqueue(sid, queue)
       ELSE IF Conflicting(e) THEN Enqueue(sid, RemoveFirst(queue, sid))
       ELSE queue' = RemoveFirst(queue, sid) /\ UNCHANGED <<status, rows>>
    /\ IF BusyFlagActive(e) \/ Conflicting(e)
       THEN Yield(p, "free") /\ Hold(p, None)
       ELSE AwaitLock(p) /\ Hold(p, e)

TriggerNow(p, sid) ==
    /\ At(p, "free") /\ current = None /\ pc[Stopper] # "ended"
    /\ LET e == schedules[sid] IN
        /\ e # None /\ ~TypeRunning(e)
        /\ IF type[e] \in NetTypes
           THEN /\ Hold(p, e) /\ Yield(p, "net")
                /\ UNCHANGED <<status, rows, queue, launch_lock, hunt_running>>
           ELSE TriggerChecked(p, e)
    /\ UNCHANGED <<schedules, type, enabled, running_tasks, pauseVars, stopped, hunt,
                   job, todo, cancel, snapshot>>

TriggerAlive(p) ==
    /\ At(p, "net") /\ TriggerChecked(p, held[p])
    /\ UNCHANGED <<schedules, type, enabled, running_tasks, pauseVars, stopped, hunt,
                   job, todo, cancel, snapshot>>

TriggerDead(p) ==
    /\ At(p, "net") /\ "blip" \in Ops
    /\ Hold(p, None) /\ Yield(p, "free")
    /\ UNCHANGED <<schedules, entryVars, rows, queue, running_tasks, pauseVars, stopped,
                   launch_lock, huntVars, job, todo, cancel, snapshot>>

NeverRunning(e) == FALSE                                            \* mutated
\* Under the lock only the schedule's own type is looked at again.
AlreadyRunning(e) == TypeRunning(e)

TriggerLaunch(p) ==
    /\ At(p, "lock") /\ launch_lock = None
    /\ IF AlreadyRunning(held[p])
       THEN Yield(p, "free") /\ Hold(p, None) /\ UNCHANGED <<status, rows, running_tasks>>
       ELSE Launch(p, held[p], "free") /\ current' = None
    /\ UNCHANGED <<schedules, type, enabled, queue, pauseVars, stopped, launch_lock,
                   huntVars, job, todo, cancel, snapshot>>

Trigger(p) == \/ \E sid \in Sids : TriggerNow(p, sid)
              \/ TriggerAlive(p) \/ TriggerDead(p) \/ TriggerLaunch(p)

-----------------------------------------------------------------------------
(* The operator's requests, each of them one piece of code without an      *)
(* await: `async with self._lock' never suspends, for no holder does.      *)

Request(op) == op \in Ops /\ current = None /\ pc[Stopper] # "ended"

PauseAll ==
    /\ Request("pause") /\ paused' = TRUE
    /\ UNCHANGED <<schedules, entryVars, rows, queue, running_tasks, paused_by_internet,
                   paused_by_hunt, stopped, launch_lock, huntVars, procVars, snapshot>>

ResumeAll ==
    /\ Request("pause") /\ paused' = FALSE
    /\ UNCHANGED <<schedules, entryVars, rows, queue, running_tasks, paused_by_internet,
                   paused_by_hunt, stopped, launch_lock, huntVars, procVars, snapshot>>

CancelRunning(sid) ==
    /\ Request("cancel") /\ schedules[sid] # None
    /\ \/ /\ Queued(sid)
          /\ queue' = RemoveFirst(queue, sid) /\ SetStatus(schedules[sid], "rest")
          /\ UNCHANGED cancel
       \/ /\ ~Queued(sid) /\ TypeRunning(schedules[sid])
          /\ CancelTasks({running_tasks[type[schedules[sid]]]})
          /\ UNCHANGED <<queue, status, rows>>
    /\ UNCHANGED <<schedules, type, enabled, running_tasks, pauseVars, stopped,
                   launch_lock, huntVars, pc, held, job, todo, current, snapshot>>

UpdateType(sid, t) ==
    /\ Request("retype") /\ schedules[sid] # None
    /\ type' = [type EXCEPT ![schedules[sid]] = t]
    /\ rows' = [rows EXCEPT ![sid] = [Row(schedules[sid]) EXCEPT !.type = t]]
    /\ UNCHANGED <<schedules, enabled, status, queue, running_tasks, pauseVars, stopped,
                   launch_lock, huntVars, procVars, snapshot>>

\* toggle_schedule, and update_schedule of `enabled'.
Toggle(sid) ==
    /\ Request("toggle") /\ schedules[sid] # None
    /\ LET e == schedules[sid] IN
        /\ enabled' = [enabled EXCEPT ![e] = ~@]
        /\ rows' = [rows EXCEPT ![sid] = [Row(e) EXCEPT !.enabled = ~enabled[e]]]
        /\ queue' = IF enabled[e] THEN RemoveFirst(queue, sid) ELSE queue
    /\ UNCHANGED <<schedules, type, status, running_tasks, pauseVars, stopped,
                   launch_lock, huntVars, procVars, snapshot>>

\* The queue is not touched.
Delete(sid) ==
    /\ Request("delete") /\ schedules[sid] # None
    /\ schedules' = [schedules EXCEPT ![sid] = None]
    /\ rows' = [rows EXCEPT ![sid] = None]
    /\ UNCHANGED <<entryVars, queue, running_tasks, pauseVars, stopped, launch_lock,
                   huntVars, procVars, snapshot>>

NewEntry(e, t) ==
    /\ type' = [type EXCEPT ![e] = t] /\ enabled' = [enabled EXCEPT ![e] = TRUE]
    /\ status' = [status EXCEPT ![e] = "rest"]

Add(sid, t) ==
    /\ Request("add") /\ schedules[sid] = None
    /\ \E e \in FreeEntries(sid) :
        /\ schedules' = [schedules EXCEPT ![sid] = e] /\ NewEntry(e, t)
    /\ rows' = [rows EXCEPT ![sid] = [DefaultRow(sid) EXCEPT !.type = t]]
    /\ UNCHANGED <<queue, running_tasks, pauseVars, stopped, launch_lock, huntVars,
                   procVars, snapshot>>

-----------------------------------------------------------------------------
(* The manual hunt (manual_hunt.py) as far as the scheduler is concerned:  *)
(* pause_all, cancel_all, the hunt, and the resume when it ends.           *)

HuntBegin ==
    /\ Request("hunt") /\ pc[Hunter] = "free" /\ ~hunt
    /\ paused' = TRUE /\ queue' = <<>>
    /\ snapshot' = [snapshot EXCEPT ![Hunter] = running_tasks]
    /\ CancelTasks(Registered)
    /\ IF running_tasks = NoTasks THEN Goto(Hunter, "gather") ELSE Yield(Hunter, "gather")
    /\ UNCHANGED <<schedules, entryVars, rows, running_tasks, paused_by_internet,
                   paused_by_hunt, stopped, launch_lock, huntVars, held, job, todo>>

SweptKept == rows                                                   \* mutated
Swept == [sid \in Sids |->
    IF schedules[sid] # None /\ status[schedules[sid]] # "rest"
    THEN [Row(schedules[sid]) EXCEPT !.status = "rest"] ELSE rows[sid]]

\* The end of cancel_all: the dict is cleared, every waiting status reset.
HuntReady ==
    /\ Gathered(Hunter)
    /\ running_tasks' = NoTasks
    /\ snapshot' = [snapshot EXCEPT ![Hunter] = NoTasks]
    /\ status' = [e \in Entries |->
            IF \E sid \in Sids : schedules[sid] = e THEN "rest" ELSE status[e]]
    /\ rows' = Swept
    /\ paused_by_hunt' = TRUE
    /\ \E started \in BOOLEAN : hunt_running' = started /\ hunt' = started
    /\ Yield(Hunter, "free")
    /\ UNCHANGED <<schedules, type, enabled, queue, paused, paused_by_internet, stopped,
                   launch_lock, held, job, todo, cancel>>

\* The finally block of _hunt_cycle, with _end_manual_hunt.
HuntEnd ==
    /\ hunt /\ current = None
    /\ hunt' = FALSE /\ hunt_running' = FALSE
    /\ paused_by_hunt' = FALSE /\ paused' = (paused /\ ~paused_by_hunt)
    /\ UNCHANGED <<schedules, entryVars, rows, queue, running_tasks, paused_by_internet,
                   stopped, launch_lock, procVars, snapshot>>

\* stop_hunt clears the flag before the hunt's own finally block has run.
StopHunt ==
    /\ Request("hunt") /\ hunt /\ hunt_running
    /\ hunt_running' = FALSE
    /\ UNCHANGED <<schedules, entryVars, rows, queue, running_tasks, pauseVars, stopped,
                   launch_lock, hunt, procVars, snapshot>>

-----------------------------------------------------------------------------
(* Shutdown and restart.                                                   *)

StopBegin ==
    /\ Request("stop") /\ ~stopped
    /\ stopped' = TRUE /\ queue' = <<>>
    /\ cancel' = [cancel EXCEPT ![Loop] = TRUE]
    /\ Yield(Stopper, "stopping")
    /\ UNCHANGED <<schedules, entryVars, rows, running_tasks, pauseVars, launch_lock,
                   huntVars, held, job, todo, snapshot>>

StopTasks ==
    /\ At(Stopper, "stopping") /\ pc[Loop] = "ended"
    /\ snapshot' = [snapshot EXCEPT ![Stopper] = running_tasks]
    /\ CancelTasks(Registered)
    /\ IF running_tasks = NoTasks THEN Goto(Stopper, "gather") ELSE Yield(Stopper, "gather")
    /\ UNCHANGED <<schedules, entryVars, rows, queue, running_tasks, pauseVars, stopped,
                   launch_lock, huntVars, held, job, todo>>

StopEnd ==
    /\ Gathered(Stopper)
    /\ running_tasks' = NoTasks /\ queue' = <<>>
    /\ snapshot' = [snapshot EXCEPT ![Stopper] = NoTasks]
    /\ Yield(Stopper, "ended")
    /\ UNCHANGED <<schedules, entryVars, rows, pauseVars, stopped, launch_lock, huntVars,
                   held, job, todo, cancel>>

\* The process dies at any point and is started again: _load_schedules, then
\* restore_defaults.  What hunt_running was when it was last saved is open.
Restart ==
    /\ "restart" \in Ops
    /\ LET row == [sid \in Sids |-> IF rows[sid] = None /\ sid \in DefaultSids
                                    THEN DefaultRow(sid) ELSE rows[sid]]
           loaded(e) == row[EntrySid[e]] # None /\ e = FirstEntry(EntrySid[e])
       IN /\ rows' = row
          /\ schedules' = [sid \in Sids |-> IF row[sid] = None THEN None ELSE FirstEntry(sid)]
          /\ type' = [e \in Entries |-> IF loaded(e) THEN row[EntrySid[e]].type ELSE type[e]]
          /\ enabled' = [e \in Entries |-> IF loaded(e) THEN row[EntrySid[e]].enabled
                                          ELSE enabled[e]]
          /\ status' = [e \in Entries |-> IF loaded(e) THEN row[EntrySid[e]].status
                                         ELSE status[e]]
    /\ queue' = <<>> /\ running_tasks' = NoTasks
    /\ paused' = FALSE /\ paused_by_internet' = FALSE /\ paused_by_hunt' = FALSE
    /\ stopped' = FALSE /\ launch_lock' = None
    /\ hunt' = FALSE
    /\ hunt_running' \in BOOLEAN
    /\ pc' = [p \in Procs |-> "free"] /\ held' = [p \in Procs |-> None]
    /\ job' = [i \in TaskIds |-> None] /\ todo' = [p \in Drainers |-> <<>>]
    /\ cancel' = [p \in Drainers |-> FALSE]
    /\ snapshot' = [p \in {Loop, Hunter, Stopper} |-> NoTasks]
    /\ current' = None

\* restore_defaults, from the API.
RestoreDefaults ==
    LET missing == {sid \in DefaultSids : schedules[sid] = None} IN
    /\ Request("add") /\ missing # {} /\ \A sid \in missing : FreeEntries(sid) # {}
    /\ LET new == [sid \in missing |-> CHOOSE e \in FreeEntries(sid) : TRUE]
           isNew(e) == EntrySid[e] \in missing /\ new[EntrySid[e]] = e
       IN /\ schedules' = [sid \in Sids |-> IF sid \in missing THEN new[sid] ELSE schedules[sid]]
          /\ type' = [e \in Entries |-> IF isNew(e) THEN InitType[EntrySid[e]] ELSE type[e]]
          /\ enabled' = [e \in Entries |-> isNew(e) \/ enabled[e]]
          /\ status' = [e \in Entries |-> IF isNew(e) THEN "rest" ELSE status[e]]
    /\ rows' = [sid \in Sids |-> IF sid \in missing THEN DefaultRow(sid) ELSE rows[sid]]
    /\ UNCHANGED <<queue, running_tasks, pauseVars, stopped, launch_lock, huntVars,
                   procVars, snapshot>>

-----------------------------------------------------------------------------
Schedule(sid) ==
    \/ CancelRunning(sid) \/ Toggle(sid) \/ Delete(sid)
    \/ \E t \in TaskTypes : UpdateType(sid, t) \/ Add(sid, t)

HuntStep == HuntBegin \/ HuntReady \/ HuntEnd \/ StopHunt
StopStep == StopBegin \/ StopTasks \/ StopEnd
Operator ==
    \/ PauseAll \/ ResumeAll \/ RestoreDefaults \/ \E sid \in Sids : Schedule(sid)
    \/ HuntStep \/ StopStep \/ Restart

Next ==
    \/ TheLoop \/ Operator
    \/ \E p \in Drainers : Drain(p) \/ Abort(p)
    \/ \E i \in TaskIds : Task(i)
    \/ \E p \in Triggers : Trigger(p)

Spec == Init /\ [][Next]_vars

(* Fairness: the event loop's ready queue and the waiters of asyncio.Lock  *)
(* are first come first served, so a coroutine that can go on again and    *)
(* again does go on; executors and canary probes end (they have timeouts). *)
(* Nothing is assumed of the operator or of when a schedule falls due.     *)
Fairness ==
    /\ SF_vars(LoopGoesOn)
    /\ \A p \in Drainers : SF_vars(Drain(p))
    /\ \A i \in TaskIds : SF_vars(Task(i))
FairSpec == Spec /\ Fairness

-----------------------------------------------------------------------------
(* Properties.                                                             *)

\* "A task_type must never be launched twice by concurrent drains"
\* (tests/test_scheduler_guard.py): no two executors of one type at once.
OnePerType ==
    \A i, j \in TaskIds : i # j /\ job[i] # None => job[i] # job[j]

\* What get_status and list_schedules report, and what every launch check
\* reads, is the truth: a task that is going to run or runs is registered ...
LiveIsRegistered ==
    \A i \in TaskIds : pc[i] \in {"created", "executing"} => i \in Registered
\* ... and what is registered is still to run, or runs, or is about to be
\* swept by whoever cancelled it; a type with a stuck registration would
\* never be launched again.
RegisteredIsLive ==
    \A t \in TaskTypes : running_tasks[t] # None =>
        \/ pc[running_tasks[t]] \in {"created", "executing"}
        \/ \E p \in {Loop, Hunter, Stopper} : running_tasks[t] \in Awaited(p)

\* Types that exclude each other (mutex_with) are never registered together.
MutexHolds ==
    \A t, u \in TaskTypes :
        t # u /\ u \in mutex_with[t] /\ t \in mutex_with[u] /\ running_tasks[t] # None
            => running_tasks[u] = None

\* No launch replaces the registration of a task that has not given it up.
NoOverwrite ==
    [][\A t \in TaskTypes : running_tasks[t] # None =>
          running_tasks'[t] \in {running_tasks[t], None}]_vars

\* The registrations behave as TaskSlots promises: a type is launched only
\* while it has no task and no type it excludes has one.
Slots == INSTANCE TaskSlots WITH running <- {t \in TaskTypes : running_tasks[t] # None}
ImplementsSlots == Slots!Spec

\* "a queued task is never silently dropped" (_drain_queue): a schedule that
\* says it is queued is in the queue, or "Run now" is about to launch it.
QueuedIsKept ==
    \A sid \in Sids : LET e == schedules[sid] IN
        e # None /\ status[e] = "queued" =>
            Queued(sid) \/ \E p \in Triggers : held[p] = e

\* The table holds every schedule as it is now: a crash loses none of it.
RowsCurrent ==
    \A sid \in Sids : schedules[sid] # None => rows[sid] = Row(schedules[sid])

\* "The whole decision below is atomic" (_try_launch): when a drain launches
\* a schedule it is still queued, the scheduler is not paused or stopped, and
\* no exclusive type and no hunt is in its way.
Launching(p) == pc[p] \in {"lock", "net"} /\ running_tasks' # running_tasks /\ held'[p] = None
DecisionIsAtomic ==
    [][\A p \in Drainers : Launching(p) =>
          /\ Queued(EntrySid[held[p]]) /\ ~paused /\ ~stopped
          /\ MayLaunch(held[p])]_vars

\* While the gate holds the scheduler paused for want of internet, it is paused.
InternetPauseHolds == paused_by_internet => paused
\* "A manual/user pause (or the exclusive manual-hunt pause) is never
\* overridden" (_internet_gate): only the hunt's end lifts its pause.
HuntPauseIsKept ==
    [][paused_by_hunt /\ paused /\ paused_by_hunt' => paused']_vars

\* The launch lock is never left behind: it is kept by a drain that waits for the
\* canary, which has a timeout, and by nobody else; all launches would stop for good.
LockHasHolder == launch_lock # None => launch_lock \in Drainers /\ pc[launch_lock] = "net"

\* Every queued schedule is eventually launched.
QueuedGetsLaunched == \A sid \in Sids : Queued(sid) ~> ~Queued(sid)
=============================================================================
