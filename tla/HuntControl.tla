----------------------------- MODULE HuntControl -----------------------------
(***************************************************************************)
(* The hunt of huntproxy and what the operator, the canary and the health  *)
(* check do to it (hunt_control.py, manual_hunt.py, hunt_cycle.py, the     *)
(* pausing part of health_check.py, canary.py and handlers/hunt.py).       *)
(*                                                                         *)
(* All of it runs on one asyncio event loop.  A step is a piece of code    *)
(* between two awaits; `current' names a coroutine that goes on without    *)
(* one.  A hunt passes its stages in order; within a stage it waits for a  *)
(* group of tasks (`gathered') or for the skip button.  What those tasks   *)
(* do is left open here: they may be done at any time.                     *)
(***************************************************************************)
EXTENDS FiniteSets

CONSTANTS
    Hunts,          \* asyncio.Tasks that run _hunt_cycle (bound: at once)
    Starters,       \* concurrent requests of /hunt/start (bound)
    Rechecks,       \* health checks asked for by the operator (bound)
    Scheduled,      \* health checks run by the scheduler (bound)
    Ops,            \* the operator's and the environment's moves enabled
    None

Healths == Rechecks \cup Scheduled
Procs == Hunts \cup Starters \cup Healths
AllOps == {"again", "pause", "stop", "skip", "recheck", "schedule", "canary",
           "fail", "check", "timeout"}
Stages == {"download", "iplists", "lists", "validate"}
Phases == {"idle", "download", "blacklist", "validate", "paused", "health", "done"}
Locations == Stages \cup {"free", "created", "resume", "woken",
                          "probe", "health", "task", "sweep", "settle", "checks"}

ASSUME HuntProcs ==
    /\ None \notin Procs
    /\ Hunts \cap (Starters \cup Healths) = {} /\ Starters \cap Healths = {}
    /\ Rechecks \cap Scheduled = {}
ASSUME HuntOps == Ops \subseteq AllOps

VARIABLES
    phase, phase_before_pause,
    paused, manual_pause,       \* _paused, _manual_pause
    pause_event,                \* _pause_event is set
    internet_suspect,           \* _internet_suspect
    skip_event,                 \* _skip_event is set
    hunt_running,               \* _hunt_running, the scheduler's busy flag
    task, canary_task, health_task,     \* references to tasks
    health_running,             \* _health_running
    scheduler_paused,           \* scheduler._paused
    paused_by_hunt,             \* _scheduler_paused_by_hunt
    pc,             \* where each coroutine is suspended ("free": not there)
    cancel,         \* tasks with a cancel() not delivered yet
    gathered,       \* hunts whose stage has nothing left to wait for
    canaries,       \* hunts whose canary loop is alive
    awaited,        \* the task a start request waits for
    saved,          \* what a health check has saved of the hunt
    current         \* the coroutine that has the processor

pauseVars == <<paused, manual_pause, pause_event, internet_suspect>>
phaseVars == <<phase, phase_before_pause>>
huntVars == <<hunt_running, task, canary_task, canaries, gathered>>
healthVars == <<health_running, health_task, saved>>
schedulerVars == <<scheduler_paused, paused_by_hunt>>
controlVars == <<phaseVars, pauseVars, huntVars, healthVars, schedulerVars,
                 skip_event, pc, cancel, awaited, current>>

-----------------------------------------------------------------------------
Alive(p) == pc[p] # "free"
TaskAlive == task # None /\ Alive(task)         \* task and not task.done()
FreshHunts == {h \in Hunts : /\ ~Alive(h) /\ h \notin canaries
                             /\ \A s \in Starters : awaited[s] # h}
SavedType == [phase : Phases, paused : BOOLEAN, active : BOOLEAN]
NothingSaved == [phase |-> "idle", paused |-> FALSE, active |-> FALSE]

ControlTypeOK ==
    /\ phase \in Phases /\ phase_before_pause \in Phases
    /\ paused \in BOOLEAN /\ manual_pause \in BOOLEAN
    /\ pause_event \in BOOLEAN /\ internet_suspect \in BOOLEAN
    /\ skip_event \in BOOLEAN /\ hunt_running \in BOOLEAN
    /\ task \in Hunts \cup {None} /\ canary_task \in Hunts \cup {None}
    /\ health_task \in Rechecks \cup {None} /\ health_running \in BOOLEAN
    /\ scheduler_paused \in BOOLEAN /\ paused_by_hunt \in BOOLEAN
    /\ pc \in [Procs -> Locations] /\ cancel \subseteq Procs
    /\ gathered \subseteq Hunts /\ canaries \subseteq Hunts
    /\ awaited \in [Starters -> Hunts \cup Rechecks \cup {None}]
    /\ saved \in [Healths -> SavedType]
    /\ current \in Procs \cup {None}

ControlInit ==
    /\ phase = "idle" /\ phase_before_pause = "done"
    /\ paused = FALSE /\ manual_pause = FALSE
    /\ pause_event = TRUE /\ internet_suspect = FALSE /\ skip_event = FALSE
    /\ hunt_running = FALSE
    /\ task = None /\ canary_task = None /\ health_task = None
    /\ health_running = FALSE
    /\ scheduler_paused = FALSE /\ paused_by_hunt = FALSE
    /\ pc = [p \in Procs |-> "free"] /\ cancel = {}
    /\ gathered = {} /\ canaries = {}
    /\ awaited = [s \in Starters |-> None]
    /\ saved = [c \in Healths |-> NothingSaved]
    /\ current = None

-----------------------------------------------------------------------------
MayRun(p) == current \in {None, p}
At(p, l) == pc[p] = l /\ MayRun(p)
Goto(p, l) == pc' = [pc EXCEPT ![p] = l] /\ current' = p
Yield(p, l) == pc' = [pc EXCEPT ![p] = l] /\ current' = None
Idle == current = None                  \* the event loop takes a new request

\* The waiters of _pause_event.wait(), once set() is called.
Woken(at) == [p \in Procs |-> IF at[p] = "resume" THEN "woken" ELSE at[p]]
\* _paused = _manual_pause = False and _pause_event.set(), the wake-up apart.
UnpauseSilently ==                                                  \* mutated
    paused' = FALSE /\ manual_pause' = FALSE /\ UNCHANGED pause_event
Unpause == paused' = FALSE /\ manual_pause' = FALSE /\ pause_event' = TRUE

\* pause_hunt, where it does not return False.
MayPause == ~paused /\ TaskAlive
PauseHunt(manual) ==
    /\ paused' = TRUE /\ manual_pause' = manual /\ pause_event' = FALSE
    /\ phase_before_pause' = phase /\ phase' = "paused"
    /\ UNCHANGED internet_suspect

\* resume_hunt, where it does not return False.
MayResume(manual) == paused /\ (manual_pause => manual)
ResumeHunt ==
    /\ Unpause /\ internet_suspect' = FALSE
    /\ phase' = IF phase = "paused" THEN phase_before_pause ELSE phase
    /\ pc' = Woken(pc)
    /\ UNCHANGED <<phase_before_pause, current>>

-----------------------------------------------------------------------------
(* manual_start_hunt: one request from the probe of the internet to the    *)
(* new hunt.                                                               *)

Press(s) ==
    /\ Idle /\ At(s, "free") /\ ("again" \in Ops \/ ~TaskAlive)
    /\ Yield(s, "probe")
    /\ UNCHANGED <<phaseVars, pauseVars, huntVars, healthVars, schedulerVars,
                   skip_event, cancel, awaited>>

NoInternet(s) ==
    /\ At(s, "probe") /\ "canary" \in Ops
    /\ Yield(s, "free")
    /\ UNCHANGED <<phaseVars, pauseVars, huntVars, healthVars, schedulerVars,
                   skip_event, cancel, awaited>>

AbortHealth(s) ==
    /\ At(s, "probe")
    /\ IF health_task # None /\ Alive(health_task)
       THEN /\ cancel' = cancel \cup {health_task}
            /\ awaited' = [awaited EXCEPT ![s] = health_task]
            /\ Yield(s, "health")
       ELSE Goto(s, "health") /\ UNCHANGED <<cancel, awaited>>
    /\ UNCHANGED <<phaseVars, pauseVars, huntVars, healthVars, schedulerVars, skip_event>>

\* What the request waits for is done.
NeverWaits(s) == TRUE                                               \* mutated
Arrived(s) == awaited[s] # None => ~Alive(awaited[s])

AbortHunt(s) ==
    /\ At(s, "health") /\ Arrived(s)
    /\ health_task' = None /\ health_running' = FALSE
    /\ IF TaskAlive
       THEN /\ cancel' = cancel \cup {task}
            /\ awaited' = [awaited EXCEPT ![s] = task]
            /\ Yield(s, "task")
       ELSE /\ awaited' = [awaited EXCEPT ![s] = None]
            /\ Goto(s, "task") /\ UNCHANGED cancel
    /\ UNCHANGED <<phaseVars, pauseVars, huntVars, saved, schedulerVars, skip_event>>

\* pause_all and cancel_all of the scheduler; whether it has other tasks to
\* wait for is left open.
SweepScheduler(s) ==
    /\ At(s, "task") /\ Arrived(s)
    /\ task' = None /\ awaited' = [awaited EXCEPT ![s] = None]
    /\ scheduler_paused' = TRUE
    /\ LET running == {c \in Scheduled : Alive(c)} IN
        /\ cancel' = cancel \cup running
        /\ \/ Yield(s, "sweep")
           \/ running = {} /\ Goto(s, "sweep")
    /\ UNCHANGED <<phaseVars, pauseVars, hunt_running, canary_task, canaries, gathered,
                   healthVars, paused_by_hunt, skip_event>>

\* _reset_progress and start_hunt, which refuses while a health check runs.
StartHunt(s) ==
    /\ At(s, "sweep") /\ \A c \in Scheduled : ~Alive(c)
    /\ paused_by_hunt' = TRUE /\ skip_event' = FALSE
    /\ phase' = "idle" /\ Unpause /\ internet_suspect' = FALSE
    /\ IF health_running
       THEN /\ hunt_running' = FALSE /\ UNCHANGED task /\ current' = None
            /\ pc' = [Woken(pc) EXCEPT ![s] = "free"]
       ELSE \E h \in FreshHunts :
                /\ hunt_running' = TRUE /\ task' = h /\ current' = None
                /\ pc' = [Woken(pc) EXCEPT ![s] = "free", ![h] = "created"]
    /\ UNCHANGED <<phase_before_pause, canary_task, canaries, gathered, healthVars,
                   scheduler_paused, cancel, awaited>>

Start(s) == \/ Press(s) \/ NoInternet(s) \/ AbortHealth(s) \/ AbortHunt(s)
            \/ SweepScheduler(s) \/ StartHunt(s)

-----------------------------------------------------------------------------
(* _hunt_cycle.                                                            *)

NeverStarted(h) ==
    /\ At(h, "created") /\ h \in cancel
    /\ Yield(h, "free") /\ cancel' = cancel \ {h}
    /\ UNCHANGED <<phaseVars, pauseVars, huntVars, healthVars, schedulerVars,
                   skip_event, awaited>>

HuntDownload(h) ==
    /\ At(h, "created") /\ h \notin cancel
    /\ canary_task' = h /\ canaries' = canaries \cup {h}
    /\ phase' = "download" /\ Yield(h, "download")
    /\ UNCHANGED <<phase_before_pause, pauseVars, hunt_running, task, gathered,
                   healthVars, schedulerVars, skip_event, cancel, awaited>>

\* The tasks of the stage are done, and the hunt does not know yet.
Gathered(h) ==
    /\ Idle /\ pc[h] \in Stages /\ h \notin gathered
    /\ gathered' = gathered \cup {h}
    /\ UNCHANGED <<phaseVars, pauseVars, hunt_running, task, canary_task, canaries,
                   healthVars, schedulerVars, skip_event, pc, cancel, awaited, current>>

\* A skip that comes too late is not reset.
ResetSkip(h) == skip_event' = (skip_event /\ h \in gathered)
MayGoOn(h, stage) ==
    At(h, stage) /\ h \notin cancel /\ (h \in gathered \/ skip_event)

StageDone(h, stage, next, ph) ==
    /\ MayGoOn(h, stage) /\ ResetSkip(h)
    /\ gathered' = gathered \ {h}
    /\ phase' = ph /\ Yield(h, next)
    /\ UNCHANGED <<phase_before_pause, pauseVars, hunt_running, task, canary_task,
                   canaries, healthVars, schedulerVars, cancel, awaited>>

HuntBlacklist(h) == StageDone(h, "download", "iplists", "blacklist")
HuntBlocklists(h) == StageDone(h, "iplists", "lists", phase)
HuntValidate(h) == StageDone(h, "lists", "validate", "validate")

\* The finally block of the cycle, which leaves it in phase ph.
Release == IF paused_by_hunt
           THEN paused_by_hunt' = FALSE /\ scheduler_paused' = FALSE
           ELSE UNCHANGED schedulerVars
ForgetCanary == canary_task' = None /\ UNCHANGED canaries           \* mutated
StopCanary == canaries' = canaries \ {canary_task} /\ canary_task' = None
EndCycle(h, ph) ==
    /\ Yield(h, "free") /\ cancel' = cancel \ {h} /\ gathered' = gathered \ {h}
    /\ hunt_running' = FALSE
    /\ StopCanary /\ phase' = ph /\ Release
    /\ UNCHANGED <<phase_before_pause, pauseVars, task, healthVars, awaited>>

\* After the validation the hunt waits for an unpaused moment, and is done.
HuntValidated(h) ==
    /\ MayGoOn(h, "validate") /\ ResetSkip(h)
    /\ IF pause_event
       THEN EndCycle(h, "done")
       ELSE /\ Yield(h, "resume") /\ gathered' = gathered \ {h}
            /\ UNCHANGED <<phaseVars, pauseVars, hunt_running, task, canary_task,
                           canaries, healthVars, schedulerVars, cancel, awaited>>

HuntDone(h) ==
    /\ At(h, "woken") /\ h \notin cancel
    /\ EndCycle(h, "done") /\ UNCHANGED skip_event

Waiting(h) == pc[h] \in Stages \cup {"resume", "woken"} /\ MayRun(h)

HuntCancelled(h) ==
    /\ Waiting(h) /\ h \in cancel
    /\ EndCycle(h, IF phase = "idle" THEN "idle" ELSE "done")
    /\ UNCHANGED skip_event

HuntFailed(h) ==
    /\ "fail" \in Ops /\ Idle /\ pc[h] \in Stages /\ h \notin cancel
    /\ EndCycle(h, "done") /\ UNCHANGED skip_event

HuntStage(h) == HuntDownload(h) \/ HuntBlacklist(h) \/ HuntBlocklists(h) \/ HuntValidate(h)
HuntExit(h) == HuntValidated(h) \/ HuntDone(h) \/ HuntCancelled(h) \/ HuntFailed(h)
Hunt(h) == NeverStarted(h) \/ Gathered(h) \/ HuntStage(h) \/ HuntExit(h)

-----------------------------------------------------------------------------
(* The canary loop of a hunt, at the end of a probe.                       *)

CanaryDown(h) ==
    /\ "canary" \in Ops /\ Idle /\ h \in canaries /\ MayPause
    /\ PauseHunt(FALSE)
    /\ UNCHANGED <<huntVars, healthVars, schedulerVars, skip_event, pc, cancel, awaited,
                   current>>

CanaryUp(h) ==
    /\ "canary" \in Ops /\ Idle /\ h \in canaries /\ MayResume(FALSE)
    /\ ResumeHunt
    /\ UNCHANGED <<huntVars, healthVars, schedulerVars, skip_event, cancel, awaited>>

-----------------------------------------------------------------------------
(* The operator's buttons.                                                 *)

OperatorPause ==
    /\ "pause" \in Ops /\ Idle /\ MayPause /\ PauseHunt(TRUE)
    /\ UNCHANGED <<huntVars, healthVars, schedulerVars, skip_event, pc, cancel, awaited,
                   current>>

OperatorResume ==
    /\ "pause" \in Ops /\ Idle /\ MayResume(TRUE) /\ ResumeHunt
    /\ UNCHANGED <<huntVars, healthVars, schedulerVars, skip_event, cancel, awaited>>

SkipPhase ==
    /\ "skip" \in Ops /\ Idle /\ TaskAlive
    /\ phase \in {"download", "blacklist", "validate"}
    /\ skip_event' = TRUE
    /\ UNCHANGED <<phaseVars, pauseVars, huntVars, healthVars, schedulerVars,
                   pc, cancel, awaited, current>>

\* stop_hunt does not wait for the hunt it cancels.
StopHunt ==
    /\ "stop" \in Ops /\ Idle
    /\ cancel' = cancel \cup (IF TaskAlive THEN {task} ELSE {})
    /\ StopCanary /\ Unpause /\ UNCHANGED internet_suspect
    /\ pc' = Woken(pc) /\ phase' = "idle" /\ hunt_running' = FALSE
    /\ UNCHANGED <<phase_before_pause, task, gathered, healthVars, schedulerVars,
                   skip_event, awaited, current>>

Buttons == OperatorPause \/ OperatorResume \/ SkipPhase \/ StopHunt

-----------------------------------------------------------------------------
(* _health_check, asked for by the operator or by the scheduler.           *)

Recheck(c) ==
    /\ "recheck" \in Ops /\ Idle /\ At(c, "free")
    /\ ~health_running /\ ~hunt_running /\ \A s \in Starters : awaited[s] # c
    /\ health_task' = c /\ Yield(c, "created")
    /\ UNCHANGED <<phaseVars, pauseVars, huntVars, health_running, saved, schedulerVars,
                   skip_event, cancel, awaited>>

\* The scheduler starts its executor unless it is paused or a hunt is running.
ScheduledCheck(c) ==
    /\ "schedule" \in Ops /\ Idle /\ At(c, "free")
    /\ ~scheduler_paused /\ ~hunt_running
    /\ Yield(c, "created")
    /\ UNCHANGED <<phaseVars, pauseVars, huntVars, healthVars, schedulerVars,
                   skip_event, cancel, awaited>>

\* A task that has not begun, or has found another health check running.
HealthRefused(c) ==
    /\ At(c, "created") /\ (c \in cancel \/ health_running)
    /\ Yield(c, "free") /\ cancel' = cancel \ {c}
    /\ UNCHANGED <<phaseVars, pauseVars, huntVars, healthVars, schedulerVars,
                   skip_event, awaited>>

\* _save_health_state, and the pause of a hunt that runs.
HealthBegin(c) ==
    /\ At(c, "created") /\ c \notin cancel /\ ~health_running
    /\ saved' = [saved EXCEPT ![c] =
                    [phase |-> phase, paused |-> paused, active |-> TaskAlive]]
    /\ IF MayPause THEN PauseHunt(TRUE) /\ Yield(c, "settle")
       ELSE Goto(c, "settle") /\ UNCHANGED <<phaseVars, pauseVars>>
    /\ UNCHANGED <<huntVars, health_running, health_task, schedulerVars, skip_event,
                   cancel, awaited>>

\* _restore_health_state.
RestoredPhase(c) == IF phase = "health" THEN saved[c].phase ELSE phase
Restores(c) == saved[c].active /\ ~saved[c].paused
Restore(c) ==
    IF Restores(c)
    THEN Unpause /\ internet_suspect' = FALSE /\ pc' = [Woken(pc) EXCEPT ![c] = "free"]
    ELSE UNCHANGED pauseVars /\ pc' = [pc EXCEPT ![c] = "free"]

HealthCancelled(c) ==
    /\ At(c, "settle") /\ c \in cancel
    /\ Yield(c, "free") /\ cancel' = cancel \ {c}
    /\ saved' = [saved EXCEPT ![c] = NothingSaved]
    /\ UNCHANGED <<phaseVars, pauseVars, huntVars, health_running, health_task,
                   schedulerVars, skip_event, awaited>>

HealthChecks(c) ==
    /\ At(c, "settle") /\ c \notin cancel
    /\ health_running' = TRUE
    /\ phase' = "health" /\ Yield(c, "checks")
    /\ UNCHANGED <<phase_before_pause, pauseVars, huntVars, health_task, saved,
                   schedulerVars, skip_event, cancel, awaited>>

HealthNothing(c) ==
    /\ At(c, "settle") /\ c \notin cancel
    /\ phase' = RestoredPhase(c) /\ Restore(c) /\ current' = None
    /\ health_running' = FALSE /\ saved' = [saved EXCEPT ![c] = NothingSaved]
    /\ UNCHANGED <<phase_before_pause, huntVars, health_task, schedulerVars, skip_event,
                   cancel, awaited>>

HealthEnd(c) ==
    /\ At(c, "checks")
    /\ phase' = RestoredPhase(c) /\ Restore(c) /\ current' = None
    /\ health_running' = FALSE /\ saved' = [saved EXCEPT ![c] = NothingSaved]
    /\ cancel' = cancel \ {c}
    /\ UNCHANGED <<phase_before_pause, huntVars, health_task, schedulerVars, skip_event,
                   awaited>>

StopHealth ==
    /\ "recheck" \in Ops /\ Idle /\ health_running
    /\ cancel' = cancel \cup ({health_task} \cap {c \in Rechecks : Alive(c)})
    /\ health_task' = None
    /\ UNCHANGED <<phaseVars, pauseVars, huntVars, health_running, saved, schedulerVars,
                   skip_event, pc, awaited, current>>

Health(c) == \/ c \in Rechecks /\ Recheck(c)
             \/ c \in Scheduled /\ ScheduledCheck(c)
             \/ HealthRefused(c) \/ HealthBegin(c) \/ HealthCancelled(c)
             \/ HealthChecks(c) \/ HealthNothing(c) \/ HealthEnd(c)

-----------------------------------------------------------------------------
ControlNext ==
    \/ \E s \in Starters : Start(s)
    \/ \E h \in Hunts : Hunt(h) \/ CanaryDown(h) \/ CanaryUp(h)
    \/ \E c \in Healths : Health(c)
    \/ Buttons \/ StopHealth
ControlSpec == ControlInit /\ [][ControlNext]_controlVars

-----------------------------------------------------------------------------
(* Properties.                                                             *)

\* A start "begins a fresh exclusive hunt" (manual_hunt.py): there is never a
\* second one.
AtMostOneHunt == \A h, g \in Hunts : Alive(h) /\ Alive(g) => h = g

\* While a hunt runs that nobody has told to stop, _hunt_running says so; the
\* scheduler relies on it to keep its own checks out of the shared counters.
FlagCoversHunt == \A h \in Hunts : Alive(h) /\ h \notin cancel => hunt_running

\* A canary loop ends with its hunt, and never pauses or resumes another one.
CanaryHasHunt == \A h \in canaries : Alive(h)

\* A hunt that waits for the pause to end can be resumed: resume_hunt refuses
\* while _paused is not set.
WaitsOnlyWhilePaused == \A h \in Hunts : pc[h] = "resume" => paused

\* "The scheduler stays paused for the whole manual hunt and is resumed by the
\* hunt cycle when it finishes" (manual_hunt.py): while it is paused for a hunt
\* there is a hunt, or a request that is about to start one.
PauseHasOwner ==
    paused_by_hunt => \/ \E h \in Hunts : Alive(h)
                      \/ \E s \in Starters : Alive(s)
=============================================================================
