--------------------------- MODULE HuntControlProofs ---------------------------
(***************************************************************************)
(* Theorems about HuntControl, for any hunts, start requests and health    *)
(* checks.  Three arguments:                                               *)
(*   - types (ControlTypeOK), which is inductive as it stands;             *)
(*   - one hunt (IndHunt), with one start request at a time: a hunt that   *)
(*     is alive is the one _hunt_task refers to, a request that is past    *)
(*     its wait for the old hunt has seen it end, and flag and canary      *)
(*     follow the hunt;                                                    *)
(*   - waits (IndWait): the pause event is clear only while _paused is     *)
(*     set, and whoever pauses or resumes writes both.                     *)
(***************************************************************************)
EXTENDS HuntControl, TLAPS

\* set() of the pause event wakes its waiters and moves nobody else.
LEMMA WokenType ==
    ASSUME ControlTypeOK
    PROVE  Woken(pc) \in [Procs -> Locations]
BY DEF Woken, ControlTypeOK, Locations

\* What pause_hunt writes is well typed.
LEMMA PauseType ==
    ASSUME ControlTypeOK, NEW manual \in BOOLEAN, PauseHunt(manual)
    PROVE  /\ paused' \in BOOLEAN /\ manual_pause' \in BOOLEAN /\ pause_event' \in BOOLEAN
           /\ internet_suspect' \in BOOLEAN /\ phase' \in Phases /\ phase_before_pause' \in Phases
BY DEF PauseHunt, ControlTypeOK, Phases

\* So is what resume_hunt writes.
LEMMA ResumeType ==
    ASSUME ControlTypeOK, ResumeHunt
    PROVE  /\ paused' \in BOOLEAN /\ manual_pause' \in BOOLEAN /\ pause_event' \in BOOLEAN
           /\ internet_suspect' \in BOOLEAN /\ phase' \in Phases /\ phase_before_pause' \in Phases
           /\ pc' \in [Procs -> Locations] /\ current' \in Procs \cup {None}
BY WokenType DEF ResumeHunt, Unpause, ControlTypeOK

\* And what _restore_health_state writes of the pause.
LEMMA RestoreType ==
    ASSUME ControlTypeOK, NEW c \in Healths, Restore(c)
    PROVE  /\ paused' \in BOOLEAN /\ manual_pause' \in BOOLEAN /\ pause_event' \in BOOLEAN
           /\ internet_suspect' \in BOOLEAN /\ pc' \in [Procs -> Locations]
BY WokenType DEF Restore, Unpause, ControlTypeOK, pauseVars, Procs, Locations

\* _restore_health_state moves nobody but the waiters of the pause event.
LEMMA RestoreMoves ==
    ASSUME ControlTypeOK, NEW c \in Healths, Restore(c), NEW p \in Procs, p # c
    PROVE  pc'[p] = pc[p] \/ (pc[p] = "resume" /\ pc'[p] = "woken")
<1>1. CASE Restores(c)
  BY <1>1 DEF Restore, Woken
<1>2. CASE ~Restores(c)
  BY <1>2 DEF Restore, ControlTypeOK
<1>. QED
  BY <1>1, <1>2

\* The finally block of the hunt cycle keeps the state well typed.
LEMMA EndCycleType ==
    ASSUME ControlTypeOK, NEW h \in Hunts, NEW ph \in Phases, EndCycle(h, ph),
           skip_event' \in BOOLEAN
    PROVE  ControlTypeOK'
<1>1. pc' \in [Procs -> Locations] /\ current' \in Procs \cup {None}
  BY DEF EndCycle, Yield, ControlTypeOK, Locations
<1>2. scheduler_paused' \in BOOLEAN /\ paused_by_hunt' \in BOOLEAN
  BY DEF EndCycle, Release, ControlTypeOK, schedulerVars
<1>. QED
  BY <1>1, <1>2 DEF EndCycle, StopCanary, ControlTypeOK, pauseVars, healthVars

\* Every step of hunt, requests, buttons, canary and health checks keeps the types.
LEMMA TypeStep ==
    ASSUME ControlTypeOK, [ControlNext]_controlVars
    PROVE  ControlTypeOK'
<1>1. ASSUME NEW s \in Starters, Press(s) PROVE ControlTypeOK'
  BY <1>1 DEF ControlTypeOK, Procs, Locations, Press, Yield, pauseVars, phaseVars,
     huntVars, healthVars, schedulerVars
<1>2. ASSUME NEW s \in Starters, NoInternet(s) PROVE ControlTypeOK'
  BY <1>2 DEF ControlTypeOK, Procs, Locations, NoInternet, Yield, pauseVars, phaseVars,
     huntVars, healthVars, schedulerVars
<1>3. ASSUME NEW s \in Starters, AbortHealth(s) PROVE ControlTypeOK'
  BY <1>3 DEF ControlTypeOK, Procs, Healths, Locations, AbortHealth, Yield, Goto,
     pauseVars, phaseVars, huntVars, healthVars, schedulerVars
<1>4. ASSUME NEW s \in Starters, AbortHunt(s) PROVE ControlTypeOK'
  <2>1. awaited' \in [Starters -> Hunts \cup Rechecks \cup {None}]
    BY <1>4 DEF AbortHunt, TaskAlive, ControlTypeOK
  <2>2. pc' \in [Procs -> Locations] /\ cancel' \subseteq Procs /\ current' \in Procs \cup {None}
    BY <1>4 DEF AbortHunt, TaskAlive, ControlTypeOK, Goto, Yield, Procs, Locations
  <2>. QED
    BY <1>4, <2>1, <2>2 DEF AbortHunt, ControlTypeOK, pauseVars, phaseVars, huntVars,
       schedulerVars
<1>5. ASSUME NEW s \in Starters, SweepScheduler(s) PROVE ControlTypeOK'
  BY <1>5 DEF ControlTypeOK, Procs, Healths, Locations, SweepScheduler, Yield, Goto,
     pauseVars, phaseVars, healthVars
<1>6. ASSUME NEW s \in Starters, StartHunt(s) PROVE ControlTypeOK'
  <2>1. pc' \in [Procs -> Locations]
    BY <1>6, WokenType DEF StartHunt, FreshHunts, ControlTypeOK, Procs, Locations
  <2>2. task' \in Hunts \cup {None} /\ hunt_running' \in BOOLEAN /\ current' = None
    BY <1>6 DEF StartHunt, FreshHunts, ControlTypeOK
  <2>. QED
    BY <1>6, <2>1, <2>2 DEF StartHunt, Unpause, ControlTypeOK, Phases, healthVars
<1>7. ASSUME NEW h \in Hunts, NeverStarted(h) PROVE ControlTypeOK'
  BY <1>7 DEF ControlTypeOK, Locations, NeverStarted, Yield, pauseVars, phaseVars,
     huntVars, healthVars, schedulerVars
<1>8. ASSUME NEW h \in Hunts, HuntDownload(h) PROVE ControlTypeOK'
  BY <1>8 DEF ControlTypeOK, Procs, Locations, Phases, Stages, HuntDownload, Yield,
     pauseVars, healthVars, schedulerVars
<1>9. ASSUME NEW h \in Hunts, Gathered(h) PROVE ControlTypeOK'
  BY <1>9 DEF ControlTypeOK, Gathered, pauseVars, phaseVars, healthVars, schedulerVars
<1>10. ASSUME NEW h \in Hunts, HuntBlacklist(h) PROVE ControlTypeOK'
  BY <1>10 DEF ControlTypeOK, Procs, Locations, Phases, Stages, HuntBlacklist,
     StageDone, Yield, ResetSkip, pauseVars, healthVars, schedulerVars
<1>11. ASSUME NEW h \in Hunts, HuntBlocklists(h) PROVE ControlTypeOK'
  BY <1>11 DEF ControlTypeOK, Locations, Stages, HuntBlocklists, StageDone, Yield,
     ResetSkip, pauseVars, healthVars, schedulerVars
<1>12. ASSUME NEW h \in Hunts, HuntValidate(h) PROVE ControlTypeOK'
  BY <1>12 DEF ControlTypeOK, Procs, Locations, Phases, Stages, HuntValidate, StageDone,
     Yield, ResetSkip, pauseVars, healthVars, schedulerVars
<1>13. ASSUME NEW h \in Hunts, HuntValidated(h) PROVE ControlTypeOK'
  <2>1. skip_event' \in BOOLEAN
    BY <1>13 DEF HuntValidated, ResetSkip
  <2>2. CASE EndCycle(h, "done")
    BY <2>1, <2>2, EndCycleType DEF Phases
  <2>3. CASE ~EndCycle(h, "done")
    BY <1>13, <2>1, <2>3 DEF HuntValidated, Yield, ControlTypeOK, Procs, Locations,
       Stages, phaseVars, pauseVars, healthVars, schedulerVars
  <2>. QED
    BY <2>2, <2>3
<1>14. ASSUME NEW h \in Hunts, HuntDone(h) PROVE ControlTypeOK'
  BY <1>14, EndCycleType DEF HuntDone, Phases, ControlTypeOK
<1>15. ASSUME NEW h \in Hunts, HuntCancelled(h) PROVE ControlTypeOK'
  BY <1>15, EndCycleType DEF HuntCancelled, Phases, ControlTypeOK
<1>16. ASSUME NEW h \in Hunts, HuntFailed(h) PROVE ControlTypeOK'
  BY <1>16, EndCycleType DEF HuntFailed, Phases, ControlTypeOK
<1>17. ASSUME NEW h \in Hunts, CanaryDown(h) PROVE ControlTypeOK'
  BY <1>17, PauseType DEF CanaryDown, ControlTypeOK, huntVars, healthVars, schedulerVars
<1>18. ASSUME NEW h \in Hunts, CanaryUp(h) PROVE ControlTypeOK'
  BY <1>18, ResumeType DEF CanaryUp, ControlTypeOK, huntVars, healthVars, schedulerVars
<1>19. CASE OperatorPause
  BY <1>19, PauseType DEF OperatorPause, ControlTypeOK, huntVars, healthVars,
     schedulerVars
<1>20. CASE OperatorResume
  BY <1>20, ResumeType DEF OperatorResume, ControlTypeOK, huntVars, healthVars,
     schedulerVars
<1>21. CASE SkipPhase
  BY <1>21 DEF ControlTypeOK, SkipPhase, pauseVars, phaseVars, huntVars, healthVars,
     schedulerVars
<1>22. CASE StopHunt
  <2>1. cancel' \subseteq Procs
    BY <1>22 DEF StopHunt, TaskAlive, ControlTypeOK, Procs
  <2>. QED
    BY <1>22, <2>1, WokenType DEF StopHunt, StopCanary, Unpause, ControlTypeOK, Phases,
       healthVars, schedulerVars
<1>23. ASSUME NEW r \in Rechecks, Recheck(r) PROVE ControlTypeOK'
  BY <1>23 DEF ControlTypeOK, Healths, Locations, Recheck, Yield, pauseVars, phaseVars,
     huntVars, schedulerVars
<1>24. ASSUME NEW k \in Scheduled, ScheduledCheck(k) PROVE ControlTypeOK'
  BY <1>24 DEF ControlTypeOK, Healths, Locations, ScheduledCheck, Yield, pauseVars,
     phaseVars, huntVars, healthVars, schedulerVars
<1>25. ASSUME NEW c \in Healths, HealthRefused(c) PROVE ControlTypeOK'
  BY <1>25 DEF ControlTypeOK, Procs, Locations, HealthRefused, Yield, pauseVars,
     phaseVars, huntVars, healthVars, schedulerVars
<1>26. ASSUME NEW c \in Healths, HealthBegin(c) PROVE ControlTypeOK'
  <2>1. saved' \in [Healths -> SavedType]
    BY <1>26 DEF HealthBegin, ControlTypeOK, SavedType, TaskAlive, Alive
  <2>2. pc' \in [Procs -> Locations] /\ current' \in Procs \cup {None}
    BY <1>26 DEF HealthBegin, ControlTypeOK, Goto, Yield, Procs, Locations
  <2>3. /\ paused' \in BOOLEAN /\ manual_pause' \in BOOLEAN /\ pause_event' \in BOOLEAN
        /\ internet_suspect' \in BOOLEAN /\ phase' \in Phases /\ phase_before_pause' \in Phases
    BY <1>26, PauseType DEF HealthBegin, ControlTypeOK, phaseVars, pauseVars
  <2>. QED
    BY <1>26, <2>1, <2>2, <2>3 DEF HealthBegin, ControlTypeOK, huntVars, schedulerVars
<1>27. ASSUME NEW c \in Healths, HealthCancelled(c) PROVE ControlTypeOK'
  BY <1>27 DEF ControlTypeOK, Locations, Phases, SavedType, NothingSaved,
     HealthCancelled, Yield, pauseVars, phaseVars, huntVars, schedulerVars
<1>28. ASSUME NEW c \in Healths, HealthChecks(c) PROVE ControlTypeOK'
  BY <1>28 DEF ControlTypeOK, Procs, Locations, Phases, HealthChecks, Yield, pauseVars,
     huntVars, schedulerVars
<1>29. ASSUME NEW c \in Healths, HealthNothing(c) PROVE ControlTypeOK'
  <2>1. saved' \in [Healths -> SavedType]
    BY <1>29 DEF HealthNothing, ControlTypeOK, SavedType, NothingSaved, Phases
  <2>2. phase' \in Phases
    BY <1>29 DEF HealthNothing, RestoredPhase, ControlTypeOK, SavedType
  <2>. QED
    BY <1>29, <2>1, <2>2, RestoreType DEF HealthNothing, ControlTypeOK, huntVars,
       schedulerVars
<1>30. ASSUME NEW c \in Healths, HealthEnd(c) PROVE ControlTypeOK'
  <2>1. saved' \in [Healths -> SavedType]
    BY <1>30 DEF HealthEnd, ControlTypeOK, SavedType, NothingSaved, Phases
  <2>2. phase' \in Phases
    BY <1>30 DEF HealthEnd, RestoredPhase, ControlTypeOK, SavedType
  <2>. QED
    BY <1>30, <2>1, <2>2, RestoreType DEF HealthEnd, ControlTypeOK, huntVars,
       schedulerVars
<1>31. CASE StopHealth
  BY <1>31 DEF ControlTypeOK, Procs, Healths, StopHealth, pauseVars, phaseVars,
     huntVars, schedulerVars
<1>32. CASE UNCHANGED controlVars
  BY <1>32 DEF ControlTypeOK, controlVars, pauseVars, phaseVars, huntVars, healthVars,
     schedulerVars
<1>. QED
  BY <1>1, <1>2, <1>3, <1>4, <1>5, <1>6, <1>7, <1>8, <1>9, <1>10, <1>11, <1>12, <1>13,
     <1>14, <1>15, <1>16, <1>17, <1>18, <1>19, <1>20, <1>21, <1>22, <1>23, <1>24, <1>25,
     <1>26, <1>27, <1>28, <1>29, <1>30, <1>31, <1>32
  DEF ControlNext, Start, Hunt, HuntStage, HuntExit, Buttons, Health

\* The state of the hunt is well typed in every reachable state, whatever start
\* requests, buttons, canary and health checks do to it.
THEOREM TypeCorrect == ControlSpec => []ControlTypeOK
<1>1. ControlInit => ControlTypeOK
  <2>. SUFFICES ASSUME ControlInit PROVE ControlTypeOK
    OBVIOUS
  <2>1. NothingSaved \in SavedType
    BY DEF NothingSaved, SavedType, Phases
  <2>2. "free" \in Locations /\ "idle" \in Phases /\ "done" \in Phases
    BY DEF Locations, Phases
  <2>. QED
    BY <2>1, <2>2 DEF ControlInit, ControlTypeOK
<1>. QED
  BY <1>1, TypeStep, PTL DEF ControlSpec

--------------------------------------------------------------------------------
\* No start request comes while another one is being served (manual_start_hunt does
\* not see to that).
OneAtATime == \A s, t \in Starters : s = t

\* A hunt that is alive is the one _hunt_task refers to ...
TaskIsHunt == \A h \in Hunts : Alive(h) => task = h
\* ... so a request that waits for the hunt it has cancelled waits for that one ...
AwaitsTask == \A s \in Starters : pc[s] = "task" => ~TaskAlive \/ awaited[s] = task
\* ... and one that sweeps the scheduler has seen it end.
SweptClean == \A s \in Starters : pc[s] = "sweep" => task = None
OneHunt == TaskIsHunt /\ AwaitsTask /\ SweptClean

\* Requests, hunts and their cancellations keep it so: a new hunt is created only by a
\* request that sweeps.
LEMMA OneHuntStep ==
    ASSUME OneAtATime, ControlTypeOK, OneHunt, [ControlNext]_controlVars
    PROVE  OneHunt'
<1>1. ASSUME NEW s \in Starters, Press(s) PROVE OneHunt'
  BY <1>1, HuntProcs DEF Alive, TaskAlive, OneHunt, TaskIsHunt, AwaitsTask, SweptClean,
     OneAtATime, Press, Yield, huntVars
<1>2. ASSUME NEW s \in Starters, NoInternet(s) PROVE OneHunt'
  BY <1>2 DEF Alive, TaskAlive, OneHunt, TaskIsHunt, AwaitsTask, SweptClean, NoInternet,
     Yield, huntVars
<1>3. ASSUME NEW s \in Starters, AbortHealth(s) PROVE OneHunt'
  BY <1>3 DEF ControlTypeOK, Procs, Alive, TaskAlive, OneHunt, TaskIsHunt, AwaitsTask,
     SweptClean, AbortHealth, Yield, Goto, At, huntVars
<1>4. ASSUME NEW s \in Starters, AbortHunt(s) PROVE OneHunt'
  BY <1>4 DEF ControlTypeOK, Procs, Alive, TaskAlive, OneHunt, TaskIsHunt, AwaitsTask,
     SweptClean, AbortHunt, Yield, Goto, At, huntVars
<1>5. ASSUME NEW s \in Starters, SweepScheduler(s) PROVE OneHunt'
  BY <1>5 DEF ControlTypeOK, Procs, Alive, TaskAlive, OneHunt, TaskIsHunt, AwaitsTask,
     SweptClean, SweepScheduler, Yield, Goto, At, Arrived
<1>6. ASSUME NEW s \in Starters, StartHunt(s) PROVE OneHunt'
  <2>1. /\ s \in Procs /\ UNCHANGED awaited /\ task = None
        /\ \A g \in Hunts : pc[g] = "free"
    BY <1>6, HuntProcs DEF StartHunt, At, OneHunt, TaskIsHunt, SweptClean, Alive, Procs
  <2>2. CASE health_running
    BY <1>6, <2>1, <2>2, HuntProcs DEF StartHunt, Woken, OneAtATime, ControlTypeOK,
       Procs,
        OneHunt, TaskIsHunt, AwaitsTask, SweptClean, Alive, TaskAlive
  <2>3. CASE ~health_running
    <3>1. PICK h \in Hunts :
             task' = h /\ pc' = [Woken(pc) EXCEPT ![s] = "free", ![h] = "created"]
      BY <1>6, <2>3 DEF StartHunt, FreshHunts
    <3>2. /\ \A g \in Hunts : g # h => pc'[g] = "free"
          /\ pc'[s] = "free"
      BY <2>1, <3>1, HuntProcs DEF Woken, Procs
    <3>. QED
      BY <3>1, <3>2 DEF OneAtATime, OneHunt, TaskIsHunt, AwaitsTask, SweptClean, Alive
  <2>. QED
    BY <2>2, <2>3
<1>7. ASSUME NEW h \in Hunts, NeverStarted(h) PROVE OneHunt'
  BY <1>7 DEF Alive, TaskAlive, OneHunt, TaskIsHunt, AwaitsTask, SweptClean,
     NeverStarted, Yield, huntVars
<1>8. ASSUME NEW h \in Hunts, HuntDownload(h) PROVE OneHunt'
  BY <1>8 DEF Alive, TaskAlive, OneHunt, TaskIsHunt, AwaitsTask, SweptClean,
     HuntDownload, Yield, At
<1>9. ASSUME NEW h \in Hunts, Gathered(h) PROVE OneHunt'
  BY <1>9 DEF Alive, TaskAlive, OneHunt, TaskIsHunt, AwaitsTask, SweptClean, Gathered
<1>10. ASSUME NEW h \in Hunts, HuntBlacklist(h) PROVE OneHunt'
  BY <1>10 DEF Alive, TaskAlive, OneHunt, TaskIsHunt, AwaitsTask, SweptClean,
     HuntBlacklist, StageDone, Yield, MayGoOn, At
<1>11. ASSUME NEW h \in Hunts, HuntBlocklists(h) PROVE OneHunt'
  BY <1>11 DEF Alive, TaskAlive, OneHunt, TaskIsHunt, AwaitsTask, SweptClean,
     HuntBlocklists, StageDone, Yield, MayGoOn, At
<1>12. ASSUME NEW h \in Hunts, HuntValidate(h) PROVE OneHunt'
  BY <1>12 DEF Alive, TaskAlive, OneHunt, TaskIsHunt, AwaitsTask, SweptClean,
     HuntValidate, StageDone, Yield, MayGoOn, At
<1>13. ASSUME NEW h \in Hunts, HuntValidated(h) PROVE OneHunt'
  BY <1>13 DEF ControlTypeOK, Procs, Alive, TaskAlive, OneHunt, TaskIsHunt, AwaitsTask,
     SweptClean, HuntValidated, EndCycle, Yield, MayGoOn, At
<1>14. ASSUME NEW h \in Hunts, HuntDone(h) PROVE OneHunt'
  BY <1>14 DEF Alive, TaskAlive, OneHunt, TaskIsHunt, AwaitsTask, SweptClean, HuntDone,
     EndCycle, Yield
<1>15. ASSUME NEW h \in Hunts, HuntCancelled(h) PROVE OneHunt'
  BY <1>15 DEF Alive, TaskAlive, OneHunt, TaskIsHunt, AwaitsTask, SweptClean,
     HuntCancelled, EndCycle, Yield
<1>16. ASSUME NEW h \in Hunts, HuntFailed(h) PROVE OneHunt'
  BY <1>16 DEF Alive, TaskAlive, OneHunt, TaskIsHunt, AwaitsTask, SweptClean,
     HuntFailed, EndCycle, Yield
<1>17. ASSUME NEW h \in Hunts, CanaryDown(h) PROVE OneHunt'
  BY <1>17 DEF Alive, TaskAlive, OneHunt, TaskIsHunt, AwaitsTask, SweptClean,
     CanaryDown, huntVars
<1>18. ASSUME NEW h \in Hunts, CanaryUp(h) PROVE OneHunt'
  BY <1>18 DEF ControlTypeOK, Procs, Alive, TaskAlive, OneHunt, TaskIsHunt, AwaitsTask,
     SweptClean, CanaryUp, ResumeHunt, Woken, huntVars
<1>19. CASE OperatorPause
  BY <1>19 DEF Alive, TaskAlive, OneHunt, TaskIsHunt, AwaitsTask, SweptClean,
     OperatorPause, huntVars
<1>20. CASE OperatorResume
  BY <1>20 DEF ControlTypeOK, Procs, Alive, TaskAlive, OneHunt, TaskIsHunt, AwaitsTask,
     SweptClean, OperatorResume, ResumeHunt, Woken, huntVars
<1>21. CASE SkipPhase
  BY <1>21 DEF Alive, OneHunt, TaskIsHunt, AwaitsTask, SweptClean, SkipPhase, huntVars
<1>22. CASE StopHunt
  BY <1>22 DEF ControlTypeOK, Procs, Alive, TaskAlive, OneHunt, TaskIsHunt, AwaitsTask,
     SweptClean, StopHunt, Woken
<1>23. ASSUME NEW r \in Rechecks, Recheck(r) PROVE OneHunt'
  BY <1>23, HuntProcs DEF ControlTypeOK, Healths, Alive, TaskAlive, OneHunt, TaskIsHunt,
     AwaitsTask, SweptClean, Recheck, Yield, huntVars
<1>24. ASSUME NEW k \in Scheduled, ScheduledCheck(k) PROVE OneHunt'
  BY <1>24, HuntProcs DEF ControlTypeOK, Healths, Alive, TaskAlive, OneHunt, TaskIsHunt,
     AwaitsTask, SweptClean, ScheduledCheck, Yield, huntVars
<1>25. ASSUME NEW c \in Healths, HealthRefused(c) PROVE OneHunt'
  BY <1>25 DEF Alive, TaskAlive, OneHunt, TaskIsHunt, AwaitsTask, SweptClean,
     HealthRefused, Yield, huntVars
<1>26. ASSUME NEW c \in Healths, HealthBegin(c) PROVE OneHunt'
  BY <1>26, HuntProcs DEF ControlTypeOK, Procs, Healths, Alive, TaskAlive, OneHunt,
     TaskIsHunt, AwaitsTask, SweptClean, OneAtATime, HealthBegin, PauseHunt, Goto,
     Yield, At, pauseVars, phaseVars, huntVars, healthVars, schedulerVars
<1>27. ASSUME NEW c \in Healths, HealthCancelled(c) PROVE OneHunt'
  BY <1>27 DEF Alive, TaskAlive, OneHunt, TaskIsHunt, AwaitsTask, SweptClean,
     HealthCancelled, Yield, huntVars
<1>28. ASSUME NEW c \in Healths, HealthChecks(c) PROVE OneHunt'
  BY <1>28 DEF Alive, TaskAlive, OneHunt, TaskIsHunt, AwaitsTask, SweptClean,
     HealthChecks, Yield, At, huntVars
<1>29. ASSUME NEW c \in Healths, HealthNothing(c) PROVE OneHunt'
  <2>1. /\ UNCHANGED <<task, awaited>>
        /\ \A p \in Hunts \cup Starters :
              pc'[p] = pc[p] \/ (pc[p] = "resume" /\ pc'[p] = "woken")
    <3>1. Restore(c) /\ UNCHANGED <<task, awaited>>
      BY <1>29 DEF HealthNothing, huntVars
    <3>2. \A p \in Hunts \cup Starters : p \in Procs /\ p # c
      BY HuntProcs DEF Procs
    <3>. QED
      BY <3>1, <3>2, RestoreMoves
  <2>. QED
    BY <2>1 DEF OneHunt, TaskIsHunt, AwaitsTask, SweptClean, Alive, TaskAlive,
       ControlTypeOK, Procs
<1>30. ASSUME NEW c \in Healths, HealthEnd(c) PROVE OneHunt'
  <2>1. /\ UNCHANGED <<task, awaited>>
        /\ \A p \in Hunts \cup Starters :
              pc'[p] = pc[p] \/ (pc[p] = "resume" /\ pc'[p] = "woken")
    <3>1. Restore(c) /\ UNCHANGED <<task, awaited>>
      BY <1>30 DEF HealthEnd, huntVars
    <3>2. \A p \in Hunts \cup Starters : p \in Procs /\ p # c
      BY HuntProcs DEF Procs
    <3>. QED
      BY <3>1, <3>2, RestoreMoves
  <2>. QED
    BY <2>1 DEF OneHunt, TaskIsHunt, AwaitsTask, SweptClean, Alive, TaskAlive,
       ControlTypeOK, Procs
<1>31. CASE StopHealth
  BY <1>31 DEF Alive, TaskAlive, OneHunt, TaskIsHunt, AwaitsTask, SweptClean,
     StopHealth, huntVars
<1>32. CASE UNCHANGED controlVars
  BY <1>32 DEF Alive, TaskAlive, OneHunt, TaskIsHunt, AwaitsTask, SweptClean,
     controlVars, huntVars
<1>. QED
  BY <1>1, <1>2, <1>3, <1>4, <1>5, <1>6, <1>7, <1>8, <1>9, <1>10, <1>11, <1>12, <1>13,
     <1>14, <1>15, <1>16, <1>17, <1>18, <1>19, <1>20, <1>21, <1>22, <1>23, <1>24, <1>25,
     <1>26, <1>27, <1>28, <1>29, <1>30, <1>31, <1>32
  DEF ControlNext, Start, Hunt, HuntStage, HuntExit, Buttons, Health

\* A hunt nobody has cancelled has its flag; only a canary loop that _canary_task refers
\* to is alive, and its hunt has begun.
Flagged == \A h \in Hunts : Alive(h) /\ h \notin cancel => hunt_running
Canaries == \A h \in canaries : pc[h] \notin {"free", "created"} /\ canary_task = h
IndHunt == OneHunt /\ Flagged /\ Canaries

\* The hunt that ends, or is stopped, is the one whose flag and canary are cleared.
LEMMA FlaggedStep ==
    ASSUME ControlTypeOK, IndHunt, [ControlNext]_controlVars
    PROVE  Flagged' /\ Canaries'
<1>1. ASSUME NEW s \in Starters, Press(s) PROVE (Flagged /\ Canaries)'
  BY <1>1, HuntProcs DEF Alive, IndHunt, Flagged, Canaries, Press, Yield, huntVars
<1>2. ASSUME NEW s \in Starters, NoInternet(s) PROVE (Flagged /\ Canaries)'
  BY <1>2, HuntProcs DEF ControlTypeOK, Alive, IndHunt, Flagged, Canaries, NoInternet,
     Yield, huntVars
<1>3. ASSUME NEW s \in Starters, AbortHealth(s) PROVE (Flagged /\ Canaries)'
  BY <1>3 DEF ControlTypeOK, Procs, Alive, IndHunt, Flagged, Canaries, AbortHealth,
     Yield, Goto, At, huntVars
<1>4. ASSUME NEW s \in Starters, AbortHunt(s) PROVE (Flagged /\ Canaries)'
  BY <1>4 DEF ControlTypeOK, Procs, Alive, IndHunt, Flagged, Canaries, AbortHunt, Yield,
     Goto, At, huntVars
<1>5. ASSUME NEW s \in Starters, SweepScheduler(s) PROVE (Flagged /\ Canaries)'
  BY <1>5 DEF ControlTypeOK, Procs, Alive, IndHunt, Flagged, Canaries, SweepScheduler,
     Yield, Goto, At
<1>6. ASSUME NEW s \in Starters, StartHunt(s) PROVE (Flagged /\ Canaries)'
  <2>1. /\ s \in Procs /\ UNCHANGED <<canaries, canary_task, cancel>>
        /\ \A g \in Hunts : g \in Procs /\ g # s /\ pc[g] = "free"
    BY <1>6, HuntProcs DEF StartHunt, At, IndHunt, OneHunt, TaskIsHunt, SweptClean,
       Alive, Procs
  <2>2. canaries = {}
    BY <2>1 DEF IndHunt, Canaries, ControlTypeOK
  <2>3. CASE health_running
    <3>1. \A g \in Hunts : pc'[g] = "free"
      BY <1>6, <2>1, <2>3 DEF StartHunt, Woken
    <3>. QED
      BY <2>1, <2>2, <3>1 DEF Flagged, Canaries, Alive
  <2>4. CASE ~health_running
    BY <1>6, <2>1, <2>2, <2>4 DEF StartHunt, Flagged, Canaries
  <2>. QED
    BY <2>3, <2>4
<1>7. ASSUME NEW h \in Hunts, NeverStarted(h) PROVE (Flagged /\ Canaries)'
  BY <1>7 DEF ControlTypeOK, Alive, IndHunt, Flagged, Canaries, NeverStarted, Yield, At,
     huntVars
<1>8. ASSUME NEW h \in Hunts, HuntDownload(h) PROVE (Flagged /\ Canaries)'
  BY <1>8 DEF ControlTypeOK, Procs, Alive, IndHunt, OneHunt, TaskIsHunt, Flagged,
     Canaries, HuntDownload, Yield, At
<1>9. ASSUME NEW h \in Hunts, Gathered(h) PROVE (Flagged /\ Canaries)'
  BY <1>9 DEF Alive, IndHunt, Flagged, Canaries, Gathered
<1>10. ASSUME NEW h \in Hunts, HuntBlacklist(h) PROVE (Flagged /\ Canaries)'
  BY <1>10, HuntProcs DEF ControlTypeOK, Procs, Healths, Alive, TaskAlive, IndHunt,
     OneHunt, TaskIsHunt, SweptClean, Flagged, Canaries, Stages, HuntBlacklist,
     StageDone, Yield, MayGoOn, At, ResetSkip, pauseVars, phaseVars, huntVars,
     healthVars, schedulerVars
<1>11. ASSUME NEW h \in Hunts, HuntBlocklists(h) PROVE (Flagged /\ Canaries)'
  BY <1>11 DEF Alive, IndHunt, Flagged, Canaries, HuntBlocklists, StageDone, Yield,
     MayGoOn, At
<1>12. ASSUME NEW h \in Hunts, HuntValidate(h) PROVE (Flagged /\ Canaries)'
  BY <1>12 DEF Alive, IndHunt, Flagged, Canaries, HuntValidate, StageDone, Yield,
     MayGoOn, At
<1>13. ASSUME NEW h \in Hunts, HuntValidated(h) PROVE (Flagged /\ Canaries)'
  BY <1>13 DEF ControlTypeOK, Procs, Alive, IndHunt, OneHunt, TaskIsHunt, Flagged,
     Canaries, HuntValidated, EndCycle, StopCanary, Yield, MayGoOn, At
<1>14. ASSUME NEW h \in Hunts, HuntDone(h) PROVE (Flagged /\ Canaries)'
  BY <1>14 DEF ControlTypeOK, Procs, Alive, IndHunt, OneHunt, TaskIsHunt, Flagged,
     Canaries, HuntDone, EndCycle, StopCanary, Yield, At
<1>15. ASSUME NEW h \in Hunts, HuntCancelled(h) PROVE (Flagged /\ Canaries)'
  BY <1>15 DEF ControlTypeOK, Alive, IndHunt, OneHunt, TaskIsHunt, Flagged, Canaries,
     Stages, HuntCancelled, EndCycle, StopCanary, Yield, Waiting
<1>16. ASSUME NEW h \in Hunts, HuntFailed(h) PROVE (Flagged /\ Canaries)'
  BY <1>16 DEF ControlTypeOK, Procs, Alive, IndHunt, OneHunt, TaskIsHunt, Flagged,
     Canaries, Stages, HuntFailed, EndCycle, StopCanary, Yield
<1>17. ASSUME NEW h \in Hunts, CanaryDown(h) PROVE (Flagged /\ Canaries)'
  BY <1>17 DEF Alive, IndHunt, Flagged, Canaries, CanaryDown, huntVars
<1>18. ASSUME NEW h \in Hunts, CanaryUp(h) PROVE (Flagged /\ Canaries)'
  BY <1>18 DEF Procs, Alive, IndHunt, Flagged, Canaries, CanaryUp, ResumeHunt, Woken,
     huntVars
<1>19. CASE OperatorPause
  BY <1>19 DEF Alive, IndHunt, Flagged, Canaries, OperatorPause, huntVars
<1>20. CASE OperatorResume
  BY <1>20 DEF ControlTypeOK, Procs, Alive, IndHunt, Flagged, Canaries, OperatorResume,
     ResumeHunt, Woken, huntVars
<1>21. CASE SkipPhase
  BY <1>21 DEF Alive, IndHunt, Flagged, Canaries, SkipPhase, huntVars
<1>22. CASE StopHunt
  BY <1>22, HuntProcs DEF Procs, Alive, TaskAlive, IndHunt, OneHunt, TaskIsHunt,
     Flagged, Canaries, StopHunt, StopCanary, Woken
<1>23. ASSUME NEW r \in Rechecks, Recheck(r) PROVE (Flagged /\ Canaries)'
  BY <1>23, HuntProcs DEF ControlTypeOK, Healths, Alive, IndHunt, Flagged, Canaries,
     Recheck, Yield, huntVars
<1>24. ASSUME NEW k \in Scheduled, ScheduledCheck(k) PROVE (Flagged /\ Canaries)'
  BY <1>24, HuntProcs DEF ControlTypeOK, Healths, Alive, IndHunt, Flagged, Canaries,
     ScheduledCheck, Yield, huntVars
<1>25. ASSUME NEW c \in Healths, HealthRefused(c) PROVE (Flagged /\ Canaries)'
  BY <1>25 DEF ControlTypeOK, Alive, IndHunt, Flagged, Canaries, HealthRefused, Yield,
     At, huntVars
<1>26. ASSUME NEW c \in Healths, HealthBegin(c) PROVE (Flagged /\ Canaries)'
  BY <1>26 DEF ControlTypeOK, Procs, Alive, IndHunt, Flagged, Canaries, HealthBegin,
     Goto, Yield, At, huntVars
<1>27. ASSUME NEW c \in Healths, HealthCancelled(c) PROVE (Flagged /\ Canaries)'
  BY <1>27, HuntProcs DEF ControlTypeOK, Alive, IndHunt, Flagged, Canaries,
     HealthCancelled, Yield, huntVars
<1>28. ASSUME NEW c \in Healths, HealthChecks(c) PROVE (Flagged /\ Canaries)'
  BY <1>28 DEF Alive, IndHunt, Flagged, Canaries, HealthChecks, Yield, At, huntVars
<1>29. ASSUME NEW c \in Healths, HealthNothing(c) PROVE (Flagged /\ Canaries)'
  <2>1. Restore(c) /\ UNCHANGED huntVars /\ cancel \ {c} \subseteq cancel'
    BY <1>29 DEF HealthNothing
  <2>2. \A p \in Hunts : p \in Procs /\ p # c
    BY HuntProcs DEF Procs
  <2>. QED
    BY <2>1, <2>2, RestoreMoves DEF ControlTypeOK, IndHunt, Flagged, Canaries, Alive,
       huntVars
<1>30. ASSUME NEW c \in Healths, HealthEnd(c) PROVE (Flagged /\ Canaries)'
  <2>1. Restore(c) /\ UNCHANGED huntVars /\ cancel \ {c} \subseteq cancel'
    BY <1>30 DEF HealthEnd
  <2>2. \A p \in Hunts : p \in Procs /\ p # c
    BY HuntProcs DEF Procs
  <2>. QED
    BY <2>1, <2>2, RestoreMoves DEF ControlTypeOK, IndHunt, Flagged, Canaries, Alive,
       huntVars
<1>31. CASE StopHealth
  BY <1>31 DEF Alive, IndHunt, Flagged, Canaries, StopHealth, huntVars
<1>32. CASE UNCHANGED controlVars
  BY <1>32 DEF Alive, IndHunt, Flagged, Canaries, controlVars, huntVars
<1>. QED
  BY <1>1, <1>2, <1>3, <1>4, <1>5, <1>6, <1>7, <1>8, <1>9, <1>10, <1>11, <1>12, <1>13,
     <1>14, <1>15, <1>16, <1>17, <1>18, <1>19, <1>20, <1>21, <1>22, <1>23, <1>24, <1>25,
     <1>26, <1>27, <1>28, <1>29, <1>30, <1>31, <1>32
  DEF ControlNext, Start, Hunt, HuntStage, HuntExit, Buttons, Health

\* What holds of the hunt throughout, with one start request at a time.
LEMMA HuntInvariant ==
    ASSUME OneAtATime
    PROVE  ControlSpec => [](ControlTypeOK /\ IndHunt)
<1>1. ControlInit => IndHunt
  BY HuntProcs DEF ControlInit, IndHunt, OneHunt, TaskIsHunt, AwaitsTask, SweptClean,
      Flagged, Canaries, Alive, Procs
<1>2. ControlTypeOK /\ IndHunt /\ [ControlNext]_controlVars => IndHunt'
  BY OneHuntStep, FlaggedStep DEF IndHunt
<1>. QED
  BY <1>1, <1>2, TypeCorrect, PTL DEF ControlSpec

\* With one start request at a time there is never a second hunt.
THEOREM OneHuntAtATime ==
    ASSUME OneAtATime
    PROVE  ControlSpec => []AtMostOneHunt
<1>1. IndHunt => AtMostOneHunt
  BY DEF IndHunt, OneHunt, TaskIsHunt, AtMostOneHunt
<1>. QED
  BY <1>1, HuntInvariant, PTL

\* The flag the scheduler relies on is set while a hunt runs.
THEOREM FlagIsSet ==
    ASSUME OneAtATime
    PROVE  ControlSpec => []FlagCoversHunt
<1>1. IndHunt => FlagCoversHunt
  BY DEF IndHunt, Flagged, FlagCoversHunt
<1>. QED
  BY <1>1, HuntInvariant, PTL

\* No canary loop outlives its hunt.
THEOREM CanariesEnd ==
    ASSUME OneAtATime
    PROVE  ControlSpec => []CanaryHasHunt
<1>1. IndHunt => CanaryHasHunt
  BY DEF IndHunt, Canaries, CanaryHasHunt, Alive
<1>. QED
  BY <1>1, HuntInvariant, PTL

--------------------------------------------------------------------------------
\* Whoever clears the pause event sets _paused, and whoever lifts the pause sets the
\* event, which wakes the hunt.
IndWait == /\ pause_event \/ paused
           /\ \A h \in Hunts : pc[h] = "resume" => paused

\* Every pause and resume keeps it so.
LEMMA WaitStep ==
    ASSUME ControlTypeOK, IndWait, [ControlNext]_controlVars
    PROVE  IndWait'
<1>1. ASSUME NEW s \in Starters, Press(s) PROVE IndWait'
  BY <1>1 DEF IndWait, Press, Yield, pauseVars
<1>2. ASSUME NEW s \in Starters, NoInternet(s) PROVE IndWait'
  BY <1>2 DEF IndWait, NoInternet, Yield, pauseVars
<1>3. ASSUME NEW s \in Starters, AbortHealth(s) PROVE IndWait'
  BY <1>3 DEF ControlTypeOK, Procs, IndWait, AbortHealth, Yield, Goto, pauseVars
<1>4. ASSUME NEW s \in Starters, AbortHunt(s) PROVE IndWait'
  BY <1>4 DEF ControlTypeOK, Procs, IndWait, AbortHunt, Yield, Goto, pauseVars
<1>5. ASSUME NEW s \in Starters, SweepScheduler(s) PROVE IndWait'
  BY <1>5 DEF ControlTypeOK, Procs, IndWait, SweepScheduler, Yield, Goto, pauseVars
<1>6. ASSUME NEW s \in Starters, StartHunt(s) PROVE IndWait'
  BY <1>6 DEF Procs, IndWait, StartHunt, Unpause, Woken
<1>7. ASSUME NEW h \in Hunts, NeverStarted(h) PROVE IndWait'
  BY <1>7 DEF IndWait, NeverStarted, Yield, pauseVars
<1>8. ASSUME NEW h \in Hunts, HuntDownload(h) PROVE IndWait'
  BY <1>8 DEF IndWait, HuntDownload, Yield, pauseVars
<1>9. ASSUME NEW h \in Hunts, Gathered(h) PROVE IndWait'
  BY <1>9 DEF IndWait, Gathered, pauseVars
<1>10. ASSUME NEW h \in Hunts, HuntBlacklist(h) PROVE IndWait'
  BY <1>10 DEF IndWait, HuntBlacklist, StageDone, Yield, pauseVars
<1>11. ASSUME NEW h \in Hunts, HuntBlocklists(h) PROVE IndWait'
  BY <1>11 DEF IndWait, HuntBlocklists, StageDone, Yield, pauseVars
<1>12. ASSUME NEW h \in Hunts, HuntValidate(h) PROVE IndWait'
  BY <1>12 DEF IndWait, HuntValidate, StageDone, Yield, pauseVars
<1>13. ASSUME NEW h \in Hunts, HuntValidated(h) PROVE IndWait'
  BY <1>13 DEF ControlTypeOK, Procs, IndWait, HuntValidated, EndCycle, Yield, pauseVars
<1>14. ASSUME NEW h \in Hunts, HuntDone(h) PROVE IndWait'
  BY <1>14 DEF IndWait, HuntDone, EndCycle, Yield, pauseVars
<1>15. ASSUME NEW h \in Hunts, HuntCancelled(h) PROVE IndWait'
  BY <1>15 DEF IndWait, HuntCancelled, EndCycle, Yield, pauseVars
<1>16. ASSUME NEW h \in Hunts, HuntFailed(h) PROVE IndWait'
  BY <1>16 DEF IndWait, HuntFailed, EndCycle, Yield, pauseVars
<1>17. ASSUME NEW h \in Hunts, CanaryDown(h) PROVE IndWait'
  BY <1>17 DEF IndWait, CanaryDown, PauseHunt
<1>18. ASSUME NEW h \in Hunts, CanaryUp(h) PROVE IndWait'
  BY <1>18 DEF Procs, IndWait, CanaryUp, ResumeHunt, Unpause, Woken
<1>19. CASE OperatorPause
  BY <1>19 DEF IndWait, OperatorPause, PauseHunt
<1>20. CASE OperatorResume
  BY <1>20 DEF Procs, IndWait, OperatorResume, ResumeHunt, Unpause, Woken
<1>21. CASE SkipPhase
  BY <1>21 DEF IndWait, SkipPhase, pauseVars
<1>22. CASE StopHunt
  BY <1>22 DEF Procs, IndWait, StopHunt, Unpause, Woken
<1>23. ASSUME NEW r \in Rechecks, Recheck(r) PROVE IndWait'
  BY <1>23 DEF IndWait, Recheck, Yield, pauseVars
<1>24. ASSUME NEW k \in Scheduled, ScheduledCheck(k) PROVE IndWait'
  BY <1>24 DEF IndWait, ScheduledCheck, Yield, pauseVars
<1>25. ASSUME NEW c \in Healths, HealthRefused(c) PROVE IndWait'
  BY <1>25 DEF IndWait, HealthRefused, Yield, pauseVars
<1>26. ASSUME NEW c \in Healths, HealthBegin(c) PROVE IndWait'
  BY <1>26 DEF ControlTypeOK, Procs, IndWait, HealthBegin, PauseHunt, Goto, pauseVars
<1>27. ASSUME NEW c \in Healths, HealthCancelled(c) PROVE IndWait'
  BY <1>27 DEF IndWait, HealthCancelled, Yield, pauseVars
<1>28. ASSUME NEW c \in Healths, HealthChecks(c) PROVE IndWait'
  BY <1>28 DEF IndWait, HealthChecks, Yield, pauseVars
<1>29. ASSUME NEW c \in Healths, HealthNothing(c) PROVE IndWait'
  <2>1. CASE Restores(c)
    BY <1>29, <2>1 DEF HealthNothing, Restore, Unpause, Woken, IndWait, ControlTypeOK,
       Procs
  <2>2. CASE ~Restores(c)
    BY <1>29, <2>2 DEF HealthNothing, Restore, pauseVars, IndWait, ControlTypeOK, Procs
  <2>. QED
    BY <2>1, <2>2
<1>30. ASSUME NEW c \in Healths, HealthEnd(c) PROVE IndWait'
  <2>1. CASE Restores(c)
    BY <1>30, <2>1 DEF HealthEnd, Restore, Unpause, Woken, IndWait, ControlTypeOK, Procs
  <2>2. CASE ~Restores(c)
    BY <1>30, <2>2 DEF HealthEnd, Restore, pauseVars, IndWait, ControlTypeOK, Procs
  <2>. QED
    BY <2>1, <2>2
<1>31. CASE StopHealth
  BY <1>31 DEF IndWait, StopHealth, pauseVars
<1>32. CASE UNCHANGED controlVars
  BY <1>32 DEF IndWait, controlVars, pauseVars
<1>. QED
  BY <1>1, <1>2, <1>3, <1>4, <1>5, <1>6, <1>7, <1>8, <1>9, <1>10, <1>11, <1>12, <1>13,
     <1>14, <1>15, <1>16, <1>17, <1>18, <1>19, <1>20, <1>21, <1>22, <1>23, <1>24, <1>25,
     <1>26, <1>27, <1>28, <1>29, <1>30, <1>31, <1>32
  DEF ControlNext, Start, Hunt, HuntStage, HuntExit, Buttons, Health

\* A hunt waits for the end of a pause only while there is one to lift.
THEOREM WaitsCanEnd == ControlSpec => []WaitsOnlyWhilePaused
<1>1. ControlInit => IndWait
  BY DEF ControlInit, IndWait, Procs
<1>2. IndWait => WaitsOnlyWhilePaused
  BY DEF IndWait, WaitsOnlyWhilePaused
<1>3. ControlTypeOK /\ IndWait /\ [ControlNext]_controlVars => IndWait'
  BY WaitStep
<1>. QED
  BY <1>1, <1>2, <1>3, TypeCorrect, PTL DEF ControlSpec
================================================================================
