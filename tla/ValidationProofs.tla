--------------------------- MODULE ValidationProofs ---------------------------
(***************************************************************************)
(* Theorems about Validation, for any number of workers, proxies, hunts    *)
(* and checks.  What a step does to the hunt is a step of HuntControl or   *)
(* one of four things that only the pool does (ControlMoves), so the       *)
(* theorems of HuntControlProofs carry over.  Then four arguments:         *)
(*   - the suspicion and the event (Quiet), for NoBusyLoop;                *)
(*   - who leaves a pool (LeftClean), for EndsClean, and who gathers its   *)
(*     workers (Attended, WorkersHaveCaller), for NoStrays;                *)
(*   - the account of a pool (Account): every address is in the queue, in  *)
(*     the hands of one worker, or dealt with once, for TypeOK;            *)
(*   - the progress (Fits): what is counted and what is not yet never pass *)
(*     the total, as only one run at a time counts, for CountsFit.         *)
(***************************************************************************)
EXTENDS Validation, HuntControlProofs, FiniteSetTheorems

-----------------------------------------------------------------------------
(* Steps of the hunt.                                                      *)

\* What only the pool does to the state of the hunt: it suspects the internet,
\* finds it alive, finds it dead, and uses up a skip.
KeepHunt == UNCHANGED <<huntVars, healthVars, schedulerVars, cancel, awaited, current>>
Suspects == SuspectInternet /\ UNCHANGED <<phaseVars, paused, manual_pause, skip_event, pc>> /\ KeepHunt
Clears == /\ ClearSuspicion /\ pc' = Woken(pc)
          /\ UNCHANGED <<phaseVars, paused, manual_pause, skip_event>> /\ KeepHunt
Pauses == PauseHunt(FALSE) /\ UNCHANGED <<skip_event, pc>> /\ KeepHunt
UsesSkip == skip_event' = FALSE /\ UNCHANGED <<phaseVars, pauseVars, pc>> /\ KeepHunt
ControlMoves == [ControlNext]_controlVars \/ Suspects \/ Clears \/ Pauses \/ UsesSkip

LEMMA WorkerMoves ==
    ASSUME NEW w \in Workers, Worker(w)
    PROVE  UNCHANGED controlVars \/ Suspects \/ Clears \/ Pauses
<1>1. CASE Take(w) \/ HoldBack(w) \/ SkipBlacklisted(w) \/ WaitForInternet(w) \/ Probe(w)
           \/ ResultDropped(w) \/ ResultSuspect(w)
  BY <1>1 DEF Take, HoldBack, SkipBlacklisted, WaitForInternet, Probe, ResultDropped,
     ResultSuspect
<1>2. \A l : AutoPause(w, l) => Suspects
  BY DEF AutoPause, Suspects, KeepHunt
<1>3. CASE FastFail(w)
  BY <1>2, <1>3 DEF FastFail
<1>4. CASE Result(w)
  BY <1>2, <1>4 DEF Result
<1>5. CASE InternetAlive(w)
  BY <1>5 DEF InternetAlive, Clears, KeepHunt
<1>6. CASE InternetDead(w)
  <2>1. CASE MayPause
    BY <1>6, <2>1 DEF InternetDead, Pauses, KeepHunt
  <2>2. CASE ~MayPause
    BY <1>6, <2>2 DEF InternetDead, controlVars
  <2>. QED
    BY <2>1, <2>2
<1>. QED
  BY <1>1, <1>3, <1>4, <1>5, <1>6 DEF Worker

LEMMA Controlled ==
    ASSUME [Next]_vars
    PROVE  ControlMoves
<1>1. ASSUME NEW w \in Workers, Worker(w) PROVE ControlMoves
  BY <1>1, WorkerMoves DEF ControlMoves
<1>2. ASSUME NEW h \in Hunts, HuntPool(h) PROVE ControlNext
  <2>1. Hunt(h)
    BY <1>2 DEF HuntPool, PoolComplete, PoolTimeout, PoolSkipped, PoolDone, PoolLeft, NoPool,
       Hunt, HuntStage, HuntExit
  <2>. QED
    BY <2>1 DEF ControlNext
<1>3. ASSUME NEW h \in Hunts, CanaryPool(h) PROVE ControlNext
  BY <1>3 DEF CanaryPool, ControlNext
<1>4. ASSUME NEW s \in Starters, StartPool(s) PROVE ControlNext
  <2>1. Start(s)
    BY <1>4 DEF StartPool, Start
  <2>. QED
    BY <2>1 DEF ControlNext
<1>5. CASE ButtonPool
  BY <1>5 DEF ButtonPool, ControlMoves, ControlNext, Buttons
<1>6. ASSUME NEW c \in Healths, HealthPool(c) PROVE ControlNext
  <2>1. Health(c)
    BY <1>6 DEF HealthPool, Health
  <2>. QED
    BY <2>1 DEF ControlNext
<1>7. ASSUME NEW c \in Healths, HealthResult(c) PROVE UNCHANGED controlVars
  BY <1>7 DEF HealthResult
<1>8. ASSUME NEW k \in Checks, Check(k) PROVE UNCHANGED controlVars \/ UsesSkip
  <2>1. CASE CheckBegin(k) \/ CheckComplete(k) \/ CheckEnd(k)
    BY <2>1 DEF CheckBegin, CheckComplete, CheckEnd
  <2>2. CASE CheckCut(k)
    BY <2>2 DEF CheckCut, UsesSkip, KeepHunt, controlVars, pauseVars
  <2>. QED
    BY <1>8, <2>1, <2>2 DEF Check
<1>9. CASE UNCHANGED vars
  BY <1>9 DEF vars, ControlMoves
<1>. QED
  BY <1>1, <1>2, <1>3, <1>4, <1>5, <1>6, <1>7, <1>8, <1>9 DEF Next, ControlMoves

\* The types of the hunt's state, for all of these.
LEMMA ControlTypeStep ==
    ASSUME ControlTypeOK, ControlMoves
    PROVE  ControlTypeOK'
<1>1. CASE [ControlNext]_controlVars
  BY <1>1, TypeStep
<1>2. CASE Suspects
  BY <1>2 DEF Suspects, SuspectInternet, KeepHunt, ControlTypeOK, phaseVars, huntVars,
     healthVars, schedulerVars
<1>3. CASE Clears
  BY <1>3, WokenType DEF Clears, ClearSuspicion, KeepHunt, ControlTypeOK, phaseVars, huntVars,
     healthVars, schedulerVars
<1>4. CASE Pauses
  BY <1>4, PauseType DEF Pauses, KeepHunt, ControlTypeOK, huntVars, healthVars, schedulerVars
<1>5. CASE UsesSkip
  <2>1. UNCHANGED <<phaseVars, pauseVars, huntVars, healthVars, schedulerVars, pc, cancel, awaited,
                    current>>
    BY <1>5 DEF UsesSkip, KeepHunt
  <2>2. skip_event' \in BOOLEAN
    BY <1>5 DEF UsesSkip
  <2>. QED
    BY <2>1, <2>2 DEF ControlTypeOK, phaseVars, pauseVars, huntVars, healthVars, schedulerVars
<1>. QED
  BY <1>1, <1>2, <1>3, <1>4, <1>5 DEF ControlMoves

-----------------------------------------------------------------------------
(* The suspicion and the event.                                            *)

\* Without the stop button, whoever suspects the internet has cleared the event,
\* and whoever sets the event has dropped the suspicion.
Quiet == internet_suspect => ~pause_event

LEMMA QuietStep ==
    ASSUME "stop" \notin Ops, Quiet, ControlMoves
    PROVE  Quiet'
<1>1. ASSUME NEW s \in Starters, Start(s) PROVE Quiet'
  <2>1. CASE StartHunt(s)
    BY <2>1 DEF StartHunt, Quiet
  <2>2. CASE ~StartHunt(s)
    BY <1>1, <2>2 DEF Start, Press, NoInternet, AbortHealth, AbortHunt, SweepScheduler, pauseVars,
       Quiet
  <2>. QED
    BY <2>1, <2>2
<1>2. ASSUME NEW h \in Hunts, Hunt(h) PROVE Quiet'
  BY <1>2 DEF Hunt, HuntStage, HuntExit, NeverStarted, Gathered, HuntDownload, HuntBlacklist,
     HuntBlocklists, HuntValidate, StageDone, HuntValidated, HuntDone, HuntCancelled, HuntFailed,
     EndCycle, pauseVars, Quiet
<1>3. ASSUME NEW h \in Hunts, CanaryDown(h) \/ CanaryUp(h) PROVE Quiet'
  BY <1>3 DEF CanaryDown, CanaryUp, PauseHunt, ResumeHunt, Quiet
<1>4. ASSUME NEW c \in Healths, Health(c) PROVE Quiet'
  <2>1. CASE HealthBegin(c)
    BY <2>1 DEF HealthBegin, PauseHunt, pauseVars, Quiet
  <2>2. CASE HealthNothing(c) \/ HealthEnd(c)
    BY <2>2 DEF HealthNothing, HealthEnd, Restore, Unpause, pauseVars, Quiet
  <2>3. CASE ~HealthBegin(c) /\ ~HealthNothing(c) /\ ~HealthEnd(c)
    BY <1>4, <2>3 DEF Health, Recheck, ScheduledCheck, HealthRefused, HealthCancelled,
       HealthChecks, pauseVars, Quiet
  <2>. QED
    BY <2>1, <2>2, <2>3
<1>5. CASE Buttons \/ StopHealth
  BY <1>5 DEF Buttons, OperatorPause, OperatorResume, SkipPhase, StopHunt, StopHealth,
     PauseHunt, ResumeHunt, pauseVars, Quiet
<1>6. CASE UNCHANGED controlVars
  BY <1>6 DEF controlVars, pauseVars, Quiet
<1>7. CASE Suspects \/ Clears \/ Pauses \/ UsesSkip
  BY <1>7 DEF Suspects, SuspectInternet, Clears, ClearSuspicion, Pauses, PauseHunt, UsesSkip,
     pauseVars, Quiet
<1>. QED
  BY <1>1, <1>2, <1>3, <1>4, <1>5, <1>6, <1>7 DEF ControlMoves, ControlNext

-----------------------------------------------------------------------------
(* Steps of the pools.                                                     *)

\* The sweep of the scheduler switches off the workers a proxy_check gathers.
Swept == /\ worker' = [w \in Workers |-> IF w[1] \in Checks /\ caller[w[1]] = "gathering"
                                         THEN "off" ELSE worker[w]]
         /\ UNCHANGED <<queue, processed, job, counted>>
\* A pool begins for a hunt that goes on to its validation, or for a check.
Begins(p) == /\ BeginPool(p)
             /\ (p \in Hunts => HuntValidate(p)) /\ (p \in Checks => CheckBegin(p))
PoolMoves == \/ \E w \in Workers : Worker(w)
             \/ \E p \in Pools : Begins(p) \/ CancelPool(p)
             \/ WakeWorkers \/ Swept \/ UNCHANGED poolVars

LEMMA PoolStep ==
    ASSUME [Next]_vars
    PROVE  PoolMoves
<1>1. ASSUME NEW h \in Hunts, HuntPool(h) \/ CanaryPool(h) PROVE PoolMoves
  <2>1. CASE HuntValidate(h) /\ BeginPool(h)
    <3>1. h \notin Checks
      BY PoolAssumption DEF Procs
    <3>. QED
      BY <2>1, <3>1 DEF Begins, PoolMoves, Pools
  <2>2. CASE CancelPool(h) \/ WakeWorkers \/ UNCHANGED poolVars
    BY <2>2 DEF PoolMoves, Pools
  <2>. QED
    BY <1>1, <2>1, <2>2 DEF HuntPool, CanaryPool, PoolComplete, PoolTimeout, PoolSkipped, PoolDone,
       PoolLeft, NoPool
<1>2. ASSUME NEW s \in Starters, StartPool(s) PROVE PoolMoves
  <2>1. CASE SweepScheduler(s) /\
             LET gathering == {k \in Checks : caller[k] = "gathering"} IN
               /\ worker' = [w \in Workers |-> IF w[1] \in gathering THEN "off" ELSE worker[w]]
               /\ UNCHANGED <<queue, processed, job, counted>>
    BY <2>1 DEF Swept, PoolMoves
  <2>2. CASE WakeWorkers \/ UNCHANGED poolVars
    BY <2>2 DEF PoolMoves
  <2>. QED
    BY <1>2, <2>1, <2>2 DEF StartPool
<1>3. CASE ButtonPool
  BY <1>3 DEF ButtonPool, PoolMoves
<1>4. ASSUME NEW c \in Healths, HealthPool(c) \/ HealthResult(c) PROVE PoolMoves
  BY <1>4 DEF HealthPool, HealthResult, PoolMoves
<1>5. ASSUME NEW k \in Checks, Check(k) PROVE PoolMoves
  <2>1. CASE CheckBegin(k)
    <3>1. k \notin Hunts
      BY PoolAssumption DEF Procs
    <3>2. BeginPool(k)
      BY <2>1 DEF CheckBegin
    <3>. QED
      BY <2>1, <3>1, <3>2 DEF Begins, PoolMoves, Pools
  <2>2. CASE CheckComplete(k) \/ CheckEnd(k) \/ CheckCut(k)
    BY <2>2 DEF CheckComplete, CheckEnd, CheckCut, PoolMoves, Pools
  <2>. QED
    BY <1>5, <2>1, <2>2 DEF Check
<1>6. CASE UNCHANGED vars
  BY <1>6 DEF vars, PoolMoves
<1>. QED
  BY <1>1, <1>2, <1>3, <1>4, <1>5, <1>6 DEF Next, PoolMoves

\* Where set() takes a worker.
LEMMA ReleasedCases ==
    ASSUME NEW ws, NEW w \in Workers
    PROVE  /\ ws[w] = "paused" => Released(ws)[w] = "gate"
           /\ ws[w] = "suspect" => Released(ws)[w] = "ready"
           /\ ws[w] \notin {"paused", "suspect"} => Released(ws)[w] = ws[w]
<1>1. Released(ws)[w] = CASE ws[w] = "paused" -> "gate" [] ws[w] = "suspect" -> "ready" [] OTHER -> ws[w]
  BY DEF Released
<1>. QED
  BY <1>1

LEMMA ReleasedType ==
    ASSUME NEW ws \in [Workers -> WorkerStates]
    PROVE  Released(ws) \in [Workers -> WorkerStates]
<1>1. \A w \in Workers : Released(ws)[w] \in WorkerStates
  BY ReleasedCases DEF WorkerStates
<1>2. Released(ws) = [w \in Workers |-> Released(ws)[w]]
  BY DEF Released
<1>. QED
  BY <1>1, <1>2

PoolTypes ==
    /\ queue \in [Pools -> SUBSET Addrs] /\ processed \in [Pools -> Nat]
    /\ worker \in [Workers -> WorkerStates]
    /\ job \in [Workers -> Addrs \cup {None}] /\ counted \in [Workers -> BOOLEAN]

LEMMA PoolOfWorker == \A w \in Workers : w[1] \in Pools
BY DEF Workers

\* A worker has an address in hand in all states but two.
Holding == WorkerStates \ {"off", "take"}

\* What a worker may do: take an address, leave the pool, go on with its
\* address, or be done with it, which may wake the others.
Takes(w, a) == /\ worker[w] = "take" /\ a \in queue[w[1]]
               /\ queue' = [queue EXCEPT ![w[1]] = @ \ {a}]
               /\ job' = [job EXCEPT ![w] = a] /\ counted' = [counted EXCEPT ![w] = FALSE]
               /\ worker' = [worker EXCEPT ![w] = "ready"] /\ UNCHANGED processed
Leaves(w) == /\ worker[w] = "take" /\ worker' = [worker EXCEPT ![w] = "off"]
             /\ UNCHANGED <<queue, job, processed, counted>>
GoesOn(w, l) == /\ worker[w] \in Holding /\ l \in Holding
                /\ (l = "spinning" => internet_suspect /\ pause_event)
                /\ worker' = [worker EXCEPT ![w] = l]
                /\ counted' \in [Workers -> BOOLEAN] /\ UNCHANGED <<queue, job, processed>>
Finishes(w, ws) == /\ worker[w] \in Holding /\ ws \in {worker, Released(worker)}
                   /\ processed' = [processed EXCEPT ![w[1]] = @ + 1]
                   /\ worker' = [ws EXCEPT ![w] = "take"] /\ job' = [job EXCEPT ![w] = None]
                   /\ UNCHANGED <<queue, counted>>
WorkerDoes(w) == \/ \E a \in Addrs : Takes(w, a)
                 \/ Leaves(w)
                 \/ \E l \in Holding : GoesOn(w, l)
                 \/ \E ws \in {worker, Released(worker)} : Finishes(w, ws)

LEMMA WorkerStep ==
    ASSUME PoolTypes, NEW w \in Workers, Worker(w)
    PROVE  WorkerDoes(w)
<1>1. w[1] \in Pools /\ [counted EXCEPT ![w] = TRUE] \in [Workers -> BOOLEAN]
  BY PoolOfWorker DEF PoolTypes
<1>2. CASE Take(w)
  BY <1>1, <1>2 DEF Take, MoveTo, WorkerDoes, Takes, Leaves, PoolTypes
<1>3. CASE HoldBack(w) \/ WaitForInternet(w) \/ Probe(w)
  <2>1. worker[w] \in Holding
    BY <1>3 DEF HoldBack, WaitForInternet, Probe, AtGate, Holding, WorkerStates
  <2>2. CASE HoldBack(w)
    <3>1. GoesOn(w, "paused")
      BY <2>1, <2>2 DEF HoldBack, MoveTo, GoesOn, Holding, WorkerStates, PoolTypes
    <3>. QED
      BY <3>1 DEF WorkerDoes, Holding, WorkerStates
  <2>3. CASE WaitForInternet(w)
    <3>. DEFINE l == IF pause_event THEN "spinning" ELSE "suspect"
    <3>1. l \in Holding /\ (l = "spinning" => pause_event)
      BY DEF Holding, WorkerStates
    <3>2. /\ internet_suspect /\ worker' = [worker EXCEPT ![w] = l]
          /\ UNCHANGED <<queue, processed, job, counted>>
      BY <2>3 DEF WaitForInternet, MoveTo
    <3>. HIDE DEF l
    <3>3. GoesOn(w, l)
      BY <2>1, <3>1, <3>2 DEF GoesOn, PoolTypes
    <3>. QED
      BY <3>1, <3>3 DEF WorkerDoes
  <2>4. CASE Probe(w)
    <3>1. GoesOn(w, "check")
      BY <2>1, <2>4 DEF Probe, MoveTo, GoesOn, Holding, WorkerStates, PoolTypes
    <3>. QED
      BY <3>1 DEF WorkerDoes, Holding, WorkerStates
  <2>. QED
    BY <1>3, <2>2, <2>3, <2>4
<1>4. CASE SkipBlacklisted(w) \/ ResultDropped(w)
  <2>1. worker[w] \in Holding /\ NextAddress(w, worker)
    BY <1>4 DEF SkipBlacklisted, ResultDropped, AtGate, Holding, WorkerStates
  <2>. QED
    BY <2>1 DEF NextAddress, WorkerDoes, Finishes
<1>5. ASSUME worker[w] \in Holding, NEW set, AwaitEvent(w, worker, set),
             counted' \in [Workers -> BOOLEAN], UNCHANGED <<queue, job, processed>>
      PROVE  WorkerDoes(w)
  <2>. DEFINE l == IF set THEN "ready" ELSE "suspect"
  <2>1. l \in Holding /\ l # "spinning" /\ worker' = [worker EXCEPT ![w] = l]
    BY <1>5 DEF Holding, WorkerStates, AwaitEvent
  <2>. HIDE DEF l
  <2>. QED
    BY <1>5, <2>1 DEF GoesOn, WorkerDoes
<1>6. ASSUME worker[w] \in Holding, NEW l \in {"canary", "slow canary"}, AutoPause(w, l),
             counted' \in [Workers -> BOOLEAN]
      PROVE  WorkerDoes(w)
  <2>1. GoesOn(w, l) /\ l \in Holding
    BY <1>6 DEF AutoPause, MoveTo, GoesOn, Holding, WorkerStates
  <2>. QED
    BY <2>1 DEF WorkerDoes
<1>7. CASE FastFail(w) \/ ResultSuspect(w) \/ Result(w)
  <2>1. worker[w] \in Holding /\ counted \in [Workers -> BOOLEAN]
    BY <1>7 DEF FastFail, ResultSuspect, Result, Holding, WorkerStates, PoolTypes
  <2>2. NextAddress(w, worker) => WorkerDoes(w)
    BY <2>1 DEF NextAddress, WorkerDoes, Finishes
  <2>3. CASE FastFail(w)
    BY <1>1, <1>5, <1>6, <2>1, <2>2, <2>3 DEF FastFail
  <2>4. CASE ResultSuspect(w)
    BY <1>1, <1>5, <2>1, <2>4 DEF ResultSuspect
  <2>5. CASE Result(w)
    BY <1>6, <2>1, <2>2, <2>5 DEF Result
  <2>. QED
    BY <1>7, <2>3, <2>4, <2>5
<1>8. CASE InternetAlive(w) \/ InternetDead(w)
  <2>1. worker[w] \in Holding
    BY <1>8 DEF InternetAlive, InternetDead, Holding, WorkerStates
  <2>2. CASE InternetAlive(w)
    <3>1. NextAddress(w, Released(worker))
      BY <2>2 DEF InternetAlive, ClearSuspicion, AfterCanary
    <3>. QED
      BY <2>1, <3>1 DEF NextAddress, WorkerDoes, Finishes
  <2>3. CASE InternetDead(w)
    <3>1. CASE NextAddress(w, worker)
      BY <2>1, <3>1 DEF NextAddress, WorkerDoes, Finishes
    <3>2. CASE AwaitEvent(w, worker, pause_event') /\ UNCHANGED <<queue, processed, job, counted>>
      BY <1>5, <2>1, <3>2 DEF PoolTypes
    <3>. QED
      BY <2>3, <3>1, <3>2 DEF InternetDead, AfterCanary
  <2>. QED
    BY <1>8, <2>2, <2>3
<1>. QED
  BY <1>2, <1>3, <1>4, <1>7, <1>8 DEF Worker

LEMMA PoolTypeStep ==
    ASSUME PoolTypes, PoolMoves
    PROVE  PoolTypes'
<1>1. ASSUME NEW w \in Workers, Worker(w) PROVE PoolTypes'
  <2>1. w[1] \in Pools /\ Released(worker) \in [Workers -> WorkerStates]
    BY PoolOfWorker, ReleasedType DEF PoolTypes
  <2>2. WorkerDoes(w)
    BY <1>1, WorkerStep
  <2>3. ASSUME NEW a \in Addrs, Takes(w, a) PROVE PoolTypes'
    BY <2>1, <2>3 DEF Takes, PoolTypes, WorkerStates
  <2>4. CASE Leaves(w)
    BY <2>1, <2>4 DEF Leaves, PoolTypes, WorkerStates
  <2>5. ASSUME NEW l \in Holding, GoesOn(w, l) PROVE PoolTypes'
    BY <2>1, <2>5 DEF GoesOn, PoolTypes, Holding
  <2>6. ASSUME NEW ws \in {worker, Released(worker)}, Finishes(w, ws) PROVE PoolTypes'
    <3>1. ws \in [Workers -> WorkerStates] /\ "take" \in WorkerStates
      BY <2>1 DEF PoolTypes, WorkerStates
    <3>. QED
      BY <2>1, <2>6, <3>1 DEF Finishes, PoolTypes
  <2>. QED
    BY <2>2, <2>3, <2>4, <2>5, <2>6 DEF WorkerDoes
<1>2. ASSUME NEW p \in Pools, BeginPool(p) PROVE PoolTypes'
  BY <1>2 DEF BeginPool, Fill, PoolTypes, WorkerStates
<1>3. ASSUME NEW p \in Pools, CancelPool(p) PROVE PoolTypes'
  BY <1>3 DEF CancelPool, PoolTypes, WorkerStates
<1>4. CASE WakeWorkers
  BY <1>4, ReleasedType DEF WakeWorkers, PoolTypes
<1>5. CASE Swept
  BY <1>5 DEF Swept, PoolTypes, WorkerStates
<1>6. CASE UNCHANGED poolVars
  BY <1>6 DEF poolVars, PoolTypes
<1>. QED
  BY <1>1, <1>2, <1>3, <1>4, <1>5, <1>6 DEF PoolMoves, Begins

LEMMA NoSpinStep ==
    ASSUME PoolTypes, Quiet, NoBusyLoop, PoolMoves
    PROVE  NoBusyLoop'
<1>1. \A v \in Workers : worker[v] # "spinning" /\ Released(worker)[v] # "spinning"
  BY ReleasedCases DEF NoBusyLoop, Frozen
<1>2. Released(worker) \in [Workers -> WorkerStates] /\ worker \in [Workers -> WorkerStates]
  BY ReleasedType DEF PoolTypes
<1>3. ASSUME NEW w \in Workers, Worker(w) PROVE NoBusyLoop'
  <2>1. WorkerDoes(w)
    BY <1>3, WorkerStep
  <2>. QED
    BY <1>1, <1>2, <2>1 DEF WorkerDoes, Takes, Leaves, GoesOn, Finishes, Quiet, NoBusyLoop, Frozen
<1>4. CASE ~\E w \in Workers : Worker(w)
  BY <1>1, <1>4 DEF PoolMoves, Begins, BeginPool, CancelPool, WakeWorkers, Swept, poolVars, NoBusyLoop,
     Frozen
<1>. QED
  BY <1>3, <1>4

LEMMA InitTypes == Init => ControlTypeOK /\ PoolTypes /\ Quiet /\ NoBusyLoop
<1>. SUFFICES ASSUME Init PROVE ControlTypeOK /\ PoolTypes /\ Quiet /\ NoBusyLoop
  OBVIOUS
<1>1. ControlTypeOK
  <2>1. NothingSaved \in SavedType
    BY DEF NothingSaved, SavedType, Phases
  <2>2. "free" \in Locations /\ "idle" \in Phases /\ "done" \in Phases
    BY DEF Locations, Phases
  <2>. QED
    BY <2>1, <2>2 DEF Init, ControlInit, ControlTypeOK
<1>2. PoolTypes
  BY DEF Init, PoolTypes, WorkerStates
<1>3. Quiet /\ NoBusyLoop
  BY DEF Init, ControlInit, Quiet, NoBusyLoop, Frozen
<1>. QED
  BY <1>1, <1>2, <1>3

IndTypes == ControlTypeOK /\ PoolTypes

LEMMA TypesHold == Spec => []IndTypes
<1>1. Init => IndTypes
  BY InitTypes DEF IndTypes
<1>2. IndTypes /\ [Next]_vars => IndTypes'
  BY Controlled, ControlTypeStep, PoolStep, PoolTypeStep DEF IndTypes
<1>. QED
  BY <1>1, <1>2, PTL DEF Spec

\* As long as nobody presses stop, no worker spins on an event that is set,
\* whatever the probes, the canary, pauses, skips and health checks do: the event
\* loop is never starved.
THEOREM LoopIsNotStarved ==
    ASSUME "stop" \notin Ops
    PROVE  Spec => []NoBusyLoop
<1>1. Init => IndTypes /\ Quiet /\ NoBusyLoop
  BY InitTypes DEF IndTypes
<1>2. IndTypes /\ Quiet /\ NoBusyLoop /\ [Next]_vars => (IndTypes /\ Quiet /\ NoBusyLoop)'
  BY Controlled, ControlTypeStep, PoolStep, PoolTypeStep, QuietStep, NoSpinStep DEF IndTypes
<1>. QED
  BY <1>1, <1>2, PTL DEF Spec

-----------------------------------------------------------------------------
(* Who leaves a pool.                                                      *)

\* A worker that has stopped begins again only with its pool.
LEMMA OffStays ==
    ASSUME PoolTypes, PoolMoves, NEW v \in Workers, worker[v] = "off"
    PROVE  worker'[v] = "off" \/ Begins(v[1])
<1>1. worker \in [Workers -> WorkerStates] /\ Released(worker) \in [Workers -> WorkerStates]
  BY ReleasedType DEF PoolTypes
<1>2. Released(worker)[v] = "off"
  BY ReleasedCases
<1>3. ASSUME NEW w \in Workers, Worker(w) PROVE worker'[v] = "off"
  <2>1. WorkerDoes(w)
    BY <1>3, WorkerStep
  <2>2. w # v
    BY <2>1 DEF WorkerDoes, Takes, Leaves, GoesOn, Finishes, Holding
  <2>. QED
    BY <1>1, <1>2, <2>1, <2>2 DEF WorkerDoes, Takes, Leaves, GoesOn, Finishes
<1>4. ASSUME NEW p \in Pools, Begins(p) PROVE worker'[v] = "off" \/ Begins(v[1])
  <2>1. CASE v[1] = p
    BY <1>4, <2>1
  <2>2. CASE v[1] # p
    BY <1>4, <2>2 DEF Begins, BeginPool
  <2>. QED
    BY <2>1, <2>2
<1>5. ASSUME NEW p \in Pools, CancelPool(p) PROVE worker'[v] = "off"
  BY <1>5 DEF CancelPool
<1>6. CASE WakeWorkers \/ Swept \/ UNCHANGED poolVars
  BY <1>2, <1>6 DEF WakeWorkers, Swept, poolVars
<1>. QED
  BY <1>3, <1>4, <1>5, <1>6 DEF PoolMoves

\* Nobody but a hunt moves it, except for the end of a pause and its creation.
LEMMA HuntMoves ==
    ASSUME IndTypes, [Next]_vars, NEW h \in Hunts
    PROVE  \/ pc'[h] = pc[h]
           \/ HuntPool(h)
           \/ pc[h] = "resume" /\ pc'[h] = "woken"
           \/ pc[h] = "free" /\ pc'[h] = "created"
<1>. DEFINE Moves == \/ pc'[h] = pc[h]
                     \/ HuntPool(h)
                     \/ pc[h] = "resume" /\ pc'[h] = "woken"
                     \/ pc[h] = "free" /\ pc'[h] = "created"
<1>1. pc \in [Procs -> Locations] /\ h \in Procs /\ ControlTypeOK
  BY DEF IndTypes, ControlTypeOK, Procs
<1>2. pc' = Woken(pc) => Moves
  BY <1>1 DEF Woken
<1>3. ASSUME NEW w \in Workers, Worker(w) PROVE Moves
  BY <1>2, <1>3, WorkerMoves DEF Suspects, Clears, Pauses, controlVars
<1>4. ASSUME NEW g \in Hunts, HuntPool(g) \/ CanaryPool(g) PROVE Moves
  <2>1. CASE g = h /\ HuntPool(g)
    BY <2>1
  <2>2. CASE CanaryPool(g)
    BY <1>2, <2>2 DEF CanaryPool, CanaryUp, CanaryDown, ResumeHunt
  <2>3. CASE g # h /\ HuntPool(g)
    <3>1. Hunt(g)
      BY <2>3 DEF HuntPool, PoolComplete, PoolTimeout, PoolSkipped, PoolDone, PoolLeft, NoPool,
         Hunt, HuntStage, HuntExit
    <3>. QED
      BY <1>1, <2>3, <3>1 DEF Hunt, HuntStage, HuntExit, NeverStarted, Gathered, HuntDownload,
         HuntBlacklist, HuntBlocklists, HuntValidate, StageDone, HuntValidated, HuntDone,
         HuntCancelled, HuntFailed, EndCycle, Yield
  <2>. QED
    BY <1>4, <2>1, <2>2, <2>3
<1>5. ASSUME NEW s \in Starters, StartPool(s) PROVE Moves
  <2>1. s # h /\ Start(s)
    BY <1>5, HuntProcs DEF StartPool, Start
  <2>2. CASE StartHunt(s)
    <3>1. CASE health_running
      BY <1>1, <2>1, <2>2, <3>1 DEF StartHunt, Woken
    <3>2. CASE ~health_running
      <4>1. PICK g \in FreshHunts : pc' = [Woken(pc) EXCEPT ![s] = "free", ![g] = "created"]
        BY <2>2, <3>2 DEF StartHunt
      <4>2. g = h => pc[h] = "free"
        BY <4>1 DEF FreshHunts, Alive
      <4>. QED
        BY <1>1, <2>1, <4>1, <4>2 DEF Woken
    <3>. QED
      BY <3>1, <3>2
  <2>3. CASE ~StartHunt(s)
    BY <1>1, <2>1, <2>3 DEF Start, Press, NoInternet, AbortHealth, AbortHunt, SweepScheduler,
       Yield, Goto
  <2>. QED
    BY <2>2, <2>3
<1>6. ASSUME ButtonPool PROVE Moves
  BY <1>2, <1>6 DEF ButtonPool, OperatorPause, SkipPhase, StopHealth, OperatorResume, ResumeHunt,
     StopHunt, PauseHunt
<1>7. ASSUME NEW c \in Healths, HealthPool(c) PROVE Moves
  <2>1. c # h /\ Health(c)
    BY <1>7, HuntProcs DEF HealthPool, Health, Healths
  <2>2. CASE HealthNothing(c) \/ HealthEnd(c)
    BY <1>1, <2>1, <2>2, RestoreMoves DEF HealthNothing, HealthEnd
  <2>3. CASE ~HealthNothing(c) /\ ~HealthEnd(c)
    BY <1>1, <2>1, <2>3 DEF Health, Recheck, ScheduledCheck, HealthRefused, HealthBegin,
       HealthCancelled, HealthChecks, Yield, Goto
  <2>. QED
    BY <2>2, <2>3
<1>8. ASSUME NEW c \in Healths, HealthResult(c) PROVE Moves
  BY <1>8 DEF HealthResult, controlVars
<1>9. ASSUME NEW k \in Checks, Check(k) PROVE Moves
  BY <1>9 DEF Check, CheckBegin, CheckComplete, CheckEnd, CheckCut, controlVars
<1>10. ASSUME UNCHANGED vars PROVE Moves
  BY <1>10 DEF vars, controlVars
<1>. HIDE DEF Moves
<1>11. Moves
  BY <1>3, <1>4, <1>5, <1>6, <1>7, <1>8, <1>9, <1>10 DEF Next
<1>. QED
  BY <1>11 DEF Moves

\* A hunt that has left its validation has no workers left.
LeftClean == \A h \in Hunts : pc[h] \in {"resume", "woken"} => AllOff(h)

\* What a hunt's own step does to its workers.
LEMMA HuntLeaves ==
    ASSUME IndTypes, LeftClean, NEW h \in Hunts, HuntPool(h)
    PROVE  /\ pc'[h] \in {"resume", "woken"} => AllOff(h)'
           /\ pc[h] \in {"validate", "woken"} /\ pc'[h] = "free" /\ h \notin cancel => AllOff(h)'
<1>1. pc \in [Procs -> Locations] /\ h \in Procs
  BY DEF IndTypes, ControlTypeOK, Procs
<1>2. CASE HuntValidate(h)
  BY <1>1, <1>2 DEF HuntValidate, StageDone, Yield
<1>3. CASE PoolComplete(h) \/ PoolTimeout(h)
  BY <1>1, <1>3 DEF PoolComplete, PoolTimeout, Gathered, Stages
<1>4. CASE PoolSkipped(h)
  BY <1>4 DEF PoolSkipped, CancelPool, AllOff, WorkersOf
<1>5. CASE PoolDone(h)
  BY <1>5 DEF PoolDone, AllOff, poolVars
<1>6. CASE PoolLeft(h)
  BY <1>1, <1>6 DEF PoolLeft, HuntCancelled, EndCycle, Yield
<1>7. CASE NoPool(h)
  <2>1. CASE HuntDone(h)
    <3>1. pc[h] = "woken" /\ UNCHANGED poolVars
      BY <1>7, <2>1 DEF NoPool, HuntDone, At
    <3>. QED
      BY <3>1 DEF LeftClean, AllOff, poolVars
  <2>2. CASE ~HuntDone(h)
    <3>1. /\ pc[h] \notin {"resume", "woken", "validate"}
          /\ pc'[h] \notin {"resume", "woken"}
      BY <1>1, <1>7, <2>2 DEF NoPool, Gathered, HuntFailed, NeverStarted, HuntDownload,
         HuntBlacklist, HuntBlocklists, StageDone, MayGoOn, At, EndCycle, Yield, Stages
    <3>. QED
      BY <3>1
  <2>. QED
    BY <2>1, <2>2
<1>. QED
  BY <1>2, <1>3, <1>4, <1>5, <1>6, <1>7 DEF HuntPool

\* A pool that does not begin stays empty.
LEMMA StaysClean ==
    ASSUME PoolTypes, PoolMoves, NEW p \in Pools, AllOff(p), ~Begins(p)
    PROVE  AllOff(p)'
<1>1. ASSUME NEW v \in WorkersOf(p) PROVE worker'[v] = "off"
  <2>1. v \in Workers /\ v[1] = p /\ worker[v] = "off"
    BY DEF WorkersOf, AllOff
  <2>. QED
    BY <2>1, OffStays
<1>. QED
  BY <1>1 DEF AllOff, WorkersOf

LeavesClean ==
    \A h \in Hunts : pc[h] \in {"validate", "woken"} /\ pc'[h] = "free" /\ h \notin cancel
        => AllOff(h)'

LEMMA CleanStep ==
    ASSUME IndTypes, LeftClean, [Next]_vars
    PROVE  LeftClean' /\ LeavesClean
<1>1. ASSUME NEW h \in Hunts
      PROVE  /\ (pc[h] \in {"resume", "woken"} => AllOff(h))'
             /\ pc[h] \in {"validate", "woken"} /\ pc'[h] = "free" /\ h \notin cancel => AllOff(h)'
  <2>1. CASE HuntPool(h)
    BY <2>1, HuntLeaves
  <2>2. CASE pc'[h] \in {"resume", "woken"} /\ pc[h] \in {"resume", "woken"}
    <3>1. ~Begins(h)
      BY <2>2 DEF Begins, HuntValidate, StageDone, MayGoOn, At
    <3>2. AllOff(h)'
      BY <2>2, <3>1, PoolStep, StaysClean DEF LeftClean, IndTypes, Pools
    <3>. QED
      BY <2>2, <3>2
  <2>. QED
    BY <2>1, <2>2, HuntMoves
<1>. QED
  BY <1>1 DEF LeftClean, LeavesClean

\* A hunt that is not cancelled leaves no worker behind it, with any number of
\* workers, whatever the operator, the canary and the scheduler do meanwhile.
THEOREM HuntEndsClean == Spec => EndsClean
<1>1. Init => LeftClean
  BY DEF Init, LeftClean, AllOff, WorkersOf
<1>2. IndTypes /\ LeftClean /\ [Next]_vars => LeftClean'
  BY CleanStep
<1>3. IndTypes /\ LeftClean /\ [Next]_vars =>
        [\A h \in Hunts : pc[h] \in {"validate", "woken"} /\ pc'[h] = "free" /\ h \notin cancel
            => AllOff(h)']_vars
  BY CleanStep DEF LeavesClean
<1>. QED
  BY <1>1, <1>2, <1>3, TypesHold, PTL DEF Spec, EndsClean

-----------------------------------------------------------------------------
(* Workers and their caller.                                               *)

\* One request at a time, no hunt and no proxy_check under the feet of another,
\* and no stop: nobody cancels a hunt.
Orderly == OneAtATime /\ Ops \cap {"stop", "again"} = {}

\* A request has seen to it that nothing runs, and nothing begins before its hunt.
Attended ==
    /\ cancel \cap Hunts = {}
    /\ \A s \in Starters : Alive(s) => (\A h \in Hunts : ~Alive(h)) /\ ChecksDone
CallerType == caller \in [Checks -> {"free", "waiting", "gathering"}]
\* Workers are at work only while their caller gathers them.
Gathering(p) == IF p \in Checks THEN caller[p] # "free" ELSE pc[p] = "validate"
WorkersHaveCaller == \A w \in Workers : worker[w] # "off" => Gathering(w[1])
IndCaller == IndTypes /\ OneHunt /\ CallerType /\ Attended /\ WorkersHaveCaller

\* The end of a pause moves nobody in or out.
LEMMA WokenAlive ==
    ASSUME pc' = Woken(pc), NEW p \in Procs
    PROVE  Alive(p)' <=> Alive(p)
BY DEF Woken, Alive

LEMMA OneHuntKept ==
    ASSUME OneAtATime, IndTypes, OneHunt, [Next]_vars
    PROVE  OneHunt'
<1>1. CASE [ControlNext]_controlVars
  BY <1>1, OneHuntStep DEF IndTypes
<1>2. CASE Suspects \/ Clears \/ Pauses \/ UsesSkip
  <2>1. UNCHANGED <<task, awaited>>
    BY <1>2 DEF Suspects, Clears, Pauses, UsesSkip, KeepHunt, huntVars
  <2>2. /\ pc' \in {pc, Woken(pc)} /\ pc \in [Procs -> Locations]
        /\ task \in Hunts \cup {None} /\ \A x \in Hunts \cup Starters : x \in Procs
    BY <1>2 DEF Suspects, Clears, Pauses, UsesSkip, IndTypes, ControlTypeOK, Procs
  <2>3. \A p \in Procs : /\ Alive(p)' <=> Alive(p)
                         /\ pc'[p] \in {"task", "sweep"} => pc'[p] = pc[p]
    BY <2>2, WokenAlive DEF Woken, Alive
  <2>4. TaskAlive' => TaskAlive
    BY <2>1, <2>2, <2>3 DEF TaskAlive
  <2>. QED
    BY <2>1, <2>2, <2>3, <2>4 DEF OneHunt, TaskIsHunt, AwaitsTask, SweptClean
<1>. QED
  BY <1>1, <1>2, Controlled DEF ControlMoves

LEMMA CallerTypeStep ==
    ASSUME CallerType, [Next]_vars
    PROVE  CallerType'
<1>1. ASSUME NEW w \in Workers, Worker(w) PROVE UNCHANGED caller
  BY <1>1 DEF Worker, Take, HoldBack, SkipBlacklisted, WaitForInternet, Probe, ResultDropped,
     FastFail, ResultSuspect, Result, InternetAlive, InternetDead
<1>2. ASSUME NEW s \in Starters, StartPool(s) PROVE CallerType'
  BY <1>2 DEF StartPool, CallerType
<1>3. ASSUME NEW k \in Checks, Check(k) PROVE CallerType'
  BY <1>3 DEF Check, CheckBegin, CheckComplete, CheckEnd, CheckCut, CallerType
<1>4. ASSUME NEW c \in Healths, HealthResult(c) PROVE UNCHANGED caller
  BY <1>4 DEF HealthResult
<1>. QED
  BY <1>1, <1>2, <1>3, <1>4 DEF Next, Others, vars, CallerType

LEMMA AttendedStep ==
    ASSUME Orderly, IndCaller, [Next]_vars
    PROVE  Attended'
<1>. USE DEF Orderly
<1>1. /\ pc \in [Procs -> Locations] /\ Attended /\ OneAtATime
      /\ \A h \in Hunts : h \in Procs /\ h \notin Starters /\ h \notin Healths
      /\ \A s \in Starters : s \in Procs /\ s \notin Healths
  BY HuntProcs DEF IndCaller, IndTypes, ControlTypeOK, Procs
<1>2. ASSUME pc' \in {pc, Woken(pc)}, UNCHANGED <<cancel, caller>> PROVE Attended'
  <2>1. \A p \in Procs : Alive(p)' <=> Alive(p)
    BY <1>2, WokenAlive DEF Alive
  <2>. QED
    BY <1>1, <1>2, <2>1 DEF Attended, ChecksDone
<1>3. ASSUME NEW w \in Workers, Worker(w) PROVE Attended'
  <2>1. UNCHANGED caller
    BY <1>3 DEF Worker, Take, HoldBack, SkipBlacklisted, WaitForInternet, Probe, ResultDropped,
       FastFail, ResultSuspect, Result, InternetAlive, InternetDead
  <2>. QED
    BY <1>2, <1>3, <2>1, WorkerMoves DEF controlVars, Suspects, Clears, Pauses, KeepHunt
<1>4. ASSUME NEW h \in Hunts, HuntPool(h), Others PROVE Attended'
  <2>1. Hunt(h)
    BY <1>4 DEF HuntPool, PoolComplete, PoolTimeout, PoolSkipped, PoolDone, PoolLeft, NoPool,
       Hunt, HuntStage, HuntExit
  <2>2. /\ \A p \in Procs \ {h} : pc'[p] = pc[p]
        /\ Alive(h) /\ cancel' \in {cancel, cancel \ {h}}
    BY <1>1, <2>1 DEF Hunt, HuntStage, HuntExit, NeverStarted, Gathered, HuntDownload, HuntBlacklist,
       HuntBlocklists, HuntValidate, StageDone, HuntValidated, HuntDone, HuntCancelled,
       HuntFailed, EndCycle, Yield, MayGoOn, Waiting, At, Alive, Stages
  <2>3. \A s \in Starters : ~Alive(s)
    BY <1>1, <2>2 DEF Attended
  <2>4. \A s \in Starters : ~Alive(s)'
    BY <1>1, <2>2, <2>3 DEF Alive
  <2>. QED
    BY <1>1, <2>2, <2>4 DEF Attended
<1>5. ASSUME NEW h \in Hunts, CanaryPool(h), Others PROVE Attended'
  BY <1>2, <1>5 DEF CanaryPool, CanaryDown, CanaryUp, ResumeHunt, Others
<1>6. ASSUME NEW s \in Starters, StartPool(s) PROVE Attended'
  <2>1. /\ \A t \in Starters : t = s
        /\ task \in Hunts \cup {None} /\ health_task \in Rechecks \cup {None}
        /\ Hunts \cap (Rechecks \cup Scheduled) = {}
    BY <1>1, HuntProcs DEF OneAtATime, IndCaller, IndTypes, ControlTypeOK, Healths
  <2>2. CASE Press(s)
    <3>1. ~TaskAlive /\ ChecksDone
      BY <1>6, <2>2, HuntProcs DEF StartPool, Press, NoInternet, AbortHealth, AbortHunt,
         SweepScheduler, StartHunt, At
    <3>2. \A h \in Hunts : ~Alive(h)
      BY <3>1, HuntProcs DEF IndCaller, OneHunt, TaskIsHunt, TaskAlive, Procs
    <3>3. UNCHANGED <<caller, cancel>>
      BY <1>6, <2>2 DEF StartPool, Press, SweepScheduler, At
    <3>. QED
      BY <1>1, <2>2, <3>1, <3>2, <3>3 DEF Press, Yield, Attended, Alive, ChecksDone
  <2>3. CASE NoInternet(s) \/ AbortHealth(s) \/ AbortHunt(s)
    <3>1. Alive(s) /\ ChecksDone /\ \A h \in Hunts : ~Alive(h)
      BY <1>1, <2>3 DEF NoInternet, AbortHealth, AbortHunt, At, Alive, Attended
    <3>2. ~TaskAlive
      BY <2>1, <3>1 DEF TaskAlive
    <3>3. cancel' \cap Hunts = {} /\ \A h \in Hunts : pc'[h] = pc[h]
      BY <1>1, <2>1, <2>3, <3>2 DEF NoInternet, AbortHealth, AbortHunt, Yield, Goto, Attended
    <3>4. UNCHANGED caller
      BY <1>6, <2>3 DEF StartPool, NoInternet, AbortHealth, AbortHunt, SweepScheduler, At
    <3>. QED
      BY <3>1, <3>3, <3>4 DEF Attended, Alive, ChecksDone
  <2>4. CASE SweepScheduler(s)
    <3>1. Alive(s) /\ ChecksDone /\ \A h \in Hunts : ~Alive(h)
      BY <1>1, <2>4 DEF SweepScheduler, At, Alive, Attended
    <3>2. cancel' \cap Hunts = {} /\ \A h \in Hunts : pc'[h] = pc[h]
      BY <1>1, <2>1, <2>4 DEF SweepScheduler, Yield, Goto, Attended
    <3>3. ChecksDone'
      BY <1>6, <3>1 DEF StartPool, ChecksDone
    <3>. QED
      BY <3>1, <3>2, <3>3 DEF Attended, Alive
  <2>5. CASE StartHunt(s)
    <3>1. pc'[s] = "free"
      <4>1. CASE health_running
        BY <1>1, <2>5, <4>1 DEF StartHunt, Woken
      <4>2. CASE ~health_running
        BY <1>1, <2>5, <4>2 DEF StartHunt, Woken, FreshHunts
      <4>. QED
        BY <4>1, <4>2
    <3>. QED
      BY <1>1, <2>1, <2>5, <3>1 DEF StartHunt, Attended, Alive
  <2>. QED
    BY <1>6, <2>2, <2>3, <2>4, <2>5 DEF StartPool
<1>7. ASSUME ButtonPool, Others PROVE Attended'
  <2>1. CASE StopHealth
    <3>1. \A h \in Hunts : h \notin Rechecks
      BY <1>1 DEF Healths
    <3>2. UNCHANGED <<pc, caller>> /\ cancel' \cap Hunts = {}
      BY <1>1, <1>7, <2>1, <3>1 DEF StopHealth, Others, Attended
    <3>. QED
      BY <1>1, <3>2 DEF Attended, Alive, ChecksDone
  <2>2. CASE ~StopHealth
    BY <1>2, <1>7, <2>2 DEF ButtonPool, OperatorPause, SkipPhase, OperatorResume, ResumeHunt,
       StopHunt, Others
  <2>. QED
    BY <2>1, <2>2
<1>8. ASSUME NEW c \in Healths, HealthPool(c), UNCHANGED caller PROVE Attended'
  <2>1. Health(c) /\ c \in Procs
    BY <1>8 DEF HealthPool, Health, Procs
  <2>2. cancel' \in {cancel, cancel \ {c}}
    BY <2>1 DEF Health, Recheck, ScheduledCheck, HealthRefused, HealthBegin, HealthCancelled,
       HealthChecks, HealthNothing, HealthEnd
  <2>3. \A p \in Procs : p # c => (Alive(p)' <=> Alive(p))
    <3>1. CASE HealthNothing(c) \/ HealthEnd(c)
      BY <3>1, RestoreMoves DEF HealthNothing, HealthEnd, Alive, IndCaller, IndTypes
    <3>2. CASE ~HealthNothing(c) /\ ~HealthEnd(c)
      BY <1>1, <2>1, <3>2 DEF Health, Recheck, ScheduledCheck, HealthRefused, HealthBegin,
         HealthCancelled, HealthChecks, Yield, Goto, Alive
    <3>. QED
      BY <3>1, <3>2
  <2>4. \A p \in Hunts \cup Starters : Alive(p)' <=> Alive(p)
    BY <1>1, <2>3
  <2>. QED
    BY <1>1, <1>8, <2>2, <2>4 DEF Attended, ChecksDone
<1>9. ASSUME NEW c \in Healths, HealthResult(c) PROVE Attended'
  BY <1>2, <1>9 DEF HealthResult, controlVars
<1>10. ASSUME NEW k \in Checks, Check(k) PROVE Attended'
  <2>1. UNCHANGED <<pc, cancel>>
    BY <1>10 DEF Check, CheckBegin, CheckComplete, CheckEnd, CheckCut, controlVars
  <2>2. \A s \in Starters : ~Alive(s)
    BY <1>1, <1>10 DEF Check, CheckBegin, CheckComplete, CheckEnd, CheckCut, Attended, ChecksDone
  <2>. QED
    BY <1>1, <2>1, <2>2 DEF Attended, Alive
<1>11. CASE UNCHANGED vars
  BY <1>2, <1>11 DEF vars, controlVars
<1>. QED
  BY <1>3, <1>4, <1>5, <1>6, <1>7, <1>8, <1>9, <1>10, <1>11 DEF Next

\* Who no longer gathers its workers has none.
LEMMA HuntGathers ==
    ASSUME Orderly, IndCaller, [Next]_vars, NEW h \in Hunts, pc[h] = "validate"
    PROVE  pc'[h] = "validate" \/ AllOff(h)'
<1>1. h \notin cancel /\ pc \in [Procs -> Locations] /\ h \in Procs
  BY DEF IndCaller, Attended, IndTypes, ControlTypeOK, Procs
<1>2. CASE HuntPool(h)
  <2>1. CASE HuntValidate(h) \/ PoolLeft(h) \/ NoPool(h)
    BY <1>1, <2>1 DEF HuntValidate, StageDone, MayGoOn, At, PoolLeft, HuntCancelled, NoPool,
       NeverStarted, HuntDownload, HuntBlacklist, HuntBlocklists, HuntDone
  <2>2. CASE PoolComplete(h) \/ PoolTimeout(h)
    BY <2>2 DEF PoolComplete, PoolTimeout, Gathered
  <2>3. CASE PoolSkipped(h)
    BY <2>3 DEF PoolSkipped, CancelPool, AllOff, WorkersOf
  <2>4. CASE PoolDone(h)
    BY <2>4 DEF PoolDone, AllOff, poolVars
  <2>. QED
    BY <1>2, <2>1, <2>2, <2>3, <2>4 DEF HuntPool
<1>. QED
  BY <1>2, HuntMoves DEF IndCaller

LEMMA CheckGathers ==
    ASSUME IndCaller, [Next]_vars, NEW k \in Checks, caller[k] # "free"
    PROVE  caller'[k] # "free" \/ AllOff(k)'
<1>1. CallerType /\ Attended
  BY DEF IndCaller
<1>2. ASSUME NEW w \in Workers, Worker(w) PROVE UNCHANGED caller
  BY <1>2 DEF Worker, Take, HoldBack, SkipBlacklisted, WaitForInternet, Probe, ResultDropped,
     FastFail, ResultSuspect, Result, InternetAlive, InternetDead
<1>3. ASSUME NEW s \in Starters, StartPool(s) PROVE UNCHANGED caller
  <2>1. ~SweepScheduler(s)
    BY <1>1 DEF SweepScheduler, At, Attended, Alive, ChecksDone
  <2>. QED
    BY <1>3, <2>1 DEF StartPool
<1>4. ASSUME NEW j \in Checks, Check(j) PROVE caller'[k] # "free" \/ AllOff(k)'
  <2>1. CASE CheckBegin(j) \/ CheckComplete(j)
    BY <1>1, <2>1 DEF CheckBegin, CheckComplete, CallerType
  <2>2. CASE CheckEnd(j)
    BY <1>1, <2>2 DEF CheckEnd, CallerType, AllOff, poolVars
  <2>3. CASE CheckCut(j)
    BY <1>1, <2>3 DEF CheckCut, CancelPool, CallerType, AllOff, WorkersOf
  <2>. QED
    BY <1>4, <2>1, <2>2, <2>3 DEF Check
<1>5. ASSUME NEW c \in Healths, HealthResult(c) PROVE UNCHANGED caller
  BY <1>5 DEF HealthResult
<1>. QED
  BY <1>2, <1>3, <1>4, <1>5 DEF Next, Others, vars

LEMMA CallerStep ==
    ASSUME Orderly, IndCaller, [Next]_vars
    PROVE  WorkersHaveCaller'
<1>1. PoolTypes /\ PoolMoves /\ WorkersHaveCaller /\ CallerType /\ pc \in [Procs -> Locations]
  BY PoolStep DEF IndCaller, IndTypes, ControlTypeOK
<1>2. \A p \in Checks : p \notin Procs
  BY PoolAssumption
<1>3. ASSUME NEW w \in Workers, worker'[w] # "off" PROVE Gathering(w[1])'
  <2>1. w[1] \in Pools /\ w \in WorkersOf(w[1])
    BY PoolOfWorker DEF WorkersOf
  <2>2. CASE worker[w] = "off"
    <3>1. Begins(w[1])
      BY <1>1, <1>3, <2>2, OffStays
    <3>2. CASE w[1] \in Checks
      BY <1>1, <3>1, <3>2 DEF Begins, CheckBegin, CallerType, Gathering
    <3>3. CASE w[1] \in Hunts
      BY <1>1, <1>2, <3>1, <3>3 DEF Begins, HuntValidate, StageDone, Yield, Gathering, Procs
    <3>. QED
      BY <2>1, <3>2, <3>3 DEF Pools
  <2>3. CASE worker[w] # "off"
    <3>1. Gathering(w[1]) /\ ~AllOff(w[1])'
      BY <1>1, <1>3, <2>1, <2>3 DEF WorkersHaveCaller, AllOff, WorkersOf
    <3>2. CASE w[1] \in Checks
      BY <3>1, <3>2, CheckGathers DEF Gathering
    <3>3. CASE w[1] \in Hunts
      BY <1>2, <3>1, <3>3, HuntGathers DEF Gathering, Procs
    <3>. QED
      BY <2>1, <3>2, <3>3 DEF Pools
  <2>. QED
    BY <2>2, <2>3
<1>. QED
  BY <1>3 DEF WorkersHaveCaller

LEMMA CallerInit == Init => IndCaller
<1>. SUFFICES ASSUME Init PROVE IndCaller
  OBVIOUS
<1>1. \A p \in Procs : ~Alive(p)
  BY DEF Init, ControlInit, Alive
<1>2. OneHunt /\ Attended
  BY <1>1 DEF Init, ControlInit, OneHunt, TaskIsHunt, AwaitsTask, SweptClean, Attended, Alive, Procs
<1>3. CallerType /\ WorkersHaveCaller
  BY DEF Init, CallerType, WorkersHaveCaller
<1>. QED
  BY <1>2, <1>3, InitTypes DEF IndCaller, IndTypes

LEMMA CallerInvariant ==
    ASSUME Orderly, IndCaller, [Next]_vars
    PROVE  IndCaller'
BY OneHuntKept, CallerTypeStep, AttendedStep, CallerStep, Controlled, ControlTypeStep, PoolStep,
   PoolTypeStep DEF Orderly, IndCaller, IndTypes

\* Who starts a pool of workers stays until they have stopped, as long as requests
\* come one at a time, not while a hunt or a proxy_check runs, and nobody presses
\* stop: deadlines, skips and failures leave no worker without its caller.
THEOREM NobodyStrays ==
    ASSUME Orderly
    PROVE  Spec => []NoStrays
<1>1. Init => IndCaller
  BY CallerInit
<1>2. IndCaller /\ [Next]_vars => IndCaller'
  BY CallerInvariant
<1>3. IndCaller => NoStrays
  BY PoolOfWorker, PoolAssumption DEF IndCaller, WorkersHaveCaller, Gathering, NoStrays, Busy, Alive, Pools,
     Procs
<1>. QED
  BY <1>1, <1>2, <1>3, PTL DEF Spec

-----------------------------------------------------------------------------
(* The account of a pool.                                                  *)

\* The addresses of a pool that are not dealt with.
Left(p) == queue[p] \cup {a \in Addrs : \E w \in WorkersOf(p) : job[w] = a}

\* Only a worker that is at an address has one, which nobody else has.
Hands == \A w \in Workers : worker[w] \in {"off", "take"} <=> job[w] = None
Apart == /\ \A w, v \in Workers : w # v /\ w[1] = v[1] /\ job[w] # None => job[v] # job[w]
         /\ \A w \in Workers : job[w] \notin queue[w[1]]
Counting == \A p \in Pools : processed[p] + Cardinality(Left(p)) <= Total
\* A check gathers the workers of a pool that has nothing left.
GatheredAll == \A k \in Checks : caller[k] = "gathering" => Complete(k)
Account == Hands /\ Apart /\ Counting
IndAccount == IndTypes /\ CallerType /\ Account /\ GatheredAll

LEMMA LeftFinite ==
    ASSUME PoolTypes, NEW p \in Pools
    PROVE  /\ Left(p) \subseteq Addrs /\ IsFiniteSet(Left(p))
           /\ Cardinality(Left(p)) \in Nat /\ Total \in Nat
<1>1. Left(p) \subseteq Addrs
  BY DEF Left, PoolTypes
<1>. QED
  BY <1>1, PoolAssumption, FS_Subset, FS_CardinalityType DEF Total

\* An address changes hands, or is dealt with.
LEMMA WorkerAccounts ==
    ASSUME PoolTypes, Account, NEW w \in Workers, WorkerDoes(w)
    PROVE  Account'
<1>1. w[1] \in Pools /\ None \notin Addrs /\ \A v \in Workers : v[1] \in Pools
  BY PoolOfWorker, PoolAssumption
<1>2. \A v \in Workers : Released(worker)[v] \in {"off", "take"} <=> worker[v] \in {"off", "take"}
  BY ReleasedCases
<1>3. worker \in [Workers -> WorkerStates] /\ Released(worker) \in [Workers -> WorkerStates]
  BY ReleasedType DEF PoolTypes
<1>4. ASSUME NEW a \in Addrs, Takes(w, a) PROVE Account'
  <2>1. job[w] = None /\ a \in queue[w[1]]
    BY <1>4 DEF Takes, Account, Hands
  <2>2. /\ queue' = [queue EXCEPT ![w[1]] = @ \ {a}] /\ job' = [job EXCEPT ![w] = a]
        /\ worker' = [worker EXCEPT ![w] = "ready"] /\ UNCHANGED processed
    BY <1>4 DEF Takes
  <2>3. Hands'
    BY <1>1, <2>2 DEF Account, Hands, PoolTypes
  <2>4. Apart'
    BY <1>1, <2>1, <2>2 DEF Account, Apart, PoolTypes
  <2>5. ASSUME NEW p \in Pools PROVE Left(p)' = Left(p)
    BY <1>1, <2>1, <2>2 DEF Left, WorkersOf, PoolTypes
  <2>. QED
    BY <2>2, <2>3, <2>4, <2>5 DEF Account, Counting, Total
<1>5. ASSUME UNCHANGED <<queue, job, processed>>,
             \A v \in Workers : worker'[v] \in {"off", "take"} <=> worker[v] \in {"off", "take"}
      PROVE  Account'
  <2>1. \A p \in Pools : Left(p)' = Left(p)
    BY <1>5 DEF Left
  <2>. QED
    BY <1>5, <2>1 DEF Account, Hands, Apart, Counting, Total
<1>6. CASE Leaves(w)
  BY <1>3, <1>5, <1>6 DEF Leaves
<1>7. ASSUME NEW l \in Holding, GoesOn(w, l) PROVE Account'
  BY <1>3, <1>5, <1>7 DEF GoesOn, Holding
<1>8. ASSUME NEW ws \in {worker, Released(worker)}, Finishes(w, ws) PROVE Account'
  <2>1. job[w] # None /\ job[w] \in Addrs
    BY <1>8 DEF Finishes, Account, Hands, Holding, PoolTypes
  <2>2. /\ processed' = [processed EXCEPT ![w[1]] = @ + 1]
        /\ worker' = [ws EXCEPT ![w] = "take"] /\ job' = [job EXCEPT ![w] = None]
        /\ UNCHANGED queue
    BY <1>8 DEF Finishes
  <2>3. Hands'
    BY <1>2, <1>3, <2>2 DEF Account, Hands, PoolTypes
  <2>4. Apart'
    BY <1>1, <2>1, <2>2 DEF Account, Apart, PoolTypes
  <2>5. ASSUME NEW p \in Pools, p # w[1] PROVE Left(p)' = Left(p)
    BY <1>1, <2>2, <2>5 DEF Left, WorkersOf, PoolTypes
  <2>6. Left(w[1])' = Left(w[1]) \ {job[w]} /\ job[w] \in Left(w[1])
    BY <1>1, <2>1, <2>2 DEF Left, WorkersOf, PoolTypes, Account, Apart
  <2>7. Cardinality(Left(w[1]))' = Cardinality(Left(w[1])) - 1
    <3>1. IsFiniteSet(Left(w[1]))
      BY <1>1, LeftFinite
    <3>2. Cardinality(Left(w[1]) \ {job[w]}) = Cardinality(Left(w[1])) - 1
      BY <2>6, <3>1, FS_RemoveElement
    <3>. QED
      BY <2>6, <3>2
  <2>8. ASSUME NEW p \in Pools PROVE (processed[p] + Cardinality(Left(p)) <= Total)'
    <3>1. processed[p] + Cardinality(Left(p)) <= Total /\ processed[p] \in Nat
      BY DEF Account, Counting, PoolTypes
    <3>2. Cardinality(Left(p)) \in Nat /\ Total \in Nat /\ Total' = Total
      BY LeftFinite DEF Total
    <3>3. CASE p = w[1]
      BY <2>2, <2>7, <3>1, <3>2, <3>3 DEF PoolTypes
    <3>4. CASE p # w[1]
      BY <2>2, <2>5, <3>1, <3>2, <3>4 DEF PoolTypes
    <3>. QED
      BY <3>3, <3>4
  <2>. QED
    BY <2>3, <2>4, <2>8 DEF Account, Counting
<1>. QED
  BY <1>4, <1>6, <1>7, <1>8 DEF WorkerDoes

\* So does the account of every pool, whatever happens to the pools.
LEMMA AccountStep ==
    ASSUME IndAccount, PoolMoves
    PROVE  Account'
<1>1. PoolTypes /\ Account /\ None \notin Addrs /\ \A v \in Workers : v[1] \in Pools
  BY PoolOfWorker, PoolAssumption DEF IndAccount, IndTypes
<1>2. ASSUME NEW w \in Workers, Worker(w) PROVE Account'
  BY <1>1, <1>2, WorkerStep, WorkerAccounts
<1>3. ASSUME UNCHANGED <<queue, job, processed>>,
             \A v \in Workers : worker'[v] \in {"off", "take"} <=> worker[v] \in {"off", "take"}
      PROVE  Account'
  <2>1. \A p \in Pools : Left(p)' = Left(p)
    BY <1>3 DEF Left
  <2>. QED
    BY <1>1, <1>3, <2>1 DEF Account, Hands, Apart, Counting, Total
<1>4. ASSUME NEW p \in Pools, BeginPool(p) PROVE Account'
  <2>1. \A v \in WorkersOf(p) : job[v] = None
    BY <1>1, <1>4 DEF BeginPool, AllOff, WorkersOf, Account, Hands
  <2>2. /\ queue' = [queue EXCEPT ![p] = Addrs] /\ processed' = [processed EXCEPT ![p] = 0]
        /\ worker' = [v \in Workers |-> IF v[1] = p THEN "take" ELSE worker[v]]
        /\ UNCHANGED job
    BY <1>4 DEF BeginPool, Fill
  <2>3. Hands'
    BY <1>1, <2>1, <2>2 DEF Account, Hands, WorkersOf
  <2>4. Apart'
    BY <1>1, <2>1, <2>2 DEF Account, Apart, WorkersOf, PoolTypes
  <2>5. Left(p)' = Addrs /\ processed'[p] = 0
    BY <1>1, <2>1, <2>2 DEF Left, PoolTypes
  <2>6. ASSUME NEW q \in Pools, q # p PROVE Left(q)' = Left(q) /\ processed'[q] = processed[q]
    BY <1>1, <2>2, <2>6 DEF Left, PoolTypes
  <2>7. Total' = Total /\ Cardinality(Addrs) = Total /\ Total \in Nat
    BY <1>1, LeftFinite DEF Total
  <2>. QED
    BY <1>1, <2>3, <2>4, <2>5, <2>6, <2>7 DEF Account, Counting
<1>5. ASSUME NEW p \in Pools, CancelPool(p) PROVE Account'
  <2>1. /\ queue' = [queue EXCEPT ![p] = {}] /\ UNCHANGED processed
        /\ worker' = [v \in Workers |-> IF v[1] = p THEN "off" ELSE worker[v]]
        /\ job' = [v \in Workers |-> IF v[1] = p THEN None ELSE job[v]]
    BY <1>5 DEF CancelPool
  <2>2. Hands'
    BY <1>1, <2>1 DEF Account, Hands
  <2>3. Apart'
    BY <1>1, <2>1 DEF Account, Apart, PoolTypes
  <2>4. Left(p)' = {}
    BY <1>1, <2>1 DEF Left, WorkersOf, PoolTypes
  <2>5. ASSUME NEW q \in Pools, q # p PROVE Left(q)' = Left(q)
    BY <1>1, <2>1, <2>5 DEF Left, WorkersOf, PoolTypes
  <2>6. ASSUME NEW q \in Pools PROVE (processed[q] + Cardinality(Left(q)) <= Total)'
    <3>1. processed[q] + Cardinality(Left(q)) <= Total /\ processed[q] \in Nat
      BY <1>1 DEF Account, Counting, PoolTypes
    <3>2. Cardinality(Left(q)) \in Nat /\ Total \in Nat /\ Total' = Total
      BY <1>1, LeftFinite DEF Total
    <3>3. CASE q = p
      <4>1. Cardinality(Left(p)') = 0
        BY <2>4, FS_EmptySet
      <4>. QED
        BY <2>1, <3>1, <3>2, <3>3, <4>1
    <3>4. CASE q # p
      BY <2>1, <2>5, <3>1, <3>2, <3>4
    <3>. QED
      BY <3>3, <3>4
  <2>. QED
    BY <2>2, <2>3, <2>6 DEF Account, Counting
<1>6. CASE WakeWorkers
  BY <1>3, <1>6, ReleasedCases DEF WakeWorkers
<1>7. CASE Swept
  <2>1. ASSUME NEW v \in Workers, v[1] \in Checks, caller[v[1]] = "gathering"
        PROVE  job[v] = None
    <3>1. Complete(v[1]) /\ v[1] \in Pools
      BY <1>1, <2>1 DEF IndAccount, GatheredAll
    <3>2. IsFiniteSet(Left(v[1])) /\ Cardinality(Left(v[1])) \in Nat /\ Total \in Nat
      BY <1>1, <3>1, LeftFinite
    <3>3. processed[v[1]] >= Total /\ processed[v[1]] \in Nat
      BY <1>1, <3>1 DEF Complete, PoolTypes
    <3>4. processed[v[1]] + Cardinality(Left(v[1])) <= Total
      BY <1>1, <3>1 DEF Account, Counting
    <3>5. Left(v[1]) = {}
      BY <3>2, <3>3, <3>4, FS_EmptySet
    <3>. QED
      BY <1>1, <3>5 DEF Left, WorkersOf, PoolTypes
  <2>2. Hands'
    BY <1>1, <1>7, <2>1 DEF Swept, Account, Hands
  <2>3. \A p \in Pools : Left(p)' = Left(p)
    BY <1>7 DEF Swept, Left
  <2>. QED
    BY <1>1, <1>7, <2>2, <2>3 DEF Swept, Account, Apart, Counting, Total
<1>8. CASE UNCHANGED poolVars
  BY <1>3, <1>8 DEF poolVars
<1>. QED
  BY <1>2, <1>4, <1>5, <1>6, <1>7, <1>8 DEF PoolMoves, Begins

LEMMA GatheredStep ==
    ASSUME IndAccount, [Next]_vars, NEW k \in Checks, caller'[k] = "gathering"
    PROVE  Complete(k)'
<1>1. PoolTypes /\ CallerType /\ PoolMoves /\ k \in Pools /\ \A v \in Workers : v[1] \in Pools
  BY PoolStep, PoolOfWorker DEF IndAccount, IndTypes, Pools
<1>2. caller[k] = "gathering" \/ CheckComplete(k)
  <2>1. ASSUME NEW w \in Workers, Worker(w) PROVE UNCHANGED caller
    BY <2>1 DEF Worker, Take, HoldBack, SkipBlacklisted, WaitForInternet, Probe, ResultDropped,
       FastFail, ResultSuspect, Result, InternetAlive, InternetDead
  <2>2. ASSUME NEW s \in Starters, StartPool(s) PROVE UNCHANGED caller \/ caller'[k] = "free"
    BY <2>2 DEF StartPool
  <2>3. ASSUME NEW j \in Checks, Check(j) PROVE caller[k] = "gathering" \/ CheckComplete(k)
    <3>1. CASE j = k
      BY <1>1, <2>3, <3>1 DEF Check, CheckBegin, CheckEnd, CheckCut, CallerType
    <3>2. CASE j # k
      BY <1>1, <2>3, <3>2 DEF Check, CheckBegin, CheckComplete, CheckEnd, CheckCut, CallerType
    <3>. QED
      BY <3>1, <3>2
  <2>4. ASSUME NEW c \in Healths, HealthResult(c) PROVE UNCHANGED caller
    BY <2>4 DEF HealthResult
  <2>. QED
    BY <2>1, <2>2, <2>3, <2>4 DEF Next, Others, vars
<1>3. CASE CheckComplete(k)
  BY <1>3 DEF CheckComplete, Complete, poolVars, Total
<1>4. CASE caller[k] = "gathering"
  <2>1. Complete(k) /\ ~Begins(k)
    BY <1>4 DEF IndAccount, GatheredAll, Begins, CheckBegin
  <2>2. processed'[k] >= processed[k]
    <3>1. ASSUME NEW w \in Workers, Worker(w) PROVE processed'[k] >= processed[k]
      BY <1>1, <3>1, WorkerStep DEF WorkerDoes, Takes, Leaves, GoesOn, Finishes, PoolTypes
    <3>2. ASSUME NEW p \in Pools, p # k, Begins(p) PROVE processed'[k] >= processed[k]
      BY <1>1, <3>2 DEF Begins, BeginPool, Fill, PoolTypes
    <3>3. CASE UNCHANGED processed
      BY <1>1, <3>3 DEF PoolTypes
    <3>. QED
      BY <1>1, <2>1, <3>1, <3>2, <3>3 DEF PoolMoves, CancelPool, WakeWorkers, Swept, poolVars
  <2>. QED
    BY <1>1, <2>1, <2>2, PoolTypeStep, LeftFinite DEF Complete, Total, PoolTypes
<1>. QED
  BY <1>2, <1>3, <1>4

\* The counters.
CountTypes ==
    /\ checked \in Nat /\ checking_total \in Nat
    /\ fail_streak \in Nat /\ check_streak \in Nat
    /\ saved_counts \in [Healths -> Nat \X Nat] /\ unchecked \in [Healths -> 0 .. Candidates]

LEMMA CountTypeStep ==
    ASSUME PoolTypes, CountTypes, [Next]_vars
    PROVE  CountTypes'
<1>. USE DEF CountTypes, counterVars, streakVars, healthCounts, KeepCounts, ResetStreaks, ResetCounts
<1>1. Total \in Nat /\ Candidates \in Nat
  BY PoolAssumption, FS_CardinalityType DEF Total
<1>2. ASSUME NEW w \in Workers, Worker(w) PROVE CountTypes'
  <2>1. Count(w) => checked' \in Nat /\ checking_total' \in Nat
    BY DEF Count
  <2>2. UNCHANGED healthCounts
    BY <1>2 DEF Worker, Take, HoldBack, SkipBlacklisted, WaitForInternet, Probe, ResultDropped,
       FastFail, ResultSuspect, Result, InternetAlive, InternetDead
  <2>3. checked' \in Nat /\ checking_total' \in Nat
    BY <1>2, <2>1 DEF Worker, Take, HoldBack, SkipBlacklisted, WaitForInternet, Probe, ResultDropped,
       FastFail, ResultSuspect, Result, InternetAlive, InternetDead
  <2>4. fail_streak' \in Nat /\ check_streak' \in Nat
    <3>1. CASE FastFail(w)
      BY <3>1 DEF FastFail
    <3>2. CASE Result(w)
      <4>1. fail_streak' \in {0, fail_streak + 1} /\ check_streak' = check_streak + 1
        BY <3>2 DEF Result
      <4>. QED
        BY <4>1
    <3>3. CASE InternetAlive(w)
      BY <3>3 DEF InternetAlive
    <3>4. CASE Take(w) \/ HoldBack(w) \/ SkipBlacklisted(w) \/ WaitForInternet(w) \/ Probe(w)
               \/ ResultDropped(w) \/ ResultSuspect(w) \/ InternetDead(w)
      <4>1. UNCHANGED streakVars
        BY <3>4 DEF Take, HoldBack, SkipBlacklisted, WaitForInternet, Probe, ResultDropped,
           ResultSuspect, InternetDead
      <4>. QED
        BY <4>1
    <3>. QED
      BY <1>2, <3>1, <3>2, <3>3, <3>4 DEF Worker
  <2>. QED
    BY <2>2, <2>3, <2>4
<1>3. ASSUME NEW h \in Hunts, HuntPool(h) \/ CanaryPool(h), Others PROVE CountTypes'
  BY <1>1, <1>3 DEF HuntPool, CanaryPool, BeginPool, Others
<1>4. ASSUME NEW s \in Starters, StartPool(s), UNCHANGED healthCounts PROVE CountTypes'
  BY <1>4 DEF StartPool
<1>5. ASSUME ButtonPool, Others PROVE CountTypes'
  BY <1>5 DEF ButtonPool, Others
<1>6. ASSUME NEW c \in Healths, HealthPool(c) PROVE CountTypes'
  <2>1. saved_counts[c][1] \in Nat /\ saved_counts[c][2] \in Nat
    OBVIOUS
  <2>. QED
    BY <1>1, <1>6, <2>1 DEF HealthPool, Smaller
<1>7. ASSUME NEW c \in Healths, HealthResult(c) PROVE CountTypes'
  BY <1>1, <1>7 DEF HealthResult
<1>8. ASSUME NEW k \in Checks, Check(k) PROVE CountTypes'
  BY <1>1, <1>8 DEF Check, CheckBegin, BeginPool, CheckComplete, CheckEnd, CheckCut
<1>9. CASE UNCHANGED vars
  BY <1>9 DEF vars
<1>. QED
  BY <1>2, <1>3, <1>4, <1>5, <1>6, <1>7, <1>8, <1>9 DEF Next

LEMMA AccountInit == Init => IndAccount /\ CountTypes
<1>. SUFFICES ASSUME Init PROVE IndAccount /\ CountTypes
  OBVIOUS
<1>1. CallerType /\ GatheredAll
  BY DEF Init, CallerType, GatheredAll
<1>2. Hands /\ Apart
  BY PoolOfWorker DEF Init, Hands, Apart
<1>3. ASSUME NEW p \in Pools PROVE processed[p] + Cardinality(Left(p)) <= Total
  <2>1. Left(p) = {} /\ processed[p] = 0
    BY <1>3, PoolAssumption DEF Init, Left, WorkersOf
  <2>. QED
    BY <2>1, PoolAssumption, FS_EmptySet, FS_CardinalityType DEF Total
<1>4. CountTypes
  BY PoolAssumption DEF Init, CountTypes
<1>. QED
  BY <1>1, <1>2, <1>3, <1>4, InitTypes DEF IndAccount, IndTypes, Account, Counting

LEMMA AccountInvariant ==
    ASSUME IndAccount, CountTypes, [Next]_vars
    PROVE  IndAccount' /\ CountTypes'
<1>1. IndTypes' /\ PoolMoves
  BY Controlled, ControlTypeStep, PoolStep, PoolTypeStep DEF IndAccount, IndTypes
<1>2. CallerType' /\ Account' /\ CountTypes'
  BY <1>1, CallerTypeStep, AccountStep, CountTypeStep DEF IndAccount, IndTypes
<1>3. GatheredAll'
  BY GatheredStep DEF GatheredAll
<1>. QED
  BY <1>1, <1>2, <1>3 DEF IndAccount

\* What the program does keeps the types, and a pool of any size never deals with
\* an address twice: no more are dealt with than its list has.
THEOREM PoolTypeCorrect == Spec => []TypeOK
<1>. DEFINE Ind == IndAccount /\ CountTypes
<1>1. Init => Ind
  BY AccountInit
<1>2. Ind /\ [Next]_vars => Ind'
  BY AccountInvariant
<1>3. Ind => TypeOK
  <2>. SUFFICES ASSUME Ind PROVE TypeOK
    OBVIOUS
  <2>1. ASSUME NEW p \in Pools PROVE processed[p] \in 0 .. Total
    <3>1. PoolTypes /\ processed[p] + Cardinality(Left(p)) <= Total /\ processed[p] \in Nat
      BY DEF IndAccount, IndTypes, Account, Counting, PoolTypes
    <3>2. Cardinality(Left(p)) \in Nat /\ Total \in Nat
      BY <3>1, LeftFinite
    <3>. QED
      BY <3>1, <3>2
  <2>2. processed \in [Pools -> 0 .. Total]
    BY <2>1 DEF IndAccount, IndTypes, PoolTypes
  <2>. QED
    BY <2>2 DEF IndAccount, IndTypes, PoolTypes, CallerType, CountTypes, TypeOK
<1>. QED
  BY <1>1, <1>2, <1>3, PTL DEF Spec

\* In WorkPool, what a worker does is to take an address, to finish with one, or
\* nothing.
LEMMA WorkerWorks ==
    ASSUME PoolTypes, Account, NEW w \in Workers, WorkerDoes(w)
    PROVE  List!Next \/ UNCHANGED <<queue, job, processed>>
<1>1. ASSUME NEW a \in Addrs, Takes(w, a) PROVE List!Take(w, a)
  <2>1. job[w] = None /\ a \in queue[w[1]] /\ UNCHANGED processed
    BY <1>1 DEF Takes, Account, Hands
  <2>2. \A v \in List!Members(w[1]) : job[v] # a
    <3>1. \A v \in Workers : job[v] \notin queue[v[1]]
      BY DEF Account, Apart
    <3>. QED
      BY <2>1, <3>1 DEF List!Members
  <2>. QED
    BY <1>1, <2>1, <2>2 DEF Takes, List!Take
<1>2. ASSUME NEW ws \in {worker, Released(worker)}, Finishes(w, ws) PROVE List!Finish(w)
  <2>1. job[w] # None /\ job[w] \notin queue[w[1]]
    BY <1>2 DEF Finishes, Holding, Account, Hands, Apart
  <2>. QED
    BY <1>2, <2>1 DEF Finishes, List!Finish
<1>3. CASE Leaves(w)
  BY <1>3 DEF Leaves
<1>4. ASSUME NEW l \in Holding, GoesOn(w, l) PROVE UNCHANGED <<queue, job, processed>>
  BY <1>4 DEF GoesOn
<1>. QED
  BY <1>1, <1>2, <1>3, <1>4 DEF WorkerDoes, List!Next

\* ImplementsPool: hunts and proxy_checks of any number and size deal with their
\* lists as WorkPool promises, through suspicion, retries, skips, deadlines,
\* cancellations, stop buttons and sweeps of the scheduler.
THEOREM PoolsKeepTheirLists == Spec => ImplementsPool
<1>1. Init => List!Init
  BY DEF Init, List!Init
<1>2. ASSUME IndAccount, [Next]_vars
      PROVE  [List!Next]_<<queue, job, processed>>
  <2>1. PoolMoves /\ PoolTypes /\ Account
    BY <1>2, PoolStep DEF IndAccount, IndTypes
  <2>2. ASSUME NEW w \in Workers, Worker(w) PROVE List!Next \/ UNCHANGED <<queue, job, processed>>
    BY <2>1, <2>2, WorkerStep, WorkerWorks
  <2>3. ASSUME NEW p \in Pools, BeginPool(p) PROVE List!Begin(p)
    <3>1. \A w \in List!Members(p) : job[w] = None
      BY <2>1, <2>3 DEF BeginPool, AllOff, WorkersOf, List!Members, Account, Hands
    <3>. QED
      BY <2>3, <3>1 DEF BeginPool, Fill, List!Begin
  <2>4. ASSUME NEW p \in Pools, CancelPool(p) PROVE List!GiveUp(p)
    BY <2>4 DEF CancelPool, List!GiveUp
  <2>5. CASE WakeWorkers \/ Swept \/ UNCHANGED poolVars
    BY <2>5 DEF WakeWorkers, Swept, poolVars
  <2>. QED
    BY <2>1, <2>2, <2>3, <2>4, <2>5 DEF PoolMoves, Begins, List!Next
<1>3. Init => IndAccount /\ CountTypes
  BY AccountInit
<1>4. IndAccount /\ CountTypes /\ [Next]_vars => IndAccount' /\ CountTypes'
  BY AccountInvariant
<1>. QED
  BY <1>1, <1>2, <1>3, <1>4, PTL DEF Spec, ImplementsPool, List!Spec

-----------------------------------------------------------------------------
(* The progress that is shown.                                             *)

\* The scheduler runs one proxy_check and one health check at a time, and the
\* operator asks for none.
OneOfEach == /\ Orderly /\ Rechecks = {}
             /\ \A k, j \in Checks : k = j
             /\ \A c, d \in Scheduled : c = d

\* A hunt, a proxy_check and a health check keep apart.
Exclusive ==
    /\ \A h \in Hunts : Alive(h) => ChecksDone /\ \A c \in Scheduled : ~Alive(c)
    /\ \A c \in Scheduled : Alive(c) => ChecksDone
IndExclusive == IndCaller /\ Flagged /\ Canaries /\ Exclusive

LEMMA FlagKept ==
    ASSUME OneAtATime, IndTypes, IndHunt, [Next]_vars
    PROVE  Flagged' /\ Canaries'
<1>1. CASE [ControlNext]_controlVars
  BY <1>1, FlaggedStep DEF IndTypes
<1>2. CASE Suspects \/ Clears \/ Pauses \/ UsesSkip
  <2>1. UNCHANGED <<hunt_running, canary_task, canaries, cancel>>
    BY <1>2 DEF Suspects, Clears, Pauses, UsesSkip, KeepHunt, huntVars
  <2>2. pc' \in {pc, Woken(pc)} /\ \A h \in Hunts : h \in Procs /\ canaries \subseteq Hunts
    BY <1>2 DEF Suspects, Clears, Pauses, UsesSkip, IndTypes, ControlTypeOK, Procs
  <2>3. \A p \in Procs : /\ Alive(p)' <=> Alive(p)
                         /\ pc'[p] \in {"free", "created"} => pc'[p] = pc[p]
    BY <2>2, WokenAlive DEF Woken, Alive
  <2>. QED
    BY <2>1, <2>2, <2>3 DEF IndHunt, Flagged, Canaries, IndTypes, ControlTypeOK
<1>. QED
  BY <1>1, <1>2, Controlled DEF ControlMoves

LEMMA ExclusiveStep ==
    ASSUME OneOfEach, IndExclusive, [Next]_vars
    PROVE  Exclusive'
<1>. USE DEF OneOfEach
<1>1. /\ pc \in [Procs -> Locations] /\ Attended /\ OneAtATime /\ Exclusive /\ CallerType
      /\ \A h \in Hunts : h \in Procs /\ h \notin Starters /\ h \notin Healths
      /\ \A s \in Starters : s \in Procs /\ s \notin Healths
      /\ \A c \in Healths : c \in Procs /\ c \in Scheduled /\ c \notin Hunts /\ c \notin Starters
      /\ \A c \in Scheduled : c \in Healths
  BY HuntProcs DEF Orderly, IndExclusive, IndCaller, IndTypes, ControlTypeOK, Procs, Healths
<1>2. ASSUME \A p \in Hunts \cup Scheduled : Alive(p)' => Alive(p), ChecksDone => ChecksDone'
      PROVE  Exclusive'
  BY <1>1, <1>2 DEF Exclusive
<1>3. ASSUME pc' \in {pc, Woken(pc)}, UNCHANGED caller PROVE Exclusive'
  <2>1. \A p \in Procs : Alive(p)' <=> Alive(p)
    BY <1>3, WokenAlive DEF Alive
  <2>. QED
    BY <1>1, <1>2, <1>3, <2>1 DEF ChecksDone
<1>4. ASSUME NEW w \in Workers, Worker(w) PROVE Exclusive'
  <2>1. UNCHANGED caller
    BY <1>4 DEF Worker, Take, HoldBack, SkipBlacklisted, WaitForInternet, Probe, ResultDropped,
       FastFail, ResultSuspect, Result, InternetAlive, InternetDead
  <2>. QED
    BY <1>3, <1>4, <2>1, WorkerMoves DEF controlVars, Suspects, Clears, Pauses, KeepHunt
<1>5. ASSUME NEW h \in Hunts, HuntPool(h), Others PROVE Exclusive'
  <2>1. Hunt(h)
    BY <1>5 DEF HuntPool, PoolComplete, PoolTimeout, PoolSkipped, PoolDone, PoolLeft, NoPool,
       Hunt, HuntStage, HuntExit
  <2>2. (\A p \in Procs \ {h} : pc'[p] = pc[p]) /\ Alive(h)
    BY <1>1, <2>1 DEF Hunt, HuntStage, HuntExit, NeverStarted, Gathered, HuntDownload, HuntBlacklist,
       HuntBlocklists, HuntValidate, StageDone, HuntValidated, HuntDone, HuntCancelled,
       HuntFailed, EndCycle, Yield, MayGoOn, Waiting, At, Alive, Stages
  <2>. QED
    BY <1>1, <1>2, <1>5, <2>2 DEF Alive, Others, ChecksDone
<1>6. ASSUME NEW h \in Hunts, CanaryPool(h), Others PROVE Exclusive'
  BY <1>3, <1>6 DEF CanaryPool, CanaryDown, CanaryUp, ResumeHunt, Others
<1>7. ASSUME NEW s \in Starters, StartPool(s) PROVE Exclusive'
  <2>1. CASE StartHunt(s)
    <3>1. ChecksDone /\ \A c \in Scheduled : ~Alive(c)
      BY <1>1, <2>1 DEF StartHunt, At, Alive, Attended
    <3>2. UNCHANGED caller
      BY <1>7, <2>1 DEF StartPool, StartHunt, SweepScheduler, At
    <3>3. \A c \in Scheduled : ~Alive(c)'
      <4>1. CASE health_running
        BY <1>1, <2>1, <3>1, <4>1 DEF StartHunt, Woken, Alive
      <4>2. CASE ~health_running
        BY <1>1, <2>1, <3>1, <4>2 DEF StartHunt, Woken, FreshHunts, Alive
      <4>. QED
        BY <4>1, <4>2
    <3>. QED
      BY <3>1, <3>2, <3>3 DEF Exclusive, ChecksDone
  <2>2. CASE ~StartHunt(s)
    <3>1. ChecksDone => ChecksDone'
      BY <1>7, <2>2 DEF StartPool, ChecksDone
    <3>2. \A p \in Procs \ {s} : pc'[p] = pc[p]
      BY <1>1, <1>7, <2>2 DEF StartPool, Press, NoInternet, AbortHealth, AbortHunt, SweepScheduler,
         Yield, Goto
    <3>. QED
      BY <1>1, <1>2, <3>1, <3>2 DEF Alive
  <2>. QED
    BY <2>1, <2>2
<1>8. ASSUME ButtonPool, Others PROVE Exclusive'
  BY <1>3, <1>8 DEF ButtonPool, OperatorPause, SkipPhase, OperatorResume, ResumeHunt, StopHunt,
     StopHealth, Others, Orderly
<1>9. \A h \in Hunts : Alive(h) => hunt_running
  BY <1>1 DEF IndExclusive, Flagged, Attended
<1>10. ASSUME NEW c \in Healths, HealthPool(c), UNCHANGED caller PROVE Exclusive'
  <2>1. CASE ScheduledCheck(c)
    <3>1. ~hunt_running /\ UNCHANGED task /\ \A p \in Procs \ {c} : pc'[p] = pc[p]
      BY <1>1, <2>1 DEF ScheduledCheck, Yield, huntVars
    <3>2. \A h \in Hunts : ~Alive(h)'
      BY <1>1, <1>9, <3>1 DEF Alive
    <3>3. ChecksDone
      BY <1>1, <1>10, <2>1 DEF HealthPool, ScheduledCheck, HealthRefused, HealthCancelled, HealthBegin,
         HealthChecks, HealthNothing, HealthEnd, At
    <3>. QED
      BY <1>10, <3>2, <3>3 DEF Exclusive, ChecksDone
  <2>2. CASE ~ScheduledCheck(c)
    <3>1. Alive(c) /\ c \notin Rechecks
      BY <1>10, <2>2 DEF HealthPool, HealthRefused, HealthCancelled, HealthBegin, HealthChecks,
         HealthNothing, HealthEnd, At, Alive
    <3>2. \A p \in Procs : p # c => (Alive(p)' <=> Alive(p))
      <4>1. CASE HealthNothing(c) \/ HealthEnd(c)
        BY <4>1, RestoreMoves DEF HealthNothing, HealthEnd, Alive, IndExclusive, IndCaller, IndTypes
      <4>2. CASE ~HealthNothing(c) /\ ~HealthEnd(c)
        BY <1>1, <1>10, <2>2, <3>1, <4>2 DEF HealthPool, HealthRefused, HealthBegin,
           HealthCancelled, HealthChecks, Yield, Goto, Alive
      <4>. QED
        BY <4>1, <4>2
    <3>. QED
      BY <1>1, <1>2, <1>10, <3>1, <3>2 DEF ChecksDone
  <2>. QED
    BY <2>1, <2>2
<1>11. ASSUME NEW c \in Healths, HealthResult(c) PROVE Exclusive'
  BY <1>3, <1>11 DEF HealthResult, controlVars
<1>12. ASSUME NEW k \in Checks, Check(k) PROVE Exclusive'
  <2>1. UNCHANGED pc
    BY <1>12 DEF Check, CheckBegin, CheckComplete, CheckEnd, CheckCut, controlVars
  <2>2. \A p \in Hunts \cup Scheduled : ~Alive(p)
    <3>1. CASE CheckBegin(k)
      BY <1>9, <3>1 DEF CheckBegin
    <3>2. CASE CheckComplete(k) \/ CheckEnd(k) \/ CheckCut(k)
      BY <1>1, <3>2 DEF CheckComplete, CheckEnd, CheckCut, Exclusive, ChecksDone
    <3>. QED
      BY <1>12, <3>1, <3>2 DEF Check
  <2>. QED
    BY <2>1, <2>2 DEF Exclusive, Alive
<1>13. CASE UNCHANGED vars
  BY <1>3, <1>13 DEF vars, controlVars
<1>. QED
  BY <1>4, <1>5, <1>6, <1>7, <1>8, <1>10, <1>11, <1>12, <1>13 DEF Next

\* The addresses of a pool that have not been counted.  The tenth result of a
\* streak is, though `counted' does not say so while its canary runs.
Uncounted(p) ==
    queue[p] \cup {a \in Addrs : \E w \in WorkersOf(p) :
                      job[w] = a /\ ~counted[w] /\ worker[w] # "slow canary"}
Fits ==
    /\ checked <= checking_total
    /\ \A p \in Pools : Gathering(p) => checked + Cardinality(Uncounted(p)) <= checking_total
    /\ \A c \in Scheduled : pc[c] = "checks" => checked + unchecked[c] <= checking_total
IndCount == IndExclusive /\ IndAccount /\ CountTypes /\ Fits

\* Nothing but one pool, or a health check, uses the counters.
LEMMA Alone ==
    ASSUME OneOfEach, IndExclusive, NEW p \in Pools, Gathering(p)
    PROVE  /\ \A q \in Pools : Gathering(q) => q = p
           /\ \A c \in Scheduled : ~Alive(c)
<1>1. \A k \in Checks : k \notin Hunts
  BY PoolAssumption DEF Procs
<1>2. \A h \in Hunts : Gathering(h) => Alive(h)
  BY <1>1 DEF Gathering, Alive
<1>3. CASE p \in Hunts
  BY <1>1, <1>2, <1>3 DEF Pools, IndExclusive, IndCaller, OneHunt, TaskIsHunt, Exclusive, ChecksDone,
     Gathering
<1>4. CASE p \in Checks
  <2>1. ~ChecksDone
    BY <1>4 DEF Gathering, ChecksDone
  <2>. QED
    BY <1>2, <1>4, <2>1 DEF Pools, OneOfEach, IndExclusive, Exclusive
<1>. QED
  BY <1>3, <1>4 DEF Pools

LEMMA UncountedFinite ==
    ASSUME PoolTypes, NEW p \in Pools
    PROVE  /\ Uncounted(p) \subseteq Addrs /\ IsFiniteSet(Uncounted(p))
           /\ Cardinality(Uncounted(p)) \in Nat /\ Cardinality(Uncounted(p)) <= Total /\ Total \in Nat
<1>1. Uncounted(p) \subseteq Addrs
  BY DEF Uncounted, PoolTypes
<1>. QED
  BY <1>1, PoolAssumption, FS_Subset, FS_CardinalityType DEF Total

\* A worker that is done with the counting of its address.
Settled(w) == counted[w] \/ worker[w] = "slow canary" \/ job[w] = None

LEMMA UncountedStep ==
    ASSUME PoolTypes, Account, NEW w \in Workers, UNCHANGED queue,
           job' \in {job, [job EXCEPT ![w] = None]},
           \A v \in Workers : v # w => counted'[v] = counted[v],
           \A v \in Workers : v # w /\ worker[v] = "slow canary" => worker'[v] = "slow canary",
           Settled(w) => Settled(w)'
    PROVE  /\ Uncounted(w[1])' \subseteq Uncounted(w[1])
           /\ Settled(w)' => job[w] \notin Uncounted(w[1])'
           /\ ~Settled(w) => job[w] \in Uncounted(w[1])
<1>1. w[1] \in Pools /\ None \notin Addrs
  BY PoolOfWorker, PoolAssumption
<1>2. \A v \in Workers : v # w => job'[v] = job[v]
  BY DEF PoolTypes
<1>3. job'[w] \in {job[w], None}
  BY DEF PoolTypes
<1>4. Uncounted(w[1])' \subseteq Uncounted(w[1])
  <2>1. ASSUME NEW a \in Addrs, NEW v \in WorkersOf(w[1]), job'[v] = a, ~counted'[v],
               worker'[v] # "slow canary"
        PROVE  job[v] = a /\ ~counted[v] /\ worker[v] # "slow canary"
    <3>1. v \in Workers
      BY DEF WorkersOf
    <3>2. CASE v # w
      BY <1>2, <2>1, <3>1, <3>2
    <3>3. CASE v = w
      BY <1>1, <1>3, <2>1, <3>3 DEF Settled
    <3>. QED
      BY <3>2, <3>3
  <2>2. ASSUME NEW a \in Uncounted(w[1])', a \notin queue[w[1]] PROVE a \in Uncounted(w[1])
    <3>1. PICK v \in WorkersOf(w[1]) : job'[v] = a /\ ~counted'[v] /\ worker'[v] # "slow canary"
      BY <2>2 DEF Uncounted, WorkersOf
    <3>2. a \in Addrs
      BY <2>2 DEF Uncounted
    <3>. QED
      BY <2>1, <3>1, <3>2 DEF Uncounted
  <2>3. \A a \in queue[w[1]] : a \in Uncounted(w[1])
    BY DEF Uncounted
  <2>. QED
    BY <2>2, <2>3
<1>5. Settled(w)' => job[w] \notin Uncounted(w[1])'
  <2>. SUFFICES ASSUME Settled(w)', job[w] \in Uncounted(w[1])' PROVE FALSE
    OBVIOUS
  <2>1. job[w] \notin queue[w[1]]
    BY DEF Account, Apart
  <2>2. PICK v \in WorkersOf(w[1]) : job'[v] = job[w] /\ ~counted'[v] /\ worker'[v] # "slow canary"
    BY <2>1 DEF Uncounted, WorkersOf
  <2>3. job[w] # None /\ v \in Workers /\ v[1] = w[1]
    BY <1>1, <2>2 DEF Uncounted, WorkersOf, PoolTypes
  <2>4. v = w
    BY <1>2, <2>2, <2>3 DEF Account, Apart
  <2>. QED
    BY <2>2, <2>3, <2>4 DEF Settled
<1>6. ~Settled(w) => job[w] \in Uncounted(w[1])
  BY <1>1 DEF Settled, Uncounted, WorkersOf, PoolTypes
<1>. QED
  BY <1>4, <1>5, <1>6

\* Whoever counts an address takes it off those that are not counted.
CountsOne(p) == /\ Uncounted(p)' \subseteq Uncounted(p) /\ checking_total' = checking_total
                /\ \/ checked' = checked
                   \/ checked' = checked + 1 /\ \E a \in Uncounted(p) : a \notin Uncounted(p)'

LEMMA WorkerCounts ==
    ASSUME PoolTypes, Account, CountTypes, NEW w \in Workers, Worker(w)
    PROVE  CountsOne(w[1])
<1>1. /\ w[1] \in Pools /\ worker \in [Workers -> WorkerStates] /\ counted \in [Workers -> BOOLEAN]
      /\ job \in [Workers -> Addrs \cup {None}] /\ checked \in Nat
      /\ Released(worker) \in [Workers -> WorkerStates]
      /\ \A v \in Workers : worker[v] = "slow canary" => Released(worker)[v] = "slow canary"
  BY PoolOfWorker, ReleasedType, ReleasedCases DEF PoolTypes, CountTypes
<1>2. CASE Take(w)
  <2>1. UNCHANGED counterVars
    BY <1>2 DEF Take
  <2>2. ASSUME NEW a \in queue[w[1]], queue' = [queue EXCEPT ![w[1]] = @ \ {a}],
               job' = [job EXCEPT ![w] = a], counted' = [counted EXCEPT ![w] = FALSE],
               worker' = [worker EXCEPT ![w] = "ready"]
        PROVE  Uncounted(w[1])' \subseteq Uncounted(w[1])
    <3>1. a \in Uncounted(w[1])
      BY DEF Uncounted
    <3>2. ASSUME NEW b \in Uncounted(w[1])', b # a, b \notin queue[w[1]] PROVE b \in Uncounted(w[1])
      <4>1. b \notin queue'[w[1]] /\ b \in Addrs
        BY <1>1, <2>2, <3>2 DEF PoolTypes, Uncounted
      <4>2. PICK v \in WorkersOf(w[1]) : job'[v] = b /\ ~counted'[v] /\ worker'[v] # "slow canary"
        BY <3>2, <4>1 DEF Uncounted, WorkersOf
      <4>3. v \in Workers /\ v # w
        BY <1>1, <2>2, <3>2, <4>2 DEF WorkersOf
      <4>4. job[v] = b /\ ~counted[v] /\ worker[v] # "slow canary"
        BY <1>1, <2>2, <4>2, <4>3
      <4>. QED
        BY <4>1, <4>2, <4>4 DEF Uncounted
    <3>3. \A b \in queue[w[1]] : b \in Uncounted(w[1])
      BY DEF Uncounted
    <3>. QED
      BY <3>1, <3>2, <3>3
  <2>3. CASE worker' = [worker EXCEPT ![w] = "off"] /\ UNCHANGED <<queue, job, counted>> /\ worker[w] = "take"
    BY <1>1, <2>1, <2>3, UncountedStep DEF Settled, CountsOne, counterVars
  <2>. QED
    BY <1>2, <2>1, <2>2, <2>3 DEF Take, MoveTo, CountsOne, counterVars
<1>3. ASSUME UNCHANGED <<queue, job>>,
             \A v \in Workers : v # w => counted'[v] = counted[v] /\ worker'[v] = worker[v],
             Settled(w) => Settled(w)', checking_total' = checking_total,
             checked' = checked \/ (checked' = checked + 1 /\ ~Settled(w) /\ Settled(w)')
      PROVE  CountsOne(w[1])
  BY <1>3, UncountedStep DEF CountsOne
<1>4. ASSUME NEW ws \in {worker, Released(worker)}, NextAddress(w, ws),
             UNCHANGED counterVars \/ (Count(w) /\ worker[w] \in Holding /\ worker[w] # "slow canary")
      PROVE  CountsOne(w[1])
  <2>1. /\ UNCHANGED <<queue, counted>> /\ job' = [job EXCEPT ![w] = None]
        /\ worker' = [ws EXCEPT ![w] = "take"]
    BY <1>4 DEF NextAddress
  <2>2. Settled(w)'
    BY <1>1, <2>1 DEF Settled
  <2>3. \A v \in Workers : v # w /\ worker[v] = "slow canary" => worker'[v] = "slow canary"
    BY <1>1, <2>1
  <2>4. /\ Uncounted(w[1])' \subseteq Uncounted(w[1]) /\ job[w] \notin Uncounted(w[1])'
        /\ ~Settled(w) => job[w] \in Uncounted(w[1])
    BY <2>1, <2>2, <2>3, UncountedStep
  <2>5. CASE UNCHANGED counterVars
    BY <2>4, <2>5 DEF CountsOne, counterVars
  <2>6. CASE Count(w) /\ worker[w] \in Holding /\ worker[w] # "slow canary"
    <3>1. ~counted[w] => ~Settled(w)
      BY <2>6 DEF Settled, Account, Hands, Holding
    <3>. QED
      BY <2>4, <2>6, <3>1 DEF CountsOne, Count
  <2>. QED
    BY <1>4, <2>5, <2>6
<1>5. CASE HoldBack(w) \/ WaitForInternet(w) \/ Probe(w)
  <2>1. worker[w] # "slow canary" /\ UNCHANGED <<queue, job, counted, checked, checking_total>>
    BY <1>5 DEF HoldBack, WaitForInternet, Probe, AtGate, counterVars
  <2>2. \A v \in Workers : v # w => worker'[v] = worker[v]
    BY <1>1, <1>5 DEF HoldBack, WaitForInternet, Probe, MoveTo
  <2>. QED
    BY <1>3, <2>1, <2>2 DEF Settled
<1>6. CASE SkipBlacklisted(w) \/ ResultDropped(w)
  <2>1. worker[w] \in Holding /\ worker[w] # "slow canary" /\ NextAddress(w, worker)
    BY <1>6 DEF SkipBlacklisted, ResultDropped, AtGate, Holding, WorkerStates
  <2>2. UNCHANGED counterVars \/ Count(w)
    BY <1>6 DEF SkipBlacklisted, ResultDropped
  <2>. QED
    BY <1>4, <2>1, <2>2
<1>7. ASSUME worker[w] = "check", UNCHANGED <<queue, job>>, Count(w), counted' = [counted EXCEPT ![w] = TRUE],
             \A v \in Workers : v # w => worker'[v] = worker[v]
      PROVE  CountsOne(w[1])
  <2>1. ~counted[w] => ~Settled(w)
    BY <1>7 DEF Settled, Account, Hands
  <2>2. Settled(w)' /\ \A v \in Workers : v # w => counted'[v] = counted[v]
    BY <1>1, <1>7 DEF Settled
  <2>. QED
    BY <1>3, <1>7, <2>1, <2>2 DEF Count
<1>8. CASE FastFail(w)
  <2>1. worker[w] = "check" /\ worker[w] \in Holding /\ Count(w)
    BY <1>8 DEF FastFail, Holding, WorkerStates
  <2>2. \A l : AutoPause(w, l) => UNCHANGED <<queue, job>> /\ \A v \in Workers : v # w => worker'[v] = worker[v]
    BY <1>1 DEF AutoPause, MoveTo
  <2>3. AwaitEvent(w, worker, pause_event) => \A v \in Workers : v # w => worker'[v] = worker[v]
    BY <1>1 DEF AwaitEvent
  <2>4. CASE NextAddress(w, worker)
    BY <1>4, <2>1, <2>4
  <2>. QED
    BY <1>7, <1>8, <2>1, <2>2, <2>3, <2>4 DEF FastFail
<1>9. CASE ResultSuspect(w)
  <2>1. UNCHANGED <<queue, job, checked, checking_total>> /\ counted' = [counted EXCEPT ![w] = TRUE]
    BY <1>9 DEF ResultSuspect, counterVars
  <2>2. \A v \in Workers : v # w => worker'[v] = worker[v]
    BY <1>1, <1>9 DEF ResultSuspect, AwaitEvent
  <2>3. Settled(w)' /\ \A v \in Workers : v # w => counted'[v] = counted[v]
    BY <1>1, <2>1 DEF Settled
  <2>. QED
    BY <1>3, <2>1, <2>2, <2>3
<1>10. CASE Result(w)
  <2>1. worker[w] = "check" /\ worker[w] \in Holding /\ Count(w)
    BY <1>10 DEF Result, Holding, WorkerStates
  <2>2. CASE NextAddress(w, worker)
    BY <1>4, <2>1, <2>2
  <2>3. CASE AutoPause(w, "slow canary") /\ UNCHANGED counted
    <3>1. UNCHANGED <<queue, job, counted>> /\ worker' = [worker EXCEPT ![w] = "slow canary"]
      BY <2>3 DEF AutoPause, MoveTo
    <3>2. ~counted[w] => ~Settled(w)
      BY <2>1 DEF Settled, Account, Hands
    <3>3. Settled(w)'
      BY <1>1, <3>1 DEF Settled
    <3>. QED
      BY <1>1, <1>3, <2>1, <3>1, <3>2, <3>3 DEF Count
  <2>. QED
    BY <1>10, <2>2, <2>3 DEF Result
<1>11. CASE InternetAlive(w) \/ InternetDead(w)
  <2>1. UNCHANGED counterVars
    BY <1>11 DEF InternetAlive, InternetDead
  <2>2. PICK ws \in {worker, Released(worker)} : AfterCanary(w, ws)
    BY <1>11 DEF InternetAlive, InternetDead
  <2>3. CASE NextAddress(w, ws)
    BY <1>4, <2>1, <2>3
  <2>4. CASE worker[w] = "canary" /\ AwaitEvent(w, ws, pause_event') /\ UNCHANGED <<queue, processed, job, counted>>
    <3>1. \A v \in Workers : v # w /\ worker[v] = "slow canary" => worker'[v] = "slow canary"
      BY <1>1, <2>4 DEF AwaitEvent
    <3>2. Settled(w) => Settled(w)'
      BY <2>4 DEF Settled
    <3>. QED
      BY <2>1, <2>4, <3>1, <3>2, UncountedStep DEF CountsOne, counterVars
  <2>. QED
    BY <2>2, <2>3, <2>4 DEF AfterCanary
<1>. QED
  BY <1>2, <1>5, <1>6, <1>8, <1>9, <1>10, <1>11 DEF Worker

\* Nor does anything but the begin of a pool add to them.
LEMMA OthersCount ==
    ASSUME PoolTypes, NEW q \in Pools,
           \/ \E p \in Pools : CancelPool(p)
           \/ WakeWorkers \/ UNCHANGED poolVars
    PROVE  Uncounted(q)' \subseteq Uncounted(q)
<1>1. ASSUME NEW p \in Pools, CancelPool(p) PROVE Uncounted(q)' \subseteq Uncounted(q)
  <2>1. None \notin Addrs
    BY PoolAssumption
  <2>2. CASE q = p
    BY <1>1, <2>1, <2>2 DEF CancelPool, Uncounted, WorkersOf, PoolTypes
  <2>3. CASE q # p
    BY <1>1, <2>3 DEF CancelPool, Uncounted, WorkersOf, PoolTypes
  <2>. QED
    BY <2>2, <2>3
<1>2. CASE WakeWorkers
  <2>1. \A v \in Workers : worker'[v] # "slow canary" => worker[v] # "slow canary"
    BY <1>2, ReleasedCases DEF WakeWorkers
  <2>2. UNCHANGED <<queue, job, counted>>
    BY <1>2 DEF WakeWorkers
  <2>. QED
    BY <2>1, <2>2 DEF Uncounted, WorkersOf
<1>3. CASE UNCHANGED poolVars
  BY <1>3 DEF poolVars, Uncounted
<1>. QED
  BY <1>1, <1>2, <1>3

LEMMA FitsStep ==
    ASSUME OneOfEach, IndCount, [Next]_vars, PoolTypes'
    PROVE  Fits'
<1>. USE DEF OneOfEach
<1>1. /\ PoolTypes /\ Account /\ CountTypes /\ Fits /\ IndExclusive /\ Exclusive /\ Attended /\ CallerType
      /\ ControlTypeOK /\ pc \in [Procs -> Locations] /\ WorkersHaveCaller /\ OneAtATime
      /\ \A c \in Scheduled : c \in Healths /\ c \in Procs
      /\ \A c \in Healths : c \in Scheduled
      /\ \A h \in Hunts : h \in Procs /\ h \notin Starters /\ h \notin Healths /\ h \notin Checks
      /\ \A s \in Starters : s \in Procs /\ s \notin Healths
  BY HuntProcs, PoolAssumption DEF Orderly, IndCount, IndExclusive, IndCaller, IndAccount, IndTypes,
     ControlTypeOK, Procs, Healths
<1>2. \A p \in Pools : /\ Cardinality(Uncounted(p)) \in Nat /\ Cardinality(Uncounted(p)') \in Nat
                       /\ IsFiniteSet(Uncounted(p))
                       /\ Uncounted(p)' \subseteq Uncounted(p) =>
                            Cardinality(Uncounted(p)') <= Cardinality(Uncounted(p))
  <2>1. ASSUME NEW p \in Pools PROVE IsFiniteSet(Uncounted(p)) /\ Uncounted(p)' \subseteq Addrs
    BY <1>1, UncountedFinite DEF Uncounted, PoolTypes
  <2>2. ASSUME NEW p \in Pools PROVE IsFiniteSet(Uncounted(p)')
    BY <2>1, PoolAssumption, FS_Subset
  <2>. QED
    BY <2>1, <2>2, FS_Subset, FS_CardinalityType
\* The counters stay, or are reset: nobody begins to use them.
<1>3. ASSUME checked' <= checking_total',
             \A c \in Scheduled : pc'[c] # "checks",
             \A p \in Pools : ~Gathering(p)'
      PROVE  Fits'
  BY <1>3 DEF Fits
<1>4. ASSUME UNCHANGED counterVars, UNCHANGED unchecked,
             \A c \in Scheduled : pc'[c] = "checks" => pc[c] = "checks",
             \A p \in Pools : Gathering(p)' => Gathering(p),
             \A p \in Pools : Uncounted(p)' \subseteq Uncounted(p)
      PROVE  Fits'
  <2>1. checked' = checked /\ checking_total' = checking_total /\ checked \in Nat /\ checking_total \in Nat
    BY <1>1, <1>4 DEF counterVars, CountTypes
  <2>2. ASSUME NEW p \in Pools, Gathering(p)' PROVE (checked + Cardinality(Uncounted(p)) <= checking_total)'
    <3>1. checked + Cardinality(Uncounted(p)) <= checking_total
      BY <1>1, <1>4, <2>2 DEF Fits
    <3>. QED
      BY <1>2, <1>4, <2>1, <3>1
  <2>. QED
    BY <1>1, <1>4, <2>1, <2>2 DEF Fits
<1>5. ASSUME pc' \in {pc, Woken(pc)}, UNCHANGED caller
      PROVE  /\ \A c \in Scheduled : pc'[c] = "checks" => pc[c] = "checks"
             /\ \A p \in Pools : Gathering(p)' => Gathering(p)
  BY <1>1, <1>5 DEF Woken, Gathering, Pools
\* A pool begins with its list.
<1>6. ASSUME NEW p \in Pools, BeginPool(p),
             \A c \in Scheduled : pc'[c] # "checks",
             \A q \in Pools : Gathering(q)' => q = p
      PROVE  Fits'
  <2>1. checked' = 0 /\ checking_total' = Total
    BY <1>6 DEF BeginPool, ResetCounts
  <2>2. Cardinality(Uncounted(p)') <= Total /\ Total \in Nat /\ Cardinality(Uncounted(p)') \in Nat
    <3>1. Uncounted(p)' \subseteq Addrs
      BY DEF Uncounted, PoolTypes
    <3>. QED
      BY <3>1, PoolAssumption, FS_Subset, FS_CardinalityType DEF Total
  <2>. QED
    BY <1>6, <2>1, <2>2 DEF Fits
<1>7. ASSUME NEW w \in Workers, Worker(w) PROVE Fits'
  <2>1. w[1] \in Pools /\ Gathering(w[1])
    <3>1. worker[w] # "off"
      BY <1>1, <1>7, WorkerStep DEF WorkerDoes, Takes, Leaves, GoesOn, Finishes, Holding
    <3>. QED
      BY <1>1, <3>1, PoolOfWorker DEF WorkersHaveCaller
  <2>2. CountsOne(w[1])
    BY <1>1, <1>7, WorkerCounts
  <2>3. pc' \in {pc, Woken(pc)}
    BY <1>7, WorkerMoves DEF controlVars, Suspects, Clears, Pauses, KeepHunt
  <2>4. UNCHANGED <<caller, unchecked>>
    BY <1>7 DEF Worker, Take, HoldBack, SkipBlacklisted, WaitForInternet, Probe, ResultDropped,
       FastFail, ResultSuspect, Result, InternetAlive, InternetDead, healthCounts
  <2>5. (\A c \in Scheduled : pc'[c] # "checks") /\ \A q \in Pools : Gathering(q)' => q = w[1]
    BY <1>1, <1>5, <2>1, <2>3, <2>4, Alone DEF Alive
  <2>6. checked + Cardinality(Uncounted(w[1])) <= checking_total /\ checked \in Nat /\ checking_total \in Nat
    BY <1>1, <2>1 DEF Fits, CountTypes
  <2>7. checked' + Cardinality(Uncounted(w[1])') <= checking_total' /\ checked' \in Nat
    <3>1. CASE checked' = checked
      BY <1>2, <2>1, <2>2, <2>6, <3>1 DEF CountsOne
    <3>2. ASSUME checked' = checked + 1, NEW a \in Uncounted(w[1]), a \notin Uncounted(w[1])'
          PROVE  checked' + Cardinality(Uncounted(w[1])') <= checking_total' /\ checked' \in Nat
      <4>1. Uncounted(w[1])' \subseteq Uncounted(w[1]) \ {a} /\ IsFiniteSet(Uncounted(w[1]))
        BY <1>2, <2>1, <2>2, <3>2 DEF CountsOne
      <4>2. /\ Cardinality(Uncounted(w[1]) \ {a}) = Cardinality(Uncounted(w[1])) - 1
            /\ IsFiniteSet(Uncounted(w[1]) \ {a})
        BY <3>2, <4>1, FS_RemoveElement
      <4>3. Cardinality(Uncounted(w[1])') <= Cardinality(Uncounted(w[1])) - 1
        BY <4>1, <4>2, FS_Subset
      <4>. QED
        BY <1>2, <2>1, <2>2, <2>6, <3>2, <4>3 DEF CountsOne
    <3>. QED
      BY <2>2, <3>1, <3>2 DEF CountsOne
  <2>8. checked' <= checking_total'
    BY <1>2, <2>1, <2>2, <2>6, <2>7 DEF CountsOne
  <2>. QED
    BY <2>5, <2>7, <2>8 DEF Fits
\* A hunt that is alive is alone.
<1>8. ASSUME NEW h \in Hunts, Alive(h)
      PROVE  ChecksDone /\ (\A g \in Hunts : Alive(g) => g = h) /\ \A c \in Scheduled : ~Alive(c)
  BY <1>1, <1>8 DEF IndExclusive, IndCaller, OneHunt, TaskIsHunt, Exclusive
<1>9. ASSUME NEW h \in Hunts, HuntPool(h), Others PROVE Fits'
  <2>1. Hunt(h) /\ UNCHANGED <<caller, unchecked>>
    BY <1>9 DEF HuntPool, PoolComplete, PoolTimeout, PoolSkipped, PoolDone, PoolLeft, NoPool,
       Hunt, HuntStage, HuntExit, Others, healthCounts
  <2>2. (\A p \in Procs \ {h} : pc'[p] = pc[p]) /\ Alive(h)
    BY <1>1, <2>1 DEF Hunt, HuntStage, HuntExit, NeverStarted, Gathered, HuntDownload, HuntBlacklist,
       HuntBlocklists, HuntValidate, StageDone, HuntValidated, HuntDone, HuntCancelled,
       HuntFailed, EndCycle, Yield, MayGoOn, Waiting, At, Alive, Stages
  <2>3. \A c \in Scheduled : pc'[c] # "checks"
    BY <1>1, <1>8, <2>2 DEF Alive
  <2>4. CASE HuntValidate(h) /\ BeginPool(h)
    <3>1. ASSUME NEW q \in Pools, Gathering(q)' PROVE q = h
      BY <1>1, <1>8, <2>1, <2>2, <3>1 DEF Gathering, Pools, ChecksDone, Alive
    <3>. QED
      BY <1>6, <2>3, <2>4, <3>1 DEF Pools
  <2>5. CASE KeepCounts /\ (PoolComplete(h) \/ PoolTimeout(h) \/ PoolSkipped(h) \/ PoolDone(h)
                             \/ PoolLeft(h) \/ NoPool(h))
    <3>1. CancelPool(h) \/ UNCHANGED poolVars
      BY <2>5 DEF PoolComplete, PoolTimeout, PoolSkipped, PoolDone, PoolLeft, NoPool
    <3>2. pc'[h] = "validate" => pc[h] = "validate"
      BY <1>1, <2>5 DEF PoolComplete, PoolTimeout, PoolSkipped, PoolDone, PoolLeft, NoPool, Gathered,
         HuntValidated, HuntCancelled, HuntFailed, NeverStarted, HuntDownload, HuntBlacklist,
         HuntBlocklists, HuntDone, StageDone, EndCycle, Yield
    <3>3. \A q \in Pools : Gathering(q)' => Gathering(q)
      BY <1>1, <2>1, <2>2, <3>2 DEF Gathering, Pools
    <3>. QED
      BY <1>1, <1>4, <2>1, <2>3, <2>5, <3>1, <3>3, OthersCount DEF KeepCounts, Pools
  <2>. QED
    BY <1>9, <2>4, <2>5 DEF HuntPool
<1>10. ASSUME NEW h \in Hunts, CanaryPool(h), Others PROVE Fits'
  <2>1. pc' \in {pc, Woken(pc)} /\ UNCHANGED <<caller, unchecked>>
    BY <1>10 DEF CanaryPool, CanaryDown, CanaryUp, ResumeHunt, Others, healthCounts
  <2>2. UNCHANGED counterVars /\ (WakeWorkers \/ UNCHANGED poolVars)
    BY <1>10 DEF CanaryPool, KeepCounts
  <2>. QED
    BY <1>1, <1>4, <1>5, <2>1, <2>2, OthersCount
<1>11. ASSUME NEW s \in Starters, StartPool(s), UNCHANGED healthCounts PROVE Fits'
  <2>1. UNCHANGED unchecked
    BY <1>11 DEF healthCounts
  <2>2. CASE StartHunt(s)
    <3>1. ChecksDone /\ (\A h \in Hunts : ~Alive(h)) /\ \A c \in Scheduled : ~Alive(c)
      BY <1>1, <2>2 DEF StartHunt, At, Alive, Attended
    <3>2. checked' = 0 /\ checking_total' = 0 /\ UNCHANGED caller
      BY <1>11, <2>2 DEF StartPool, Press, NoInternet, AbortHealth, AbortHunt, SweepScheduler,
         StartHunt, At, ResetCounts
    <3>3. \A p \in Hunts \cup Scheduled : pc'[p] \notin {"checks", "validate"}
      <4>1. CASE health_running
        BY <1>1, <2>2, <3>1, <4>1 DEF StartHunt, Woken, Alive
      <4>2. CASE ~health_running
        BY <1>1, <2>2, <3>1, <4>2 DEF StartHunt, Woken, FreshHunts, Alive
      <4>. QED
        BY <4>1, <4>2
    <3>4. \A p \in Pools : ~Gathering(p)'
      BY <1>1, <3>1, <3>2, <3>3 DEF Gathering, Pools, ChecksDone
    <3>. QED
      BY <1>3, <3>2, <3>3, <3>4
  <2>3. CASE ~StartHunt(s)
    <3>1. UNCHANGED counterVars /\ \A p \in Procs \ {s} : pc'[p] = pc[p]
      BY <1>1, <1>11, <2>3 DEF StartPool, Press, NoInternet, AbortHealth, AbortHunt, SweepScheduler,
         Yield, Goto, KeepCounts
    <3>2. \A q \in Pools : Gathering(q)' => Gathering(q)
      BY <1>1, <1>11, <2>3, <3>1 DEF StartPool, Gathering, Pools
    <3>3. ASSUME NEW q \in Pools PROVE Uncounted(q)' \subseteq Uncounted(q)
      <4>1. CASE UNCHANGED poolVars
        BY <1>1, <4>1, OthersCount
      <4>2. CASE SweepScheduler(s) /\
                 LET gathering == {k \in Checks : caller[k] = "gathering"} IN
                   /\ worker' = [w \in Workers |-> IF w[1] \in gathering THEN "off" ELSE worker[w]]
                   /\ UNCHANGED <<queue, processed, job, counted>>
        <5>1. {k \in Checks : caller[k] = "gathering"} = {}
          BY <1>1, <4>2 DEF SweepScheduler, At, Alive, Attended, ChecksDone
        <5>2. (\A v \in Workers : worker'[v] = worker[v]) /\ UNCHANGED <<queue, job, counted>>
          BY <4>2, <5>1
        <5>. QED
          BY <5>2 DEF Uncounted, WorkersOf
      <4>. QED
        BY <1>11, <2>3, <4>1, <4>2 DEF StartPool
    <3>. QED
      BY <1>1, <1>4, <2>1, <3>1, <3>2, <3>3
  <2>. QED
    BY <2>2, <2>3
<1>12. ASSUME ButtonPool, Others PROVE Fits'
  <2>1. pc' \in {pc, Woken(pc)} /\ UNCHANGED <<caller, unchecked>>
    BY <1>12 DEF ButtonPool, OperatorPause, SkipPhase, OperatorResume, ResumeHunt, StopHunt,
       StopHealth, Others, healthCounts
  <2>2. UNCHANGED counterVars /\ (WakeWorkers \/ UNCHANGED poolVars)
    BY <1>12 DEF ButtonPool, KeepCounts
  <2>. QED
    BY <1>1, <1>4, <1>5, <2>1, <2>2, OthersCount
\* A health check that is alive is alone.
<1>13. ASSUME NEW c \in Scheduled, Alive(c) PROVE \A p \in Pools : ~Gathering(p)
  BY <1>1, <1>13, Alone
<1>14. ASSUME NEW c \in Healths, HealthPool(c), UNCHANGED caller PROVE Fits'
  <2>1. c \in Scheduled /\ c \notin Rechecks /\ \A d \in Scheduled : d = c
    BY <1>1
  <2>2. CASE HealthChecks(c) /\ \E n \in 1 .. Candidates :
               ResetCounts(n) /\ unchecked' = [unchecked EXCEPT ![c] = n]
    <3>1. PICK n \in 1 .. Candidates :
            checked' = 0 /\ checking_total' = n /\ unchecked' = [unchecked EXCEPT ![c] = n]
      BY <2>2 DEF ResetCounts
    <3>2. n \in Nat /\ unchecked'[c] = n
      BY <1>1, <2>1, <3>1, PoolAssumption DEF CountTypes
    <3>3. \A p \in Pools : ~Gathering(p)'
      <4>1. Alive(c) /\ \A h \in Hunts : pc'[h] = pc[h]
        BY <1>1, <2>1, <2>2 DEF HealthChecks, At, Alive, Yield
      <4>. QED
        BY <1>1, <1>13, <1>14, <2>1, <4>1 DEF Gathering, Pools
    <3>. QED
      BY <2>1, <3>1, <3>2, <3>3 DEF Fits
  <2>3. CASE /\ HealthNothing(c) \/ HealthEnd(c)
             /\ IF phase = "health"
                THEN /\ checking_total' = saved_counts[c][2]
                     /\ checked' = Smaller(saved_counts[c][1], saved_counts[c][2])
                ELSE UNCHANGED counterVars
    <3>1. saved_counts[c][1] \in Nat /\ saved_counts[c][2] \in Nat
      BY <1>1, <2>1 DEF CountTypes
    <3>2. checked' <= checking_total'
      <4>1. CASE phase = "health"
        BY <2>3, <3>1, <4>1 DEF Smaller
      <4>2. CASE phase # "health"
        BY <1>1, <2>3, <4>2 DEF Fits, counterVars
      <4>. QED
        BY <4>1, <4>2
    <3>3. Alive(c) /\ (\A d \in Scheduled : pc'[d] # "checks")
      BY <1>1, <2>1, <2>3 DEF HealthNothing, HealthEnd, Restore, Woken, At, Alive
    <3>4. \A h \in Hunts : pc'[h] = "validate" => pc[h] = "validate"
      BY <1>1, <2>1, <2>3, RestoreMoves DEF HealthNothing, HealthEnd
    <3>5. \A p \in Pools : ~Gathering(p)'
      BY <1>1, <1>13, <1>14, <2>1, <3>3, <3>4 DEF Gathering, Pools
    <3>. QED
      BY <1>3, <3>2, <3>3, <3>5
  <2>4. CASE /\ ScheduledCheck(c) \/ HealthRefused(c) \/ HealthCancelled(c) \/ HealthBegin(c)
             /\ KeepCounts /\ UNCHANGED <<poolVars, unchecked>>
    <3>1. pc'[c] # "checks" /\ \A p \in Procs \ {c} : pc'[p] = pc[p]
      BY <1>1, <2>1, <2>4 DEF ScheduledCheck, HealthRefused, HealthCancelled, HealthBegin, Yield, Goto
    <3>2. \A q \in Pools : Gathering(q)' => Gathering(q)
      BY <1>1, <1>14, <2>1, <3>1 DEF Gathering, Pools
    <3>. QED
      BY <1>1, <1>4, <2>1, <2>4, <3>1, <3>2, OthersCount DEF KeepCounts
  <2>. QED
    BY <1>14, <2>1, <2>2, <2>3, <2>4 DEF HealthPool, healthCounts
<1>15. ASSUME NEW c \in Healths, HealthResult(c) PROVE Fits'
  <2>1. c \in Scheduled /\ Alive(c) /\ pc[c] = "checks" /\ \A d \in Scheduled : d = c
    BY <1>1, <1>15 DEF HealthResult, Alive
  <2>2. UNCHANGED <<pc, caller, checking_total>>
    BY <1>15 DEF HealthResult, controlVars
  <2>3. /\ unchecked[c] > 0 /\ unchecked'[c] = unchecked[c] - 1 /\ checked' \in {checked, checked + 1}
        /\ unchecked[c] \in Nat /\ checked \in Nat /\ checking_total \in Nat
    BY <1>1, <1>15, PoolAssumption DEF HealthResult, CountTypes
  <2>4. checked + unchecked[c] <= checking_total
    BY <1>1, <2>1 DEF Fits
  <2>5. \A p \in Pools : ~Gathering(p)'
    BY <1>13, <2>1, <2>2 DEF Gathering
  <2>. QED
    BY <2>1, <2>2, <2>3, <2>4, <2>5 DEF Fits
<1>16. ASSUME NEW k \in Checks, Check(k) PROVE Fits'
  <2>1. UNCHANGED <<pc, unchecked>> /\ \A j \in Checks : j = k
    BY <1>1, <1>16 DEF Check, CheckBegin, CheckComplete, CheckEnd, CheckCut, controlVars, healthCounts
  <2>2. CASE CheckBegin(k)
    <3>1. \A p \in Hunts \cup Scheduled : ~Alive(p)
      BY <1>1, <2>2 DEF CheckBegin, IndExclusive, Flagged, Attended
    <3>2. \A q \in Pools : Gathering(q)' => q = k
      BY <1>1, <2>1, <3>1 DEF Gathering, Pools, Alive
    <3>3. \A c \in Scheduled : pc'[c] # "checks"
      BY <2>1, <3>1 DEF Alive
    <3>. QED
      BY <1>6, <2>2, <3>2, <3>3 DEF CheckBegin, Pools
  <2>3. CASE CheckComplete(k) \/ CheckEnd(k) \/ CheckCut(k)
    <3>1. UNCHANGED counterVars /\ (CancelPool(k) \/ UNCHANGED poolVars) /\ caller[k] # "free"
      BY <2>3 DEF CheckComplete, CheckEnd, CheckCut
    <3>2. \A q \in Pools : Gathering(q)' => Gathering(q)
      BY <1>1, <2>1, <3>1 DEF Gathering, Pools
    <3>. QED
      BY <1>1, <1>4, <2>1, <3>1, <3>2, OthersCount DEF Pools
  <2>. QED
    BY <1>16, <2>2, <2>3 DEF Check
<1>17. CASE UNCHANGED vars
  <2>1. UNCHANGED counterVars /\ UNCHANGED <<unchecked, poolVars, caller, pc>>
    BY <1>17 DEF vars, controlVars, healthCounts
  <2>. QED
    BY <1>1, <1>4, <1>5, <2>1, OthersCount
<1>. QED
  BY <1>7, <1>9, <1>10, <1>11, <1>12, <1>14, <1>15, <1>16, <1>17 DEF Next

\* Each proxy of a run counts once, whatever the number of workers and of proxies and
\* however often outages of the internet have it checked again: the progress that is
\* shown never passes its total.
THEOREM ProgressFits ==
    ASSUME OneOfEach
    PROVE  Spec => []CountsFit
<1>1. Init => IndCount
  <2>. SUFFICES ASSUME Init PROVE IndCount
    OBVIOUS
  <2>1. IndCaller /\ IndAccount /\ CountTypes
    BY CallerInit, AccountInit
  <2>2. \A p \in Procs : ~Alive(p)
    BY DEF Init, ControlInit, Alive
  <2>3. Flagged /\ Canaries /\ Exclusive
    BY <2>2 DEF Init, ControlInit, Flagged, Canaries, Exclusive, Procs, Healths
  <2>4. Fits
    BY <2>2, PoolAssumption DEF Init, ControlInit, Fits, Gathering, Pools, Procs, Healths, Alive
  <2>. QED
    BY <2>1, <2>3, <2>4 DEF IndCount, IndExclusive
<1>2. IndCount /\ [Next]_vars => IndCount'
  <2>. SUFFICES ASSUME IndCount, [Next]_vars PROVE IndCount'
    OBVIOUS
  <2>1. IndCaller' /\ IndAccount' /\ CountTypes'
    BY CallerInvariant, AccountInvariant DEF OneOfEach, IndCount, IndExclusive
  <2>2. Flagged' /\ Canaries' /\ Exclusive'
    BY FlagKept, ExclusiveStep DEF OneOfEach, Orderly, IndCount, IndExclusive, IndCaller, IndHunt
  <2>3. Fits'
    BY <2>1, FitsStep DEF IndAccount, IndTypes
  <2>. QED
    BY <2>1, <2>2, <2>3 DEF IndCount, IndExclusive
<1>3. IndCount => CountsFit
  BY DEF IndCount, Fits, CountsFit
<1>. QED
  BY <1>1, <1>2, <1>3, PTL DEF Spec

===============================================================================
