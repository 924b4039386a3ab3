------------------------------ MODULE Validation ------------------------------
(***************************************************************************)
(* _validate_all and the pool of workers that checks a list of proxies     *)
(* (check_validation.py, check_validation_helpers.py), run by the hunt of  *)
(* HuntControl or by the scheduler's proxy_check, with the automatic pause *)
(* of hunt_cycle.py and the counters they share with the health check.     *)
(*                                                                         *)
(* Every step of HuntControl is a step here, joined with what it does to   *)
(* the counters and to the workers that wait for the pause to end.  The    *)
(* semaphore has as many places as the pool has workers and the lock is    *)
(* never kept over an await, so neither suspends anybody.                  *)
(***************************************************************************)
EXTENDS HuntControl, Integers

CONSTANTS
    Checks,         \* runs of the scheduler's proxy_check (bound: at once)
    Parallel,       \* workers of a pool
    Addrs,          \* the proxies of a list
    Blacklisted,    \* those on the blacklist
    FastFails, SlowFails,   \* streaks that raise suspicion (3 and 10)
    Candidates      \* proxies of a health check (bound)

Pools == Hunts \cup Checks
Workers == Pools \X (1 .. Parallel)
WorkersOf(p) == {w \in Workers : w[1] = p}
WorkerStates == {"off", "take", "ready", "paused", "gate", "suspect", "check",
                 "canary", "slow canary", "spinning"}

ASSUME PoolAssumption ==
    /\ Checks \cap Procs = {} /\ None \notin Checks \cup Addrs
    /\ Parallel \in Nat \ {0} /\ IsFiniteSet(Addrs)
    /\ Blacklisted \subseteq Addrs
    /\ FastFails \in Nat /\ SlowFails \in Nat /\ Candidates \in Nat

VARIABLES
    queue,          \* the pool's addresses nobody has taken
    processed,      \* the pool's addresses that are dealt with
    worker,         \* where each worker is suspended
    job,            \* the address it has
    counted,        \* `counted' of _check_one
    caller,         \* a proxy_check: "free", "waiting" or "gathering"
    checked, checking_total,            \* the shared progress counters
    fail_streak, check_streak,
    saved_counts,   \* the counters a health check puts back
    unchecked       \* the proxies a health check has left

poolVars == <<queue, processed, worker, job, counted>>
streakVars == <<fail_streak, check_streak>>
counterVars == <<checked, checking_total>>
healthCounts == <<saved_counts, unchecked>>
vars == <<controlVars, poolVars, caller, counterVars, streakVars, healthCounts>>

Total == Cardinality(Addrs)
Complete(p) == processed[p] >= Total
AllOff(p) == \A w \in WorkersOf(p) : worker[w] = "off"
ChecksDone == \A k \in Checks : caller[k] = "free"

TypeOK ==
    /\ ControlTypeOK
    /\ queue \in [Pools -> SUBSET Addrs] /\ processed \in [Pools -> 0 .. Total]
    /\ worker \in [Workers -> WorkerStates]
    /\ job \in [Workers -> Addrs \cup {None}] /\ counted \in [Workers -> BOOLEAN]
    /\ caller \in [Checks -> {"free", "waiting", "gathering"}]
    /\ checked \in Nat /\ checking_total \in Nat
    /\ fail_streak \in Nat /\ check_streak \in Nat
    /\ saved_counts \in [Healths -> Nat \X Nat] /\ unchecked \in [Healths -> 0 .. Candidates]

Init ==
    /\ ControlInit
    /\ queue = [p \in Pools |-> {}] /\ processed = [p \in Pools |-> 0]
    /\ worker = [w \in Workers |-> "off"] /\ job = [w \in Workers |-> None]
    /\ counted = [w \in Workers |-> FALSE]
    /\ caller = [k \in Checks |-> "free"]
    /\ checked = 0 /\ checking_total = 0
    /\ fail_streak = 0 /\ check_streak = 0
    /\ saved_counts = [c \in Healths |-> <<0, 0>>] /\ unchecked = [c \in Healths |-> 0]

-----------------------------------------------------------------------------
(* The pool.                                                               *)

ResetStreaks == fail_streak' = 0 /\ check_streak' = 0
\* The counters of a run of n proxies that begins.
ResetCounts(n) == checked' = 0 /\ checking_total' = n

\* The head of _validate_all for pool p.
FillOnly(p) == queue' = [queue EXCEPT ![p] = Addrs] /\ UNCHANGED processed  \* mutated
Fill(p) ==
    queue' = [queue EXCEPT ![p] = Addrs] /\ processed' = [processed EXCEPT ![p] = 0]
BeginPool(p) ==
    /\ AllOff(p) /\ Fill(p)
    /\ worker' = [w \in Workers |-> IF w[1] = p THEN "take" ELSE worker[w]]
    /\ UNCHANGED <<job, counted>>
    /\ ResetStreaks /\ ResetCounts(Total)

\* The workers of p are cancelled, at whatever they wait for.
CancelNobody(p) == UNCHANGED poolVars                               \* mutated
CancelPool(p) ==
    /\ queue' = [queue EXCEPT ![p] = {}]
    /\ worker' = [w \in Workers |-> IF w[1] = p THEN "off" ELSE worker[w]]
    /\ job' = [w \in Workers |-> IF w[1] = p THEN None ELSE job[w]]
    /\ UNCHANGED <<processed, counted>>

\* The workers at ws after _pause_event.set().
Released(ws) == [w \in Workers |->
    CASE ws[w] = "paused" -> "gate" [] ws[w] = "suspect" -> "ready" [] OTHER -> ws[w]]
WakeWorkers == worker' = Released(worker) /\ UNCHANGED <<queue, processed, job, counted>>

-----------------------------------------------------------------------------
(* A worker: _check_one for one address after the other.                   *)

MoveTo(w, l) == worker' = [worker EXCEPT ![w] = l]

Take(w) ==
    /\ Idle /\ worker[w] = "take"
    /\ \/ \E a \in queue[w[1]] :
            /\ queue' = [queue EXCEPT ![w[1]] = @ \ {a}]
            /\ job' = [job EXCEPT ![w] = a] /\ counted' = [counted EXCEPT ![w] = FALSE]
            /\ MoveTo(w, "ready")
       \/ /\ queue[w[1]] = {} /\ MoveTo(w, "off")
          /\ UNCHANGED <<queue, job, counted>>
    /\ UNCHANGED <<controlVars, processed, caller, counterVars, streakVars, healthCounts>>

\* The address is dealt with and the worker goes back to the queue, where ws
\* is where the workers are otherwise.
NextAddress(w, ws) ==
    /\ processed' = [processed EXCEPT ![w[1]] = @ + 1]
    /\ worker' = [ws EXCEPT ![w] = "take"] /\ job' = [job EXCEPT ![w] = None]
    /\ UNCHANGED <<queue, counted>>

\* _pause_event.wait() with the address in hand: no suspension when it is set.
AwaitEvent(w, ws, set) ==
    worker' = [ws EXCEPT ![w] = IF set THEN "ready" ELSE "suspect"]

HoldBack(w) ==
    /\ Idle /\ worker[w] = "ready" /\ paused /\ ~pause_event
    /\ MoveTo(w, "paused")
    /\ UNCHANGED <<controlVars, queue, processed, job, counted, caller, counterVars,
                   streakVars, healthCounts>>

AtGate(w) == /\ Idle
             /\ \/ worker[w] = "gate"
                \/ worker[w] = "ready" /\ (paused => pause_event)

\* An address counts once; checked' from what the worker has counted.
CountAgain(w) == checked' = checked + 1 /\ UNCHANGED checking_total \* mutated
Count(w) == /\ checked' = IF counted[w] THEN checked ELSE checked + 1
            /\ UNCHANGED checking_total

SkipBlacklisted(w) ==
    /\ AtGate(w) /\ job[w] \in Blacklisted
    /\ IF health_running THEN UNCHANGED counterVars ELSE Count(w)
    /\ NextAddress(w, worker)
    /\ UNCHANGED <<controlVars, caller, streakVars, healthCounts>>

\* With the event set, the wait returns at once and the loop never ends: no
\* other coroutine gets the processor again.
WaitForInternet(w) ==
    /\ AtGate(w) /\ job[w] \notin Blacklisted /\ internet_suspect
    /\ MoveTo(w, IF pause_event THEN "spinning" ELSE "suspect")
    /\ UNCHANGED <<controlVars, queue, processed, job, counted, caller, counterVars,
                   streakVars, healthCounts>>

Probe(w) ==
    /\ AtGate(w) /\ job[w] \notin Blacklisted /\ ~internet_suspect
    /\ MoveTo(w, "check")
    /\ UNCHANGED <<controlVars, queue, processed, job, counted, caller, counterVars,
                   streakVars, healthCounts>>

\* More than 70% of at least n results in a row have failed.
Suspicious(n) == check_streak' >= n /\ 10 * fail_streak' > 7 * check_streak'
RaiseSuspicion == internet_suspect' = TRUE /\ UNCHANGED pause_event \* mutated
SuspectInternet == internet_suspect' = TRUE /\ pause_event' = FALSE
AutoPause(w, l) ==
    /\ SuspectInternet /\ MoveTo(w, l)
    /\ UNCHANGED <<phaseVars, paused, manual_pause, huntVars, healthVars, schedulerVars,
                   skip_event, pc, cancel, awaited, current, queue, processed, job>>

\* A result that comes in during a health check is dropped.
ResultDropped(w) ==
    /\ Idle /\ worker[w] = "check" /\ health_running
    /\ NextAddress(w, worker)
    /\ UNCHANGED <<controlVars, caller, counterVars, streakVars, healthCounts>>

\* _handle_fast_fail.
FastFail(w) ==
    /\ Idle /\ worker[w] = "check" /\ ~health_running
    /\ fail_streak' = fail_streak + 1 /\ check_streak' = check_streak + 1
    /\ Count(w)
    /\ \/ /\ Suspicious(FastFails)
          /\ AutoPause(w, "canary") /\ counted' = [counted EXCEPT ![w] = TRUE]
       \/ /\ ~Suspicious(FastFails) /\ internet_suspect
          /\ AwaitEvent(w, worker, pause_event)
          /\ counted' = [counted EXCEPT ![w] = TRUE]
          /\ UNCHANGED <<controlVars, queue, processed, job>>
       \/ /\ ~Suspicious(FastFails) /\ ~internet_suspect
          /\ NextAddress(w, worker) /\ UNCHANGED controlVars
    /\ UNCHANGED <<caller, healthCounts>>

\* _record_check_result: nothing is recorded while the internet is suspected,
\* and the address is checked again.
ResultSuspect(w) ==
    /\ Idle /\ worker[w] = "check" /\ ~health_running /\ internet_suspect
    /\ counted' = [counted EXCEPT ![w] = TRUE]
    /\ AwaitEvent(w, worker, pause_event)
    /\ UNCHANGED <<controlVars, queue, processed, job, caller, counterVars, streakVars,
                   healthCounts>>

Result(w) ==
    /\ Idle /\ worker[w] = "check" /\ ~health_running /\ ~internet_suspect
    /\ Count(w) /\ check_streak' = check_streak + 1
    /\ \E ok \in BOOLEAN : fail_streak' = IF ok THEN 0 ELSE fail_streak + 1
    /\ IF Suspicious(SlowFails)
       THEN AutoPause(w, "slow canary") /\ UNCHANGED counted
       ELSE NextAddress(w, worker) /\ UNCHANGED controlVars
    /\ UNCHANGED <<caller, healthCounts>>

\* The canary answers, and _check_one goes on with suspicion and event as
\* they are then.
AfterCanary(w, ws) ==
    IF worker[w] = "canary" /\ internet_suspect'
    THEN AwaitEvent(w, ws, pause_event') /\ UNCHANGED <<queue, processed, job, counted>>
    ELSE NextAddress(w, ws)

LowerSuspicion == internet_suspect' = FALSE /\ UNCHANGED pause_event \* mutated
ClearSuspicion == internet_suspect' = FALSE /\ pause_event' = TRUE
InternetAlive(w) ==
    /\ Idle /\ worker[w] \in {"canary", "slow canary"}
    /\ ClearSuspicion /\ ResetStreaks
    /\ pc' = Woken(pc) /\ AfterCanary(w, Released(worker))
    /\ UNCHANGED <<phaseVars, paused, manual_pause, huntVars, healthVars, schedulerVars,
                   skip_event, cancel, awaited, current, caller, counterVars, healthCounts>>

InternetDead(w) ==
    /\ Idle /\ worker[w] \in {"canary", "slow canary"} /\ "canary" \in Ops
    /\ IF MayPause THEN PauseHunt(FALSE) ELSE UNCHANGED <<phaseVars, pauseVars>>
    /\ AfterCanary(w, worker)
    /\ UNCHANGED <<huntVars, healthVars, schedulerVars, skip_event, pc, cancel, awaited,
                   current, caller, counterVars, streakVars, healthCounts>>

Worker(w) ==
    \/ Take(w) \/ HoldBack(w) \/ SkipBlacklisted(w) \/ WaitForInternet(w) \/ Probe(w)
    \/ ResultDropped(w) \/ FastFail(w) \/ ResultSuspect(w) \/ Result(w)
    \/ InternetAlive(w) \/ InternetDead(w)

-----------------------------------------------------------------------------
(* The hunt's steps with what they do to pools and counters.               *)

Others == UNCHANGED <<caller, healthCounts>>
KeepCounts == UNCHANGED <<counterVars, streakVars>>

\* asyncio.wait of _validate_all returns: all is done, or too late.
PoolComplete(h) == Gathered(h) /\ pc[h] = "validate" /\ Complete(h) /\ UNCHANGED poolVars
PoolTimeout(h) == Gathered(h) /\ pc[h] = "validate" /\ ~Complete(h) /\ CancelPool(h)
\* A skip cancels the workers and waits for them.  A hunt that is cancelled
\* leaves them to themselves, unless it waits for the last of them.
PoolSkipped(h) == HuntValidated(h) /\ h \notin gathered /\ CancelPool(h)
PoolDone(h) ==
    HuntValidated(h) /\ h \in gathered /\ AllOff(h) /\ UNCHANGED poolVars
PoolLeft(h) ==
    /\ HuntCancelled(h)
    /\ IF h \in gathered /\ pc[h] = "validate" THEN CancelPool(h) ELSE UNCHANGED poolVars
NoPool(h) ==
    /\ \/ pc[h] # "validate" /\ (Gathered(h) \/ HuntFailed(h))
       \/ NeverStarted(h) \/ HuntDownload(h) \/ HuntBlacklist(h) \/ HuntBlocklists(h)
       \/ HuntDone(h)
    /\ UNCHANGED poolVars
CanaryPool(h) ==
    \/ CanaryDown(h) /\ UNCHANGED poolVars /\ KeepCounts
    \/ CanaryUp(h) /\ ResetStreaks /\ WakeWorkers /\ UNCHANGED counterVars
HuntPool(h) ==
    \/ HuntValidate(h) /\ BeginPool(h)
    \/ /\ \/ PoolComplete(h) \/ ("timeout" \in Ops /\ PoolTimeout(h))
          \/ PoolSkipped(h) \/ PoolDone(h) \/ PoolLeft(h) \/ NoPool(h)
       /\ KeepCounts

StartPool(s) ==
    \* A bound: there is a place for the workers of the new hunt.
    \/ /\ \/ /\ Press(s) /\ ("again" \in Ops \/ ChecksDone)
             /\ \E h \in FreshHunts : AllOff(h)
          \/ NoInternet(s) \/ AbortHealth(s) \/ AbortHunt(s)
       /\ UNCHANGED poolVars /\ KeepCounts /\ UNCHANGED caller
    \* A proxy_check is cancelled where it waits.
    \/ /\ SweepScheduler(s) /\ KeepCounts
       /\ caller' = [k \in Checks |-> "free"]
       /\ LET gathering == {k \in Checks : caller[k] = "gathering"} IN
            /\ worker' = [w \in Workers |-> IF w[1] \in gathering THEN "off" ELSE worker[w]]
            /\ UNCHANGED <<queue, processed, job, counted>>
    \/ /\ StartHunt(s) /\ ResetCounts(0) /\ ResetStreaks /\ WakeWorkers
       /\ \A h \in Hunts : pc'[h] = "created" /\ pc[h] # "created" => AllOff(h)
       /\ UNCHANGED caller

ButtonPool ==
    \/ /\ (OperatorPause \/ SkipPhase \/ StopHealth)
       /\ UNCHANGED poolVars /\ KeepCounts
    \/ OperatorResume /\ ResetStreaks /\ WakeWorkers /\ UNCHANGED counterVars
    \/ StopHunt /\ WakeWorkers /\ KeepCounts

\* The health check borrows the counters and puts them back.
Smaller(a, b) == IF a < b THEN a ELSE b
HealthPool(c) ==
    \/ /\ \/ c \in Rechecks /\ Recheck(c)
          \/ c \in Scheduled /\ ScheduledCheck(c) /\ ChecksDone
          \/ HealthRefused(c) \/ HealthCancelled(c)
       /\ UNCHANGED <<poolVars, healthCounts>> /\ KeepCounts
    \/ /\ HealthBegin(c) /\ saved_counts' = [saved_counts EXCEPT ![c] = counterVars]
       /\ UNCHANGED <<poolVars, unchecked>> /\ KeepCounts
    \/ /\ HealthChecks(c) /\ ResetStreaks
       /\ \E n \in 1 .. Candidates :
            ResetCounts(n) /\ unchecked' = [unchecked EXCEPT ![c] = n]
       /\ UNCHANGED <<poolVars, saved_counts>>
    \/ /\ (HealthNothing(c) \/ HealthEnd(c))
       /\ IF phase = "health"
          THEN /\ checking_total' = saved_counts[c][2]
               /\ checked' = Smaller(saved_counts[c][1], saved_counts[c][2])
          ELSE UNCHANGED counterVars
       /\ IF Restores(c) THEN ResetStreaks /\ WakeWorkers
          ELSE UNCHANGED <<poolVars, streakVars>>
       /\ saved_counts' = [saved_counts EXCEPT ![c] = <<0, 0>>]
       /\ unchecked' = [unchecked EXCEPT ![c] = 0]

\* One proxy of a health check is done; under suspicion nothing is counted.
HealthResult(c) ==
    /\ Idle /\ pc[c] = "checks" /\ unchecked[c] > 0
    /\ unchecked' = [unchecked EXCEPT ![c] = @ - 1]
    /\ checked' = IF internet_suspect THEN checked ELSE checked + 1
    /\ UNCHANGED <<controlVars, poolVars, caller, checking_total, streakVars, saved_counts>>

-----------------------------------------------------------------------------
(* _execute_proxy_check of the scheduler, which keeps it apart from its    *)
(* own health check and from a hunt.  Without "again" no hunt is asked for *)
(* while it runs.                                                          *)

CheckBegin(k) ==
    /\ "check" \in Ops /\ Idle /\ caller[k] = "free"
    /\ ~scheduler_paused /\ ~hunt_running /\ \A c \in Scheduled : ~Alive(c)
    /\ "again" \in Ops \/ \A s \in Starters : ~Alive(s)
    /\ BeginPool(k) /\ caller' = [caller EXCEPT ![k] = "waiting"]
    /\ UNCHANGED <<controlVars, healthCounts>>

CheckComplete(k) ==
    /\ Idle /\ caller[k] = "waiting" /\ Complete(k)
    /\ caller' = [caller EXCEPT ![k] = "gathering"]
    /\ UNCHANGED <<controlVars, poolVars, counterVars, streakVars, healthCounts>>

CheckEnd(k) ==
    /\ Idle /\ caller[k] = "gathering" /\ AllOff(k)
    /\ caller' = [caller EXCEPT ![k] = "free"]
    /\ UNCHANGED <<controlVars, poolVars, counterVars, streakVars, healthCounts>>

\* A skip left over, or the deadline.
CheckCut(k) ==
    /\ Idle /\ caller[k] = "waiting"
    /\ \/ skip_event /\ skip_event' = FALSE
       \/ ~skip_event /\ "timeout" \in Ops /\ UNCHANGED skip_event
    /\ ~Complete(k) /\ CancelPool(k) /\ caller' = [caller EXCEPT ![k] = "free"]
    /\ UNCHANGED <<phaseVars, pauseVars, huntVars, healthVars, schedulerVars, pc, cancel,
                   awaited, current, counterVars, streakVars, healthCounts>>

Check(k) == CheckBegin(k) \/ CheckComplete(k) \/ CheckEnd(k) \/ CheckCut(k)

-----------------------------------------------------------------------------
Frozen == \E w \in Workers : worker[w] = "spinning"
Next ==
    /\ ~Frozen
    /\ \/ \E w \in Workers : Worker(w)
       \/ \E h \in Hunts : (HuntPool(h) \/ CanaryPool(h)) /\ Others
       \/ \E s \in Starters : StartPool(s) /\ UNCHANGED healthCounts
       \/ ButtonPool /\ Others
       \/ \E c \in Healths : (HealthPool(c) /\ UNCHANGED caller) \/ HealthResult(c)
       \/ \E k \in Checks : Check(k)
Spec == Init /\ [][Next]_vars

\* The event loop runs every coroutine that is ready, a probe of a proxy has a
\* timeout, and the canary, asked again and again, finds the internet alive.
Fairness ==
    /\ \A w \in Workers : SF_vars(~Frozen /\ Worker(w)) /\ SF_vars(~Frozen /\ InternetAlive(w))
    /\ \A h \in Hunts :
        /\ SF_vars(~Frozen /\ HuntPool(h) /\ Others)
        /\ SF_vars(~Frozen /\ CanaryUp(h) /\ CanaryPool(h) /\ Others)
    /\ \A s \in Starters :
        SF_vars(~Frozen /\ pc[s] # "free" /\ StartPool(s) /\ UNCHANGED healthCounts)
FairSpec == Spec /\ Fairness

-----------------------------------------------------------------------------
(* Properties.                                                             *)

\* Each proxy of a run counts once, however often it is checked again: the
\* progress that is shown never passes its total.
CountsFit == checked <= checking_total

\* No worker waits for an event that is set: "busy-looping on an already-set
\* event [...] the event loop is starved" (hunt_cycle.py).
NoBusyLoop == ~Frozen

\* Who starts a pool of workers stays until they have stopped.
Busy(p) == IF p \in Checks THEN caller[p] # "free" ELSE Alive(p)
NoStrays == \A w \in Workers : worker[w] # "off" => Busy(w[1])

\* A hunt that is not cancelled leaves no worker behind it, whatever the
\* operator, the canary and the scheduler do meanwhile.
EndsClean ==
    [][\A h \in Hunts : pc[h] \in {"validate", "woken"} /\ pc'[h] = "free" /\ h \notin cancel
          => AllOff(h)']_vars

\* However the workers suspend, suspect the internet, check again and are
\* cancelled, the pools deal with their lists as WorkPool promises: no proxy is
\* put back, taken twice, or lost from a list that goes on.
List == INSTANCE WorkPool WITH left <- queue, hand <- job, done <- processed
ImplementsPool == List!Spec

\* The scheduler, paused for a hunt, is released: the hunt ends.
HuntReleases == paused_by_hunt ~> ~paused_by_hunt
=============================================================================
