----------------------------- MODULE Interception -----------------------------
(* The transparent service (transparent_runner.py) and the redirection of    *)
(* the machine's traffic to it (handlers/interception.py,                    *)
(* handlers/interception_selective.py, interception_reconcile.py,            *)
(* setup_iptables.sh).  The rules are in the kernel and outlive the process; *)
(* what is wanted is noted in three places, the flag of the service and      *)
(* selective_enabled in the database and the script's own state file.        *)
(* Handlers run as tasks of one event loop and interleave at their awaits;   *)
(* the process, or the machine, may stop at any of them.                     *)
EXTENDS Integers, FiniteSets

CONSTANTS
    Calls,          \* requests that may be served at once
    Main,           \* amain, from its start to the scheduler's
    Resources,      \* of the selective interception
    MaxCalls,       \* bound: requests
    MaxStops,       \* bound: ends of the process
    None

Modes == {"all", "selective"}
Scripts == Modes \cup {"stop"}
Steps == {"idle", "ready", "replace", "applied", "fill", "listed", "tried",
          "closing", "off", "look", "removed", "enforced", "undone"}
Tasks == Calls \cup {Main}

ASSUME InterceptionAssumption ==
    Main \notin Calls /\ MaxCalls \in Nat /\ MaxStops \in Nat /\ None \notin Scripts

VARIABLES
    up,                 \* the process: "down", "up", or "stopping" in amain's finally
    flag,               \* _transparent_running, as in the database
    kept,               \* what amain has in _saved_flags
    listener,           \* the runner's task: "none", "binding" or "listening"
    selective_enabled,  \* in interception_config
    resources,          \* their rows: "absent", "off" or "on"
    resolved,           \* the resources that have addresses
    file,               \* transparent_state.json: None or the mode that is active
    rules,              \* the chains in the kernel
    excluded,           \* the process is in the cgroup that they leave alone
    at,                 \* where each call and amain are
    script,             \* the setup_iptables.sh each of them waits for
    half,               \* those whose script has yet to write the state file
    wanted,             \* history: the service as last switched by the operator
    loose,              \* history: calls have overlapped since the process began,
                        \* or it began with records that disagree
    torn,               \* history: the process was killed in amain's finally
    calls, stops        \* counters for the bounds

serviceVars == <<flag, kept, listener, wanted, torn>>
wishVars == <<selective_enabled, resources, resolved>>
kernelVars == <<file, rules, excluded>>
callVars == <<at, script, half>>
boundVars == <<calls, stops>>
vars == <<up, serviceVars, wishVars, kernelVars, callVars, loose, boundVars>>

TypeOK ==
    /\ up \in {"down", "up", "stopping"} /\ flag \in BOOLEAN /\ kept \in BOOLEAN
    /\ listener \in {"none", "binding", "listening"}
    /\ selective_enabled \in BOOLEAN /\ resources \in [Resources -> {"absent", "off", "on"}]
    /\ resolved \subseteq Resources
    /\ file \in Modes \cup {None} /\ rules \subseteq Modes /\ excluded \in BOOLEAN
    /\ at \in [Tasks -> Steps] /\ script \in [Tasks -> Scripts \cup {None}]
    /\ half \subseteq {t \in Tasks : script[t] # None}
    /\ wanted \in BOOLEAN /\ loose \in BOOLEAN /\ torn \in BOOLEAN
    /\ calls \in 0 .. MaxCalls /\ stops \in 0 .. MaxStops

Init ==
    /\ up = "down" /\ flag = FALSE /\ kept = FALSE /\ listener = "none"
    /\ selective_enabled = FALSE
    /\ resources = [r \in Resources |-> "absent"] /\ resolved = {}
    /\ file = None /\ rules = {} /\ excluded = FALSE
    /\ at = [t \in Tasks |-> "idle"] /\ script = [t \in Tasks |-> None] /\ half = {}
    /\ wanted = FALSE /\ loose = FALSE /\ torn = FALSE
    /\ calls = 0 /\ stops = 0

-----------------------------------------------------------------------------
(* setup_iptables.sh.                                                      *)

Goes(t, step) == at' = [at EXCEPT ![t] = step] /\ UNCHANGED <<script, half>>
Runs(t, what, step) ==
    /\ at' = [at EXCEPT ![t] = step] /\ script' = [script EXCEPT ![t] = what]
    /\ UNCHANGED half
Waits(t) == script[t] # None
Back(t) == at[t] # "idle" /\ ~Waits(t)

\* stop removes the chains of both modes; start adds those of its own, after
\* the pid that is given has been moved to the cgroup.
ScriptRules(t) ==
    /\ Waits(t) /\ t \notin half /\ half' = half \cup {t}
    /\ IF script[t] = "stop" THEN rules' = {} /\ UNCHANGED excluded
       ELSE rules' = rules \cup {script[t]} /\ excluded' = TRUE
    /\ UNCHANGED <<up, serviceVars, wishVars, file, at, script, loose, boundVars>>
ScriptFile(t) ==
    /\ t \in half /\ half' = half \ {t} /\ script' = [script EXCEPT ![t] = None]
    /\ file' = IF script[t] = "stop" THEN None ELSE script[t]
    /\ UNCHANGED <<up, serviceVars, wishVars, rules, excluded, at, loose, boundVars>>
\* A start fails, before the rules or after them.  A whole-machine one is left
\* as it is, the others are undone.
ScriptFails(t) ==
    /\ Waits(t) /\ script[t] # "stop" /\ half' = half \ {t}
    /\ IF at[t] = "applied"
       THEN at' = [at EXCEPT ![t] = "idle"] /\ script' = [script EXCEPT ![t] = None]
       ELSE at' = [at EXCEPT ![t] = "undone"] /\ script' = [script EXCEPT ![t] = "stop"]
    /\ UNCHANGED <<up, serviceVars, wishVars, kernelVars, loose, boundVars>>

-----------------------------------------------------------------------------
(* Calls.                                                                  *)

Overlaps == \E t \in Tasks : at[t] # "idle"
Arrives(c) ==
    /\ up = "up" /\ at[c] = "idle" /\ calls < MaxCalls
    /\ calls' = calls + 1 /\ loose' = (loose \/ Overlaps)
    /\ UNCHANGED <<up, stops>>
Continues == UNCHANGED <<up, loose, boundVars>>

\* TransparentRunner.start, which returns at once if the runner runs already.
StartRunner ==
    IF listener # "none" THEN UNCHANGED <<flag, listener>>
    ELSE flag' = TRUE /\ listener' = "binding"
TransparentStart(c) ==
    /\ Arrives(c) /\ StartRunner
    /\ wanted' = TRUE /\ torn' = FALSE
    /\ UNCHANGED <<kept, wishVars, kernelVars, callVars>>
\* TransparentRunner._run: the port is bound, or taken.
Bound ==
    /\ up = "up" /\ listener = "binding" /\ listener' \in {"listening", "none"}
    /\ UNCHANGED <<flag, kept, wanted, torn, wishVars, kernelVars, callVars>> /\ Continues

\* TransparentRunner.stop: with a server, it waits for its connections.
TransparentStop(c) ==
    /\ Arrives(c) /\ flag' = FALSE /\ listener' = "none"
    /\ wanted' = FALSE /\ torn' = FALSE
    /\ IF listener = "listening" THEN Goes(c, "closing") ELSE Runs(c, "stop", "off")
    /\ UNCHANGED <<kept, wishVars, kernelVars>>
\* A task that was started during the wait is cancelled as if it were the old
\* one; its flag stays.
Closed(c) ==
    /\ at[c] = "closing" /\ listener' = "none" /\ Runs(c, "stop", "off")
    /\ UNCHANGED <<flag, kept, wanted, torn, wishVars, kernelVars>> /\ Continues
\* The end of both handlers that stop an interception, and of that one.
SwitchOff(c) ==
    /\ Back(c) /\ at[c] = "off" /\ selective_enabled' = FALSE /\ Goes(c, "idle")
    /\ UNCHANGED <<serviceVars, resources, resolved, kernelVars>> /\ Continues
InterceptionStop(c) ==
    Arrives(c) /\ Runs(c, "stop", "off") /\ UNCHANGED <<serviceVars, wishVars, kernelVars>>

\* _interception_readiness: the port answers.
Ready == flag /\ listener = "listening"

InterceptionApply(c) ==
    Arrives(c) /\ Goes(c, "ready") /\ UNCHANGED <<serviceVars, wishVars, kernelVars>>
Apply(c) ==
    /\ at[c] = "ready"
    /\ \/ ~Ready /\ Goes(c, "idle")
       \/ Ready /\ selective_enabled /\ Runs(c, "stop", "replace")
       \/ Ready /\ ~selective_enabled /\ Runs(c, "all", "applied")
    /\ UNCHANGED <<serviceVars, wishVars, kernelVars>> /\ Continues
Replace(c) ==
    /\ Back(c) /\ at[c] = "replace" /\ selective_enabled' = FALSE /\ Runs(c, "all", "applied")
    /\ UNCHANGED <<serviceVars, resources, resolved, kernelVars>> /\ Continues
\* _interception_probe: the connections of the process itself are excluded
\* from the redirection, so its outcome has to do with the network only.
Applied(c) ==
    /\ Back(c) /\ at[c] = "applied"
    /\ Goes(c, "idle") \/ Runs(c, "stop", "undone")
    /\ UNCHANGED <<serviceVars, wishVars, kernelVars>> /\ Continues
Undone(t) ==
    /\ Back(t) /\ at[t] = "undone" /\ Goes(t, "idle")
    /\ UNCHANGED <<serviceVars, wishVars, kernelVars>> /\ Continues

\* _handle_selective_apply: refused while the whole machine is redirected.
SelectiveApply(c) ==
    /\ Arrives(c) /\ file # "all" /\ Goes(c, "fill")
    /\ UNCHANGED <<serviceVars, wishVars, kernelVars>>
\* write_ipset_spec has a line; if not, the resources are resolved first.
HasSpec == \E r \in resolved : resources[r] = "on"
Fill(c) ==
    /\ at[c] = "fill"
    /\ \/ ~Ready /\ Goes(c, "idle")
       \/ Ready /\ HasSpec /\ Runs(c, "selective", "tried")
       \/ Ready /\ ~HasSpec /\ Goes(c, "listed")
    /\ UNCHANGED <<serviceVars, wishVars, kernelVars>> /\ Continues
Listed(c) ==
    /\ at[c] = "listed"
    /\ IF HasSpec THEN Runs(c, "selective", "tried") ELSE Goes(c, "idle")
    /\ UNCHANGED <<serviceVars, wishVars, kernelVars>> /\ Continues
Tried(c) ==
    /\ Back(c) /\ at[c] = "tried"
    /\ \/ selective_enabled' = TRUE /\ Goes(c, "idle")
       \/ UNCHANGED selective_enabled /\ Runs(c, "stop", "undone")
    /\ UNCHANGED <<serviceVars, resources, resolved, kernelVars>> /\ Continues

\* reconcile_on_startup, which the operator may ask for as well: rules that
\* neither record knows of are removed.
Reconcile(c) ==
    Arrives(c) /\ Goes(c, "look") /\ UNCHANGED <<serviceVars, wishVars, kernelVars>>
Leftover == rules # {} /\ ~selective_enabled /\ file = None
Look(t) ==
    /\ at[t] = "look"
    /\ IF Leftover THEN Runs(t, "stop", IF t = Main THEN "removed" ELSE "undone")
       ELSE Goes(t, IF t = Main THEN "removed" ELSE "idle")
    /\ UNCHANGED <<serviceVars, wishVars, kernelVars>> /\ Continues

-----------------------------------------------------------------------------
(* The settings of the selective interception.  They are in the database;   *)
(* nothing puts them into the kernel before the next apply or start.        *)

Setting == up = "up" /\ UNCHANGED <<up, serviceVars, kernelVars, callVars, boundVars>>
SelectiveConfig ==
    /\ Setting /\ selective_enabled' \in BOOLEAN
    /\ loose' = (loose \/ Overlaps) /\ UNCHANGED <<resources, resolved>>
Becomes(r, e) ==
    Setting /\ UNCHANGED loose /\ resources' = [resources EXCEPT ![r] = e] /\ UNCHANGED selective_enabled
CreateResource(r) ==
    resources[r] = "absent" /\ (\E e \in {"on", "off"} : Becomes(r, e)) /\ UNCHANGED resolved
\* New addresses are not resolved yet.
UpdateResource(r) ==
    /\ resources[r] # "absent" /\ \E e \in {"on", "off"} : Becomes(r, e)
    /\ resolved' \in {resolved, resolved \ {r}}
ToggleResource(r) ==
    /\ resources[r] # "absent" /\ Becomes(r, IF resources[r] = "on" THEN "off" ELSE "on")
    /\ UNCHANGED resolved
DeleteResource(r) == Becomes(r, "absent") /\ resolved' = resolved \ {r}
\* resolve_resource: after each of these, by the resolver loop, by a request.
ResolveResource(r) ==
    /\ Setting /\ UNCHANGED loose /\ resources[r] # "absent"
    /\ resolved' \in {resolved \cup {r}, resolved \ {r}}
    /\ UNCHANGED <<selective_enabled, resources>>
Settings ==
    \/ SelectiveConfig
    \/ \E r \in Resources : CreateResource(r) \/ UpdateResource(r) \/ ToggleResource(r)
                            \/ DeleteResource(r) \/ ResolveResource(r)

-----------------------------------------------------------------------------
(* The process.                                                            *)

\* amain restores the service, then reconciles.
Boot ==
    /\ up = "down" /\ up' = "up"
    /\ listener' = IF flag THEN "binding" ELSE "none"
    /\ excluded' = FALSE /\ Goes(Main, "look") /\ loose' = FALSE
    /\ UNCHANGED <<flag, kept, wanted, torn, wishVars, file, rules, boundVars>>

KeepRules(t) ==                                                     \* mutated
    /\ Back(t) /\ at[t] = "removed" /\ Goes(t, "idle")
    /\ UNCHANGED <<up, serviceVars, wishVars, kernelVars, loose, boundVars>>
\* reenforce_on_startup.  Selective rules that the configuration does not know
\* of stay, and the new process is not excluded from them.
Reenforce(t) ==
    /\ Back(t) /\ at[t] = "removed"
    /\ \/ ~flag /\ rules = {} /\ Goes(t, "idle")
       \/ ~flag /\ rules # {} /\ Runs(t, "stop", "undone")
       \/ flag /\ selective_enabled /\ Runs(t, "selective", "enforced")
       \/ flag /\ ~selective_enabled /\ file = "all" /\ Runs(t, "all", "enforced")
       \/ flag /\ ~selective_enabled /\ file # "all" /\ Goes(t, "idle")
    /\ loose' = (loose \/ (flag /\ ~selective_enabled /\ file = "selective"))
    /\ UNCHANGED <<up, serviceVars, wishVars, kernelVars, boundVars>>
Enforced(t) ==
    /\ Back(t) /\ at[t] = "enforced" /\ Goes(t, "idle")
    /\ UNCHANGED <<serviceVars, wishVars, kernelVars>> /\ Continues

\* The tasks and the scripts they wait for end wherever they are.
AllGone ==
    /\ at' = [t \in Tasks |-> "idle"] /\ script' = [t \in Tasks |-> None] /\ half' = {}
    /\ listener' = "none"
Stops == stops < MaxStops /\ stops' = stops + 1 /\ UNCHANGED calls

\* A signal, after the start-up: amain captures the flags, stops the services,
\* and saves the flags again.
Terminate ==
    /\ up = "up" /\ at[Main] = "idle" /\ up' = "stopping" /\ Stops /\ AllGone
    /\ kept' = flag /\ flag' = FALSE
    /\ UNCHANGED <<wanted, torn, wishVars, kernelVars, loose>>
FlagsLost ==                                                        \* mutated
    /\ up = "stopping" /\ up' = "down"
    /\ UNCHANGED <<serviceVars, wishVars, kernelVars, callVars, loose, boundVars>>
Exit ==
    /\ up = "stopping" /\ up' = "down" /\ flag' = kept
    /\ UNCHANGED <<listener, kept, wanted, torn, wishVars, kernelVars, callVars, loose, boundVars>>
Killed ==
    /\ up # "down" /\ up' = "down" /\ Stops /\ AllGone
    /\ torn' = (torn \/ (up = "stopping" /\ kept))
    /\ UNCHANGED <<flag, kept, wanted, wishVars, kernelVars, loose>>
\* The machine is started anew: the kernel has no rules.
PowerCut ==
    /\ up = "up" /\ up' = "down" /\ Stops /\ AllGone /\ rules' = {}
    /\ UNCHANGED <<flag, kept, wanted, torn, wishVars, file, excluded, loose>>

Requests(c) ==
    \/ TransparentStart(c) \/ TransparentStop(c) \/ InterceptionApply(c)
    \/ InterceptionStop(c) \/ SelectiveApply(c) \/ Reconcile(c)
Resumes(c) ==
    \/ Closed(c) \/ SwitchOff(c) \/ Apply(c) \/ Replace(c) \/ Applied(c)
    \/ Fill(c) \/ Listed(c) \/ Tried(c)
SetupScript(t) == ScriptRules(t) \/ ScriptFile(t) \/ ScriptFails(t)
Next ==
    \/ \E c \in Calls : Requests(c) \/ Resumes(c)
    \/ \E t \in Tasks : SetupScript(t) \/ Undone(t) \/ Look(t)
    \/ Reenforce(Main) \/ Enforced(Main) \/ Bound \/ Settings
    \/ Boot \/ Terminate \/ Exit \/ Killed \/ PowerCut
Spec == Init /\ [][Next]_vars

-----------------------------------------------------------------------------
(* Properties.                                                             *)

\* When no request and no start-up is under way, traffic is redirected only
\* to a service that is switched on, and never that of the process itself:
\* wherever the process or the machine was stopped before.  Exempt is a
\* process in which requests overlapped, or that found selective rules which
\* the configuration does not know of; the next start repairs the former.
AtRest == up = "up" /\ \A t \in Tasks : at[t] = "idle"
NeverBlackHoled == AtRest /\ ~loose /\ rules # {} => flag /\ excluded

\* The service is restored as the operator left it, after an orderly end of
\* the process and after a kill; but amain's finally block, killed before it
\* has saved the flags again, loses it.
ServiceKept == up = "up" /\ ~torn => flag = wanted
=============================================================================
