-------------------------- MODULE InterceptionProofs --------------------------
(* Theorems about Interception, for any requests and resources.  Three      *)
(* arguments: types together with the script each place may wait for         *)
(* (Awaits, Places); the service's flag and its copies (IndFlag); the rules,  *)
(* which are traced through the one request or start-up that is under way     *)
(* (IndRules).                                                               *)
EXTENDS Interception, TLAPS

-----------------------------------------------------------------------------
(* Types.                                                                  *)

\* The scripts that may be awaited at a place.
Awaited(what, step) ==
    \/ what = "stop" /\ step \in {"off", "replace", "undone", "removed"}
    \/ what = "all" /\ step \in {"applied", "enforced"}
    \/ what = "selective" /\ step \in {"tried", "enforced"}
Awaits == \A t \in Tasks : script[t] = None \/ Awaited(script[t], at[t])
\* What only the start-up, and only a request, goes through.
Places ==
    /\ at[Main] \in {"idle", "look", "removed", "enforced", "undone"}
    /\ \A c \in Calls : at[c] \notin {"removed", "enforced"}
\* Without a process there are no tasks.
NoneLeft == up # "up" => \A t \in Tasks : at[t] = "idle"

-----------------------------------------------------------------------------
(* The service.                                                            *)

\* The listener runs only with the flag; in amain's finally the flag is off
\* and its copy is what the operator wants.
IndFlag ==
    /\ up = "up" /\ listener # "none" => flag
    /\ up = "stopping" => ~flag
    /\ ~torn => wanted = IF up = "stopping" THEN kept ELSE flag

-----------------------------------------------------------------------------
(* The rules.                                                              *)

\* Redirected traffic has a service, and that of the process is left alone.
Served == rules # {} => flag /\ excluded
\* t has no script to wait for, or one whose rules are set.
Set(t) == script[t] = None \/ t \in half
\* What is known at each place of the only request or start-up.
SafeAt(t) ==
    /\ at[t] \in {"ready", "fill", "listed", "applied", "tried", "replace"} => Served
    /\ at[t] \in {"listed", "applied", "tried", "replace"} => flag
    /\ at[t] \in {"replace", "off", "undone"} /\ Set(t) => rules = {}
    /\ at[t] = "look" /\ t # Main => Served
    /\ at[t] = "removed" => /\ t \in half => rules = {}
                            /\ script[t] = None => rules = {} \/ selective_enabled \/ file # None
    /\ at[t] = "enforced" => flag /\ (Set(t) => excluded)
\* As long as nothing has overlapped, there is at most one task.
Alone == \A t, u \in Tasks : at[t] # "idle" /\ at[u] # "idle" => t = u
Sound == Alone /\ (AtRest => Served) /\ \A t \in Tasks : SafeAt(t)
IndRules == up = "up" /\ ~loose => Sound

\* Every step keeps the types.
LEMMA TypeStep ==
    ASSUME TypeOK, [Next]_vars
    PROVE  TypeOK'
<1> USE InterceptionAssumption DEF TypeOK, Tasks, Steps, Scripts, Modes, serviceVars, wishVars,
        kernelVars, callVars, boundVars, Goes, Runs
<1>1. ASSUME NEW c \in Calls, TransparentStart(c) PROVE TypeOK'
  <2>1. /\ flag' \in BOOLEAN /\ kept' \in BOOLEAN /\ wanted' \in BOOLEAN /\ torn' \in BOOLEAN
         /\ loose' \in BOOLEAN /\ excluded' \in BOOLEAN /\ selective_enabled' \in BOOLEAN
    BY <1>1 DEF TransparentStart, Arrives, StartRunner
  <2>2. /\ up' \in {"down", "up", "stopping"} /\ listener' \in {"none", "binding", "listening"}
         /\ resources' \in [Resources -> {"absent", "off", "on"}] /\ resolved' \subseteq Resources
         /\ file' \in Modes \cup {None} /\ rules' \subseteq Modes
         /\ calls' \in 0 .. MaxCalls /\ stops' \in 0 .. MaxStops
    BY <1>1 DEF TransparentStart, Arrives, StartRunner
  <2>3. /\ at' \in [Tasks -> Steps] /\ script' \in [Tasks -> Scripts \cup {None}]
    BY <1>1 DEF TransparentStart, Arrives, StartRunner
  <2>4. half' \subseteq {u \in Tasks : script[u] # None}'
    BY <1>1 DEF TransparentStart, Arrives, StartRunner
  <2>. QED
    BY <2>1, <2>2, <2>3, <2>4
<1>2. ASSUME NEW c \in Calls, TransparentStop(c) PROVE TypeOK'
  <2>1. /\ flag' \in BOOLEAN /\ kept' \in BOOLEAN /\ wanted' \in BOOLEAN /\ torn' \in BOOLEAN
         /\ loose' \in BOOLEAN /\ excluded' \in BOOLEAN /\ selective_enabled' \in BOOLEAN
    BY <1>2 DEF TransparentStop, Arrives, Waits
  <2>2. /\ up' \in {"down", "up", "stopping"} /\ listener' \in {"none", "binding", "listening"}
         /\ resources' \in [Resources -> {"absent", "off", "on"}] /\ resolved' \subseteq Resources
         /\ file' \in Modes \cup {None} /\ rules' \subseteq Modes
         /\ calls' \in 0 .. MaxCalls /\ stops' \in 0 .. MaxStops
    BY <1>2 DEF TransparentStop, Arrives, Waits
  <2>3. /\ at' \in [Tasks -> Steps] /\ script' \in [Tasks -> Scripts \cup {None}]
    BY <1>2 DEF TransparentStop, Arrives, Waits
  <2>4. half' \subseteq {u \in Tasks : script[u] # None}'
    BY <1>2 DEF TransparentStop, Arrives, Waits
  <2>. QED
    BY <2>1, <2>2, <2>3, <2>4
<1>3. ASSUME NEW c \in Calls, InterceptionApply(c) PROVE TypeOK'
  BY <1>3 DEF InterceptionApply, Arrives
<1>4. ASSUME NEW c \in Calls, InterceptionStop(c) PROVE TypeOK'
  BY <1>4 DEF InterceptionStop, Arrives
<1>5. ASSUME NEW c \in Calls, SelectiveApply(c) PROVE TypeOK'
  BY <1>5 DEF SelectiveApply, Arrives
<1>6. ASSUME NEW c \in Calls, Reconcile(c) PROVE TypeOK'
  BY <1>6 DEF Reconcile, Arrives
<1>7. ASSUME NEW c \in Calls, Closed(c) PROVE TypeOK'
  BY <1>7 DEF Closed, Continues
<1>8. ASSUME NEW c \in Calls, SwitchOff(c) PROVE TypeOK'
  BY <1>8 DEF SwitchOff, Continues
<1>9. ASSUME NEW c \in Calls, Apply(c) PROVE TypeOK'
  BY <1>9 DEF Apply, Continues
<1>10. ASSUME NEW c \in Calls, Replace(c) PROVE TypeOK'
  BY <1>10 DEF Replace, Continues
<1>11. ASSUME NEW c \in Calls, Applied(c) PROVE TypeOK'
  BY <1>11 DEF Applied, Continues
<1>12. ASSUME NEW c \in Calls, Fill(c) PROVE TypeOK'
  BY <1>12 DEF Fill, Continues
<1>13. ASSUME NEW c \in Calls, Listed(c) PROVE TypeOK'
  BY <1>13 DEF Listed, Continues
<1>14. ASSUME NEW c \in Calls, Tried(c) PROVE TypeOK'
  <2>1. /\ flag' \in BOOLEAN /\ kept' \in BOOLEAN /\ wanted' \in BOOLEAN /\ torn' \in BOOLEAN
         /\ loose' \in BOOLEAN /\ excluded' \in BOOLEAN /\ selective_enabled' \in BOOLEAN
    BY <1>14 DEF Tried, Continues
  <2>2. /\ up' \in {"down", "up", "stopping"} /\ listener' \in {"none", "binding", "listening"}
         /\ resources' \in [Resources -> {"absent", "off", "on"}] /\ resolved' \subseteq Resources
         /\ file' \in Modes \cup {None} /\ rules' \subseteq Modes
         /\ calls' \in 0 .. MaxCalls /\ stops' \in 0 .. MaxStops
    BY <1>14 DEF Tried, Continues
  <2>3. /\ at' \in [Tasks -> Steps] /\ script' \in [Tasks -> Scripts \cup {None}]
    BY <1>14 DEF Tried, Continues
  <2>4. half' \subseteq {u \in Tasks : script[u] # None}'
    BY <1>14 DEF Tried, Continues
  <2>. QED
    BY <2>1, <2>2, <2>3, <2>4
<1>15. ASSUME NEW t \in Tasks, ScriptRules(t) PROVE TypeOK'
  <2>1. /\ flag' \in BOOLEAN /\ kept' \in BOOLEAN /\ wanted' \in BOOLEAN /\ torn' \in BOOLEAN
         /\ loose' \in BOOLEAN /\ excluded' \in BOOLEAN /\ selective_enabled' \in BOOLEAN
    BY <1>15 DEF ScriptRules, Waits
  <2>2. /\ up' \in {"down", "up", "stopping"} /\ listener' \in {"none", "binding", "listening"}
         /\ resources' \in [Resources -> {"absent", "off", "on"}] /\ resolved' \subseteq Resources
         /\ file' \in Modes \cup {None} /\ rules' \subseteq Modes
         /\ calls' \in 0 .. MaxCalls /\ stops' \in 0 .. MaxStops
    BY <1>15 DEF ScriptRules, Waits
  <2>3. /\ at' \in [Tasks -> Steps] /\ script' \in [Tasks -> Scripts \cup {None}]
    BY <1>15 DEF ScriptRules, Waits
  <2>4. half' \subseteq {u \in Tasks : script[u] # None}'
    BY <1>15 DEF ScriptRules, Waits
  <2>. QED
    BY <2>1, <2>2, <2>3, <2>4
<1>16. ASSUME NEW t \in Tasks, ScriptFile(t) PROVE TypeOK'
  BY <1>16 DEF ScriptFile
<1>17. ASSUME NEW t \in Tasks, ScriptFails(t) PROVE TypeOK'
  BY <1>17 DEF ScriptFails, Waits
<1>18. ASSUME NEW t \in Tasks, Undone(t) PROVE TypeOK'
  BY <1>18 DEF Undone, Continues
<1>19. ASSUME NEW t \in Tasks, Look(t) PROVE TypeOK'
  BY <1>19 DEF Look, Continues
<1>20. CASE Reenforce(Main)
  BY <1>20 DEF Reenforce
<1>21. CASE Enforced(Main)
  BY <1>21 DEF Enforced, Continues
<1>22. CASE Bound
  BY <1>22 DEF Bound, Continues
<1>23. CASE Settings
  <2>1. /\ flag' \in BOOLEAN /\ kept' \in BOOLEAN /\ wanted' \in BOOLEAN /\ torn' \in BOOLEAN
         /\ loose' \in BOOLEAN /\ excluded' \in BOOLEAN /\ selective_enabled' \in BOOLEAN
    <3>1. CASE SelectiveConfig
      <4>1. selective_enabled' \in BOOLEAN /\ loose' = (loose \/ Overlaps)
        BY <3>1 DEF SelectiveConfig
      <4>. QED
        BY <3>1, <4>1 DEF SelectiveConfig, Setting, Overlaps
    <3>2. ASSUME NEW r \in Resources, CreateResource(r) \/ UpdateResource(r) \/ ToggleResource(r)
                                     \/ DeleteResource(r) \/ ResolveResource(r)
          PROVE  UNCHANGED <<flag, kept, wanted, torn, loose, excluded, selective_enabled>>
      BY <3>2 DEF Setting, CreateResource, UpdateResource, ToggleResource, DeleteResource,
         ResolveResource, Becomes
    <3>. QED
      BY <1>23, <3>1, <3>2 DEF Settings
  <2>2. /\ up' \in {"down", "up", "stopping"} /\ listener' \in {"none", "binding", "listening"}
         /\ resources' \in [Resources -> {"absent", "off", "on"}] /\ resolved' \subseteq Resources
         /\ file' \in Modes \cup {None} /\ rules' \subseteq Modes
         /\ calls' \in 0 .. MaxCalls /\ stops' \in 0 .. MaxStops
    BY <1>23 DEF Settings, Setting, SelectiveConfig, CreateResource, UpdateResource, ToggleResource,
       DeleteResource, ResolveResource, Becomes
  <2>3. /\ at' \in [Tasks -> Steps] /\ script' \in [Tasks -> Scripts \cup {None}]
    BY <1>23 DEF Settings, Setting, SelectiveConfig, CreateResource, UpdateResource, ToggleResource,
       DeleteResource, ResolveResource, Becomes
  <2>4. half' \subseteq {u \in Tasks : script[u] # None}'
    BY <1>23 DEF Settings, Setting, SelectiveConfig, CreateResource, UpdateResource, ToggleResource,
       DeleteResource, ResolveResource, Becomes
  <2>. QED
    BY <2>1, <2>2, <2>3, <2>4
<1>24. CASE Boot
  BY <1>24 DEF Boot
<1>25. CASE Terminate
  <2>1. /\ flag' \in BOOLEAN /\ kept' \in BOOLEAN /\ wanted' \in BOOLEAN /\ torn' \in BOOLEAN
         /\ loose' \in BOOLEAN /\ excluded' \in BOOLEAN /\ selective_enabled' \in BOOLEAN
    BY <1>25 DEF Terminate, AllGone, Stops
  <2>2. /\ up' \in {"down", "up", "stopping"} /\ listener' \in {"none", "binding", "listening"}
         /\ resources' \in [Resources -> {"absent", "off", "on"}] /\ resolved' \subseteq Resources
         /\ file' \in Modes \cup {None} /\ rules' \subseteq Modes
         /\ calls' \in 0 .. MaxCalls /\ stops' \in 0 .. MaxStops
    BY <1>25 DEF Terminate, AllGone, Stops
  <2>3. /\ at' \in [Tasks -> Steps] /\ script' \in [Tasks -> Scripts \cup {None}]
    BY <1>25 DEF Terminate, AllGone, Stops
  <2>4. half' \subseteq {u \in Tasks : script[u] # None}'
    BY <1>25 DEF Terminate, AllGone, Stops
  <2>. QED
    BY <2>1, <2>2, <2>3, <2>4
<1>26. CASE Exit
  BY <1>26 DEF Exit
<1>27. CASE Killed
  BY <1>27 DEF Killed, AllGone, Stops
<1>28. CASE PowerCut
  BY <1>28 DEF PowerCut, AllGone, Stops
<1>29. CASE UNCHANGED vars
  BY <1>29 DEF vars
<1>. QED
  BY <1>1, <1>2, <1>3, <1>4, <1>5, <1>6, <1>7, <1>8, <1>9, <1>10, <1>11,
     <1>12, <1>13, <1>14, <1>15, <1>16, <1>17, <1>18, <1>19, <1>20, <1>21,
     <1>22, <1>23, <1>24, <1>25, <1>26, <1>27, <1>28, <1>29 DEF Next,
     Requests, Resumes, SetupScript

\* And the scripts at the places where they are awaited.
LEMMA PlaceStep ==
    ASSUME TypeOK, Awaits, Places, NoneLeft, [Next]_vars
    PROVE  Awaits' /\ Places' /\ NoneLeft'
<1>t. /\ at \in [Tasks -> Steps] /\ script \in [Tasks -> Scripts \cup {None}]
      /\ up \in {"down", "up", "stopping"}
  BY DEF TypeOK
<1> USE <1>t, InterceptionAssumption DEF Awaits, Awaited, Places, NoneLeft, Tasks, Scripts, Modes,
        callVars, Goes, Runs, Back, Waits
<1>1. ASSUME NEW c \in Calls, TransparentStart(c) PROVE Awaits' /\ Places' /\ NoneLeft'
  BY <1>1 DEF TransparentStart, Arrives, StartRunner
<1>2. ASSUME NEW c \in Calls, TransparentStop(c) PROVE Awaits' /\ Places' /\ NoneLeft'
  BY <1>2 DEF TransparentStop, Arrives
<1>3. ASSUME NEW c \in Calls, InterceptionApply(c) PROVE Awaits' /\ Places' /\ NoneLeft'
  BY <1>3 DEF InterceptionApply, Arrives
<1>4. ASSUME NEW c \in Calls, InterceptionStop(c) PROVE Awaits' /\ Places' /\ NoneLeft'
  BY <1>4 DEF InterceptionStop, Arrives
<1>5. ASSUME NEW c \in Calls, SelectiveApply(c) PROVE Awaits' /\ Places' /\ NoneLeft'
  BY <1>5 DEF SelectiveApply, Arrives
<1>6. ASSUME NEW c \in Calls, Reconcile(c) PROVE Awaits' /\ Places' /\ NoneLeft'
  BY <1>6 DEF Reconcile, Arrives
<1>7. ASSUME NEW c \in Calls, Closed(c) PROVE Awaits' /\ Places' /\ NoneLeft'
  BY <1>7 DEF Closed, Continues
<1>8. ASSUME NEW c \in Calls, SwitchOff(c) PROVE Awaits' /\ Places' /\ NoneLeft'
  BY <1>8 DEF SwitchOff, Continues
<1>9. ASSUME NEW c \in Calls, Apply(c) PROVE Awaits' /\ Places' /\ NoneLeft'
  BY <1>9 DEF Apply, Continues
<1>10. ASSUME NEW c \in Calls, Replace(c) PROVE Awaits' /\ Places' /\ NoneLeft'
  BY <1>10 DEF Replace, Continues
<1>11. ASSUME NEW c \in Calls, Applied(c) PROVE Awaits' /\ Places' /\ NoneLeft'
  BY <1>11 DEF Applied, Continues
<1>12. ASSUME NEW c \in Calls, Fill(c) PROVE Awaits' /\ Places' /\ NoneLeft'
  BY <1>12 DEF Fill, Continues
<1>13. ASSUME NEW c \in Calls, Listed(c) PROVE Awaits' /\ Places' /\ NoneLeft'
  BY <1>13 DEF Listed, Continues
<1>14. ASSUME NEW c \in Calls, Tried(c) PROVE Awaits' /\ Places' /\ NoneLeft'
  BY <1>14 DEF Tried, Continues
<1>15. ASSUME NEW t \in Tasks, ScriptRules(t) PROVE Awaits' /\ Places' /\ NoneLeft'
  BY <1>15 DEF ScriptRules
<1>16. ASSUME NEW t \in Tasks, ScriptFile(t) PROVE Awaits' /\ Places' /\ NoneLeft'
  BY <1>16 DEF ScriptFile
<1>17. ASSUME NEW t \in Tasks, ScriptFails(t) PROVE Awaits' /\ Places' /\ NoneLeft'
  BY <1>17 DEF ScriptFails
<1>18. ASSUME NEW t \in Tasks, Undone(t) PROVE Awaits' /\ Places' /\ NoneLeft'
  BY <1>18 DEF Undone, Continues
<1>19. ASSUME NEW t \in Tasks, Look(t) PROVE Awaits' /\ Places' /\ NoneLeft'
  BY <1>19 DEF Look, Continues
<1>20. CASE Reenforce(Main)
  BY <1>20 DEF Reenforce
<1>21. CASE Enforced(Main)
  BY <1>21 DEF Enforced, Continues
<1>22. CASE Bound
  BY <1>22 DEF Bound, Continues
<1>23. CASE Settings
  BY <1>23 DEF Settings, Setting, SelectiveConfig, CreateResource, UpdateResource, ToggleResource,
     DeleteResource, ResolveResource, Becomes
<1>24. CASE Boot
  BY <1>24 DEF Boot
<1>25. CASE Terminate
  BY <1>25 DEF Terminate, AllGone, Stops
<1>26. CASE Exit
  BY <1>26 DEF Exit
<1>27. CASE Killed
  BY <1>27 DEF Killed, AllGone, Stops
<1>28. CASE PowerCut
  BY <1>28 DEF PowerCut, AllGone, Stops
<1>29. CASE UNCHANGED vars
  BY <1>29 DEF vars
<1>. QED
  BY <1>1, <1>2, <1>3, <1>4, <1>5, <1>6, <1>7, <1>8, <1>9, <1>10, <1>11,
     <1>12, <1>13, <1>14, <1>15, <1>16, <1>17, <1>18, <1>19, <1>20, <1>21,
     <1>22, <1>23, <1>24, <1>25, <1>26, <1>27, <1>28, <1>29 DEF Next,
     Requests, Resumes, SetupScript

\* Every step keeps flag, copy and listener together.
LEMMA FlagStep ==
    ASSUME TypeOK, IndFlag, [Next]_vars
    PROVE  IndFlag'
<1>t. /\ flag \in BOOLEAN /\ kept \in BOOLEAN /\ wanted \in BOOLEAN /\ torn \in BOOLEAN
      /\ up \in {"down", "up", "stopping"}
  BY DEF TypeOK
<1> USE <1>t DEF IndFlag, serviceVars
<1>1. ASSUME NEW c \in Calls, TransparentStart(c) PROVE IndFlag'
  BY <1>1 DEF TransparentStart, Arrives, StartRunner
<1>2. ASSUME NEW c \in Calls, TransparentStop(c) PROVE IndFlag'
  BY <1>2 DEF TransparentStop, Arrives
<1>3. ASSUME NEW c \in Calls, InterceptionApply(c) PROVE IndFlag'
  BY <1>3 DEF InterceptionApply, Arrives
<1>4. ASSUME NEW c \in Calls, InterceptionStop(c) PROVE IndFlag'
  BY <1>4 DEF InterceptionStop, Arrives
<1>5. ASSUME NEW c \in Calls, SelectiveApply(c) PROVE IndFlag'
  BY <1>5 DEF SelectiveApply, Arrives
<1>6. ASSUME NEW c \in Calls, Reconcile(c) PROVE IndFlag'
  BY <1>6 DEF Reconcile, Arrives
<1>7. ASSUME NEW c \in Calls, Closed(c) PROVE IndFlag'
  BY <1>7 DEF Closed, Continues
<1>8. ASSUME NEW c \in Calls, SwitchOff(c) PROVE IndFlag'
  BY <1>8 DEF SwitchOff, Continues
<1>9. ASSUME NEW c \in Calls, Apply(c) PROVE IndFlag'
  BY <1>9 DEF Apply, Continues
<1>10. ASSUME NEW c \in Calls, Replace(c) PROVE IndFlag'
  BY <1>10 DEF Replace, Continues
<1>11. ASSUME NEW c \in Calls, Applied(c) PROVE IndFlag'
  BY <1>11 DEF Applied, Continues
<1>12. ASSUME NEW c \in Calls, Fill(c) PROVE IndFlag'
  BY <1>12 DEF Fill, Continues
<1>13. ASSUME NEW c \in Calls, Listed(c) PROVE IndFlag'
  BY <1>13 DEF Listed, Continues
<1>14. ASSUME NEW c \in Calls, Tried(c) PROVE IndFlag'
  BY <1>14 DEF Tried, Continues
<1>15. ASSUME NEW t \in Tasks, ScriptRules(t) PROVE IndFlag'
  BY <1>15 DEF ScriptRules
<1>16. ASSUME NEW t \in Tasks, ScriptFile(t) PROVE IndFlag'
  BY <1>16 DEF ScriptFile
<1>17. ASSUME NEW t \in Tasks, ScriptFails(t) PROVE IndFlag'
  BY <1>17 DEF ScriptFails
<1>18. ASSUME NEW t \in Tasks, Undone(t) PROVE IndFlag'
  BY <1>18 DEF Undone, Continues
<1>19. ASSUME NEW t \in Tasks, Look(t) PROVE IndFlag'
  BY <1>19 DEF Look, Continues
<1>20. CASE Reenforce(Main)
  BY <1>20 DEF Reenforce
<1>21. CASE Enforced(Main)
  BY <1>21 DEF Enforced, Continues
<1>22. CASE Bound
  BY <1>22 DEF Bound, Continues
<1>23. CASE Settings
  BY <1>23 DEF Settings, Setting, SelectiveConfig, CreateResource, UpdateResource, ToggleResource,
     DeleteResource, ResolveResource, Becomes
<1>24. CASE Boot
  BY <1>24 DEF Boot
<1>25. CASE Terminate
  BY <1>25 DEF Terminate, AllGone, Stops
<1>26. CASE Exit
  BY <1>26 DEF Exit
<1>27. CASE Killed
  BY <1>27 DEF Killed, AllGone, Stops
<1>28. CASE PowerCut
  BY <1>28 DEF PowerCut, AllGone, Stops
<1>29. CASE UNCHANGED vars
  BY <1>29 DEF vars
<1>. QED
  BY <1>1, <1>2, <1>3, <1>4, <1>5, <1>6, <1>7, <1>8, <1>9, <1>10, <1>11,
     <1>12, <1>13, <1>14, <1>15, <1>16, <1>17, <1>18, <1>19, <1>20, <1>21,
     <1>22, <1>23, <1>24, <1>25, <1>26, <1>27, <1>28, <1>29 DEF Next,
     Requests, Resumes, SetupScript

\* Every step keeps the rules safe at the place that the task it moves has come to.
LEMMA RulesStep ==
    ASSUME TypeOK, Awaits, Places, NoneLeft, IndRules, [Next]_vars
    PROVE  IndRules'
<1>t. /\ flag \in BOOLEAN /\ excluded \in BOOLEAN /\ selective_enabled \in BOOLEAN
      /\ loose \in BOOLEAN /\ up \in {"down", "up", "stopping"}
      /\ at \in [Tasks -> Steps] /\ script \in [Tasks -> Scripts \cup {None}]
      /\ half \subseteq {t \in Tasks : script[t] # None}
  BY DEF TypeOK
<1>. SUFFICES ASSUME up' = "up", ~loose'
              PROVE  Sound'
  BY DEF IndRules
<1> USE <1>t, InterceptionAssumption DEF IndRules, Sound, Alone, AtRest, Served, Set, SafeAt,
        Awaits, Awaited, Places, NoneLeft, Tasks, Scripts, Modes, Goes, Runs, Back, Waits,
        serviceVars, wishVars, kernelVars, callVars, Overlaps
<1>1. ASSUME NEW c \in Calls, TransparentStart(c) PROVE Sound'
  BY <1>1 DEF TransparentStart, Arrives, StartRunner
<1>2. ASSUME NEW c \in Calls, TransparentStop(c) PROVE Sound'
  <2>1. Alone'
    <3>1. \A u \in Tasks : at[u] = "idle"
      BY <1>2 DEF TransparentStop, Arrives
    <3>2. \E step \in Steps : at' = [at EXCEPT ![c] = step]
      BY <1>2 DEF TransparentStop, Steps
    <3>. QED
      BY <3>1, <3>2
  <2>2. AtRest' => Served'
    BY <1>2 DEF TransparentStop, Arrives
  <2>3. SafeAt(c)'
    BY <1>2 DEF TransparentStop, Arrives
  <2>4. ASSUME NEW u \in Tasks, u # c PROVE SafeAt(u)'
    BY <2>4, <1>2 DEF TransparentStop, Arrives
  <2>. QED
    BY <2>1, <2>2, <2>3, <2>4
<1>3. ASSUME NEW c \in Calls, InterceptionApply(c) PROVE Sound'
  BY <1>3 DEF InterceptionApply, Arrives
<1>4. ASSUME NEW c \in Calls, InterceptionStop(c) PROVE Sound'
  BY <1>4 DEF InterceptionStop, Arrives
<1>5. ASSUME NEW c \in Calls, SelectiveApply(c) PROVE Sound'
  BY <1>5 DEF SelectiveApply, Arrives
<1>6. ASSUME NEW c \in Calls, Reconcile(c) PROVE Sound'
  BY <1>6 DEF Reconcile, Arrives
<1>7. ASSUME NEW c \in Calls, Closed(c) PROVE Sound'
  BY <1>7 DEF Closed, Continues
<1>8. ASSUME NEW c \in Calls, SwitchOff(c) PROVE Sound'
  BY <1>8 DEF SwitchOff, Continues
<1>9. ASSUME NEW c \in Calls, Apply(c) PROVE Sound'
  BY <1>9 DEF Apply, Continues, Ready
<1>10. ASSUME NEW c \in Calls, Replace(c) PROVE Sound'
  BY <1>10 DEF Replace, Continues
<1>11. ASSUME NEW c \in Calls, Applied(c) PROVE Sound'
  BY <1>11 DEF Applied, Continues
<1>12. ASSUME NEW c \in Calls, Fill(c) PROVE Sound'
  BY <1>12 DEF Fill, Continues, Ready
<1>13. ASSUME NEW c \in Calls, Listed(c) PROVE Sound'
  <2>1. Alone'
    BY <1>13 DEF Listed, Continues
  <2>2. AtRest' => Served'
    BY <1>13 DEF Listed, Continues
  <2>3. SafeAt(c)'
    <3>1. CASE HasSpec
      BY <1>13, <3>1 DEF Listed, Continues
    <3>2. CASE ~HasSpec
      BY <1>13, <3>2 DEF Listed, Continues
    <3>. QED
      BY <3>1, <3>2
  <2>4. ASSUME NEW u \in Tasks, u # c PROVE SafeAt(u)'
    BY <2>4, <1>13 DEF Listed, Continues
  <2>. QED
    BY <2>1, <2>2, <2>3, <2>4
<1>14. ASSUME NEW c \in Calls, Tried(c) PROVE Sound'
  BY <1>14 DEF Tried, Continues
<1>15. ASSUME NEW t \in Tasks, ScriptRules(t) PROVE Sound'
  BY <1>15 DEF ScriptRules
<1>16. ASSUME NEW t \in Tasks, ScriptFile(t) PROVE Sound'
  <2>1. Alone'
    BY <1>16 DEF ScriptFile
  <2>2. AtRest' => Served'
    BY <1>16 DEF ScriptFile
  <2>3. SafeAt(t)'
    <3>1. /\ t \in half /\ t \notin half' /\ script' = [script EXCEPT ![t] = None]
          /\ UNCHANGED <<up, flag, excluded, loose, selective_enabled, rules, at>>
      BY <1>16 DEF ScriptFile
    <3>2. SafeAt(t)
      BY <3>1
    <3>3. at[t] = "removed" => rules = {}
      BY <3>1, <3>2
    <3>. QED
      BY <3>1, <3>2, <3>3
  <2>4. ASSUME NEW u \in Tasks, u # t PROVE SafeAt(u)'
    BY <2>4, <1>16 DEF ScriptFile
  <2>. QED
    BY <2>1, <2>2, <2>3, <2>4
<1>17. ASSUME NEW t \in Tasks, ScriptFails(t) PROVE Sound'
  BY <1>17 DEF ScriptFails
<1>18. ASSUME NEW t \in Tasks, Undone(t) PROVE Sound'
  BY <1>18 DEF Undone, Continues
<1>19. ASSUME NEW t \in Tasks, Look(t) PROVE Sound'
  BY <1>19 DEF Look, Continues, Leftover
<1>20. CASE Reenforce(Main)
  <2>1. Alone'
    BY <1>20 DEF Reenforce
  <2>2. AtRest' => Served'
    <3>. SUFFICES ASSUME AtRest' PROVE Served'
      OBVIOUS
    <3>1. at'[Main] = "idle" /\ script[Main] = None /\ at[Main] = "removed"
      BY <1>20 DEF Reenforce
    <3>2. UNCHANGED <<up, flag, rules, excluded, selective_enabled, file>> /\ ~loose
      BY <1>20 DEF Reenforce
    <3>3. rules = {} \/ selective_enabled \/ file # None
      BY <3>1, <3>2
    <3>4. CASE ~flag
      BY <1>20, <3>1, <3>2, <3>4 DEF Reenforce
    <3>5. CASE flag
      <4>1. ~selective_enabled /\ file # "all" /\ file # "selective"
        BY <1>20, <3>1, <3>2, <3>5 DEF Reenforce
      <4>2. file \in Modes \cup {None}
        BY DEF TypeOK
      <4>. QED
        BY <3>2, <3>3, <4>1, <4>2
    <3>. QED
      BY <3>4, <3>5
  <2>3. SafeAt(Main)'
    BY <1>20 DEF Reenforce
  <2>4. ASSUME NEW u \in Tasks, u # Main PROVE SafeAt(u)'
    BY <2>4, <1>20 DEF Reenforce
  <2>. QED
    BY <2>1, <2>2, <2>3, <2>4
<1>21. CASE Enforced(Main)
  BY <1>21 DEF Enforced, Continues
<1>22. CASE Bound
  BY <1>22 DEF Bound, Continues
<1>23. CASE Settings
  BY <1>23 DEF Settings, Setting, SelectiveConfig, CreateResource, UpdateResource, ToggleResource,
     DeleteResource, ResolveResource, Becomes
<1>24. CASE Boot
  BY <1>24 DEF Boot
<1>25. CASE Terminate
  BY <1>25 DEF Terminate, AllGone, Stops
<1>26. CASE Exit
  BY <1>26 DEF Exit
<1>27. CASE Killed
  BY <1>27 DEF Killed, AllGone, Stops
<1>28. CASE PowerCut
  BY <1>28 DEF PowerCut, AllGone, Stops
<1>29. CASE UNCHANGED vars
  BY <1>29 DEF vars
<1>. QED
  BY <1>1, <1>2, <1>3, <1>4, <1>5, <1>6, <1>7, <1>8, <1>9, <1>10, <1>11,
     <1>12, <1>13, <1>14, <1>15, <1>16, <1>17, <1>18, <1>19, <1>20, <1>21,
     <1>22, <1>23, <1>24, <1>25, <1>26, <1>27, <1>28, <1>29 DEF Next,
     Requests, Resumes, SetupScript

\* The first state.
LEMMA InitType ==
    ASSUME Init
    PROVE  TypeOK /\ Awaits /\ Places /\ NoneLeft /\ IndFlag
<1>1. /\ flag = FALSE /\ kept = FALSE /\ excluded = FALSE /\ selective_enabled = FALSE
      /\ wanted = FALSE /\ loose = FALSE /\ torn = FALSE
  BY DEF Init
<1>2. /\ up \in {"down", "up", "stopping"} /\ listener \in {"none", "binding", "listening"}
      /\ resources \in [Resources -> {"absent", "off", "on"}] /\ resolved \subseteq Resources
      /\ file \in Modes \cup {None} /\ rules \subseteq Modes
      /\ calls \in 0 .. MaxCalls /\ stops \in 0 .. MaxStops
  BY InterceptionAssumption DEF Init
<1>3. /\ at \in [Tasks -> Steps] /\ script \in [Tasks -> Scripts \cup {None}]
      /\ half \subseteq {t \in Tasks : script[t] # None}
  BY DEF Init, Steps
<1>4. TypeOK
  BY <1>1, <1>2, <1>3 DEF TypeOK
<1>5. Awaits /\ Places /\ NoneLeft
  BY DEF Init, Awaits, Places, NoneLeft, Tasks
<1>. QED
  BY <1>1, <1>4, <1>5 DEF Init, IndFlag

-----------------------------------------------------------------------------
(* The theorems.                                                           *)

\* The state of the interception is well typed, for any requests, resources and bounds.
THEOREM TypeCorrect == Spec => []TypeOK
<1>1. Init => TypeOK
  BY InitType
<1>2. TypeOK /\ [Next]_vars => TypeOK'
  BY TypeStep
<1>. QED
  BY <1>1, <1>2, PTL DEF Spec

\* The transparent service is restored as the operator left it, unless amain
\* was killed between stopping the server and saving the flags again.
THEOREM ServiceSurvives == Spec => []ServiceKept
<1>1. Init => TypeOK /\ IndFlag
  BY InitType
<1>2. TypeOK /\ IndFlag /\ [Next]_vars => TypeOK' /\ IndFlag'
  BY TypeStep, FlagStep
<1>3. IndFlag => ServiceKept
  BY DEF IndFlag, ServiceKept
<1>. QED
  BY <1>1, <1>2, <1>3, PTL DEF Spec

\* Whatever was stopped where, traffic is never left redirected to nobody or
\* into the process itself, as long as no requests have overlapped since it
\* began.
THEOREM NothingBlackHoled == Spec => []NeverBlackHoled
<1>1. Init => TypeOK /\ Awaits /\ Places /\ NoneLeft /\ IndRules
  BY InitType DEF Init, IndRules
<1>2. TypeOK /\ Awaits /\ Places /\ NoneLeft /\ IndRules /\ [Next]_vars
          => (TypeOK /\ Awaits /\ Places /\ NoneLeft /\ IndRules)'
  BY TypeStep, PlaceStep, RulesStep
<1>3. IndRules => NeverBlackHoled
  BY DEF IndRules, Sound, Served, NeverBlackHoled, AtRest
<1>. QED
  BY <1>1, <1>2, <1>3, PTL DEF Spec
===============================================================================
