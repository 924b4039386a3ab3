------------------------------ MODULE TaskSlots ------------------------------
(***************************************************************************)
(* What the scheduler promises about task types (the guarantees TASK_TYPES *)
(* and SchedulerEngine give in hunt/scheduler.py): a type runs at most one *)
(* task, and starts only while none of the types it excludes is running.   *)
(* Tasks end one by one, or many at once when they are all cancelled.      *)
(***************************************************************************)
CONSTANTS TaskTypes, mutex_with

VARIABLE running        \* the types that have a task

Start(t) ==
    /\ t \notin running
    /\ mutex_with[t] \cap running = {}
    /\ running' = running \cup {t}

End(ended) == ended # {} /\ running' = running \ ended

Init == running = {}
Next == \/ \E t \in TaskTypes : Start(t)
        \/ \E ended \in SUBSET running : End(ended)
Spec == Init /\ [][Next]_running
=============================================================================
