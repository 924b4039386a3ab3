----------------------------- MODULE MCScheduler -----------------------------
(* Instances of Scheduler for TLC: a proxy check and a health check that    *)
(* exclude each other, with the busy flag and the canary in front of both,  *)
(* and the removal of dead proxies, which needs neither but yields to both. *)
EXTENDS Scheduler, TLC

CONSTANTS s1, s2, s3, e1, e2, e3, e4, i1, i2, i3, i4, i5, i6

\* One schedule of each type.
TwoSids == {s1, s2}
ThreeSids == {s1, s2, s3}
TwoEntries == {e1, e2}
ThreeEntries == {e1, e2, e3}
SpareEntries == {e1, e2, e3, e4}
EntryOwner == [e \in Entries |->
    CASE e = e1 -> s1 [] e = e2 -> s2 [] e = e3 -> IF s3 \in Sids THEN s3 ELSE s1 [] OTHER -> s2]
MutexTypes == {"proxy_check", "health_check"}
AllTypes == {"proxy_check", "health_check", "clear_dead"}
MutexWith == [t \in TaskTypes |->
    CASE t = "proxy_check" -> {"health_check"} [] t = "health_check" -> {"proxy_check"}
      [] OTHER -> {"proxy_check", "health_check"}]
InitialType == [s \in Sids |->
    CASE s = s1 -> "proxy_check" [] s = s2 -> "health_check" [] OTHER -> "clear_dead"]
OneType == [s \in Sids |-> "proxy_check"]
FreeTypes == [t \in TaskTypes |-> {}]
Tasks3 == {i1, i2, i3}
Tasks4 == {i1, i2, i3, i4}
Tasks5 == {i1, i2, i3, i4, i5}
Tasks6 == {i1, i2, i3, i4, i5, i6}
TaskSymmetry == Permutations(TaskIds)

=============================================================================
