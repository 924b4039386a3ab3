------------------------------ MODULE MCUpstream ------------------------------
(* Instances of Upstream for TLC.                                            *)
EXTENDS Upstream

CONSTANTS a1, a2, c1, l1, l2

Site == <<"site">>
WwwSite == <<"www", "site">>
Whole == [name |-> Site, form |-> "suffix"]
Only == [name |-> Site, form |-> "exact"]
Custom1 == [kind |-> "custom", to |-> c1]
Proxy1 == [kind |-> "proxy", to |-> a1]
Unknown == [kind |-> "unknown", to |-> None]
Selected == [kind |-> "selected", to |-> None]
Listed(rt, ps) == [pri |-> 0, row |-> 0, route |-> rt, enabled |-> TRUE, patterns |-> ps]

HostsMC == {WwwSite}
PatternsMC == {{Whole}, {Only}}
RoutesMC == {Pool, Custom1}
PoliciesMC == {[mode |-> "off", codes |-> {}], [mode |-> "exclude", codes |-> {"aa"}]}
CodeMC == [a \in Addrs |-> IF a = a1 THEN "aa" ELSE "bb"]
Settings(on, ch) ==
    [enabled |-> on, default |-> Direct, fallback |-> FALSE, channel |-> ch,
     policy |-> [mode |-> "off", codes |-> {}]]
ConfigsMC == {Settings(TRUE, NoRoute), Settings(FALSE, Proxy1)}
InitListsMC == {[l \in Lists |-> IF l = l1 THEN Listed(Selected, {Whole}) ELSE None]}
Fresh == [status |-> "ok", fails |-> 0, black |-> FALSE]
InitRatingsMC == {[a \in Addrs |-> Fresh]}
===============================================================================
