---------------------------- MODULE MCValidation ----------------------------
(* Instances of Validation for TLC.                                         *)
EXTENDS Validation

CONSTANTS h1, h2, st1, r1, c1, k1, a1, a2, a3

OneHunt == {h1}
TwoHunts == {h1, h2}
OneStarter == {st1}
OneRecheck == {r1}
OneScheduled == {c1}
OneCheck == {k1}
Nobody == {}
TwoProxies == {a1, a2}
ThreeProxies == {a1, a2, a3}
OneListed == {a1}
=============================================================================
