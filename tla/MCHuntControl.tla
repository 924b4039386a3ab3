---------------------------- MODULE MCHuntControl ----------------------------
(* Instances of HuntControl for TLC.                                        *)
EXTENDS HuntControl

CONSTANTS h1, h2, st1, st2, r1, c1

TwoHunts == {h1, h2}
OneStarter == {st1}
TwoStarters == {st1, st2}
OneRecheck == {r1}
OneScheduled == {c1}
=============================================================================
