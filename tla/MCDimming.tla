------------------------------ MODULE MCDimming ------------------------------
(* Small values for Dimming: powers are multiples of the ramp's length, so  *)
(* that the ramp is exact in whole units.                                   *)
EXTENDS Dimming

MCSurplusesKw == {0, 4}
MCLimitsKw == {0, 8}
MCNoLimits == {0}
MCNoSurplus == {}
MCSteps == {1, 3}
MCStepsWithStall == {2, 5}
=============================================================================
