----------------------------- MODULE MCRcInput -----------------------------
(* Instances of RcInput for TLC.  The clock unit is 50 ms. *)
EXTENDS RcInput

DropKill == [procedure |-> "DROP_IT", switchMode |-> "KILL"]
DropStage1 == [procedure |-> "DROP_IT", switchMode |-> "STAGE1"]
LandStage2 == [procedure |-> "AUTO_LANDING", switchMode |-> "STAGE2"]
RescueStage1 == [procedure |-> "GPS_RESCUE", switchMode |-> "STAGE1"]

Settings == {DropKill, DropStage1, LandStage2, RescueStage1}
LandOnSwitch == {LandStage2}
=============================================================================
