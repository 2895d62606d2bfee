------------------------------ MODULE MCCamera ------------------------------
(***************************************************************************)
(* CameraRelay with the unit's and the script's own times, in seconds.     *)
(***************************************************************************)
EXTENDS CameraRelay

UnitRestartSec == 5
LoopSleep == 5
=============================================================================
