---------------------------- MODULE MCTelemetry ----------------------------
(***************************************************************************)
(* Instances of TelemetrySender for TLC.  System 1 is the drone, 255 the   *)
(* ground station; small integers stand for coordinates in 1e-7 degrees.   *)
(***************************************************************************)
EXTENDS TelemetrySender

Heartbeat(sys, vehicle, armed, mode) ==
  [type |-> "HEARTBEAT", sys |-> sys, vehicle |-> vehicle, armed |-> armed, mode |-> mode]

Position(sys, lat, lon, hdg) ==
  [type |-> "GLOBAL_POSITION_INT", sys |-> sys, lat |-> lat, lon |-> lon,
   relative_alt |-> 0, hdg |-> hdg]

SysStatus(battery, voltage) ==
  [type |-> "SYS_STATUS", sys |-> 1, battery_remaining |-> battery,
   voltage_battery |-> voltage]

ModeNames == {"UNKNOWN", "AUTO", "Mode(0)"}

FCHeartbeat  == Heartbeat(1, TRUE, TRUE, "AUTO")
GCSHeartbeat == Heartbeat(255, FALSE, FALSE, "Mode(0)")
Companion    == Heartbeat(1, FALSE, FALSE, "Mode(0)")
FCPosition   == Position(1, 18, 33, 100)

(***************************************************************************)
(* Data: fixes, no fix yet, a coordinate that rounds to zero or sits on a  *)
(* tie, a foreign system's position, sentinels and every message kind, and *)
(* a companion computer that shares the flight controller's system id.     *)
(***************************************************************************)
DataMessages ==
  {FCHeartbeat, GCSHeartbeat, Companion, FCPosition,
   Position(1, -62, 85, 100), Position(1, 0, 0, 100), Position(1, 4, 33, 100),
   Position(255, 41, 42, 0),
   SysStatus(50, 12600), SysStatus(-1, 65535),
   [type |-> "VFR_HUD", sys |-> 1, groundspeed |-> 5],
   [type |-> "GPS_RAW_INT", sys |-> 1, fix_type |-> 3, satellites_visible |-> 9],
   [type |-> "ATTITUDE", sys |-> 1]}

DataBatches ==
  {<< >>, <<FCHeartbeat, FCPosition>>} \cup {<<m>> : m \in DataMessages}

(***************************************************************************)
(* Time: the flight controller is silent, or sends a heartbeat and a fix.  *)
(***************************************************************************)
TimeMessages == {FCHeartbeat, FCPosition}

TimeBatches == {<< >>, <<FCHeartbeat, FCPosition>>}
============================================================================
