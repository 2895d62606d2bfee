--------------------------- MODULE MCApPowerSave ---------------------------
(***************************************************************************)
(* ApPowerSave with three data frames and two management frames.           *)
(***************************************************************************)
EXTENDS ApPowerSave
============================================================================
