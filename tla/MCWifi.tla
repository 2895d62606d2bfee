------------------------------- MODULE MCWifi -------------------------------
(***************************************************************************)
(* WifiStart with the script's own number of attempts.                     *)
(***************************************************************************)
EXTENDS WifiStart

\* seq 1 30
Attempts == 30
=============================================================================
