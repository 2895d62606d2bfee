---------------------------- MODULE MCCmdThread ----------------------------
(***************************************************************************)
(* CmdThread with two callers and three command objects: a caller can give *)
(* up on one and issue the next while the first is still queued.           *)
(***************************************************************************)
EXTENDS CmdThread
============================================================================
