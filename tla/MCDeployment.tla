---------------------------- MODULE MCDeployment ----------------------------
(***************************************************************************)
(* The profiles of profiles/*.conf.                                        *)
(***************************************************************************)
EXTENDS Deployment

ShippedProfiles ==
  [full  |-> Modules,
   scout |-> {"wifi", "mavlink", "telemetry"},
   bench |-> {"wifi", "mavlink"}]

\* full and scout differ in everything that matters to update.sh.
TwoProfiles == [p \in {"full", "scout"} |-> ShippedProfiles[p]]
=============================================================================
