--------------------------- MODULE MCInstallArgs ---------------------------
(***************************************************************************)
(* Command lines over every option and three names; profiles out of order, *)
(* with a repeated module, with a typo, and without any module.            *)
(***************************************************************************)
EXTENDS InstallArgs

AllWords ==
  {[opt |-> o, val |-> o] : o \in {"--profile", "--dry-run", "--help"}}
    \cup {[opt |-> o, val |-> v] : o \in {"word", "--profile="},
                                   v \in {"reversed", "typo", "empty", "nope"}}

Files ==
  [reversed |-> <<"telemetry", "", "mavlink", "wifi", "mavlink">>,
   typo     |-> <<"wifi", "camra">>,
   empty    |-> <<"">>]

AllModules == <<"wifi", "mavlink", "camera", "cellular", "telemetry">>
=============================================================================
