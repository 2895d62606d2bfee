----------------------------- MODULE Deployment -----------------------------
(***************************************************************************)
(* A drone's disk under install.sh, the setup_<module>.sh scripts and      *)
(* update.sh: what is staged, rendered, enabled and running, and which     *)
(* profile is on record, when any step can fail and power can be lost      *)
(* between any two of them.                                                *)
(*                                                                         *)
(* A file is represented by the version of the repository it was copied    *)
(* from (0: absent, Empty: truncated), a configuration file by whose       *)
(* values it holds ("none": absent, "empty": truncated).                   *)
(***************************************************************************)
EXTENDS Integers, Sequences, FiniteSets, SequencesExt

CONSTANTS
  Profiles,     \* profile name -> modules its file requests
  MaxVersion,   \* bound: versions of the repository that are checked out
  MaxEvents,    \* bound: scripts started, faults and operator's actions
  NoFile        \* /etc/specter/installed-profile is missing

VARIABLES
  repo,     \* version checked out in SCRIPT_DIR
  disk,     \* module -> [art, lock, env, conf, unit, enabled]
  run,      \* module -> what its service was started from, or Off
  record,   \* content of installed-profile; "" after a torn write
  pc,       \* "idle", "install", "record", "summary" or "update"
  asked,    \* profile given to the latest install.sh, "" before the first
  mods,     \* modules the running script still has to do, in order
  steps,    \* steps left of Head(mods), or of update.sh's restarts
  result,   \* RESULT of install.sh
  status,   \* exit status of the latest script, -1 if it never ended
  events    \* events so far, see MaxEvents

vars == <<repo, disk, run, record, pc, asked, mods, steps, result, status, events>>

CANONICAL_MODULES == <<"wifi", "mavlink", "camera", "cellular", "telemetry">>

Modules == ToSet(CANONICAL_MODULES)

\* Modules with a unit of their own (MODULE_SERVICE is empty for cellular).
Services == Modules \ {"cellular"}

ASSUME ProfilesAssumption ==
  /\ Profiles \in [DOMAIN Profiles -> (SUBSET Modules) \ {{}}]
  /\ "full" \in DOMAIN Profiles /\ "" \notin DOMAIN Profiles
  /\ NoFile \notin DOMAIN Profiles \cup {""}
  /\ MaxVersion \in Nat \ {0}
  /\ MaxEvents \in Nat

Off == [art |-> 0, conf |-> "none"]

Empty == -1

\* The scripts ask module by module whether it is theirs.
If(asksFor, m) == IF asksFor THEN <<m>> ELSE << >>

\* SELECTED: the requested modules in canonical order.
Selected(p) ==
  LET Wanted(m) == If(m \in Profiles[p], m)
  IN  Wanted("wifi") \o Wanted("mavlink") \o Wanted("camera")
        \o Wanted("cellular") \o Wanted("telemetry")

-----------------------------------------------------------------------------
(***************************************************************************)
(* The steps of the scripts.  "deps" installs packages or builds, "stage"  *)
(* copies the runtime script or binary, "lock" the pyproject.toml and      *)
(* uv.lock that the next "deps" installs from, "env" copies the template   *)
(* over /etc/specter/<module>.env, "config" renders a file from it.        *)
(***************************************************************************)
StepNames == {"deps", "lock", "stage", "env", "config", "unit", "enable", "start"}

SetupWifi      == <<"deps", "stage", "env", "config", "unit", "enable", "start">>
SetupMavlink   == <<"stage", "env", "config", "unit", "enable", "start">>
SetupCamera    == <<"deps", "stage", "env", "unit", "enable", "start">>
SetupCellular  == <<"deps", "env", "config">>
SetupTelemetry == <<"deps", "lock", "stage", "deps", "env", "unit", "enable", "start">>

SetupSteps ==
  [wifi |-> SetupWifi, mavlink |-> SetupMavlink, camera |-> SetupCamera,
   cellular |-> SetupCellular, telemetry |-> SetupTelemetry]

\* Of telemetry only the sender is copied: the lock file, and with it what a
\* later uv sync installs, stays that of the last installation.
UpdateSteps ==
  [wifi      |-> <<"stage", "unit">>,
   mavlink   |-> <<"stage", "unit", "config">>,
   camera    |-> <<"stage", "unit">>,
   telemetry |-> <<"stage", "unit", "deps">>]

\* has_module: a torn or unknown profile has no file and so no modules.
HasModule(p, m) == p \in DOMAIN Profiles /\ m \in Profiles[p]

\* What a service that starts now runs: hostapd and mavlink-routerd read the
\* rendered file, the camera relay, the sender and wifi-start.sh their
\* environment file.  The sender refuses the template's empty key and does not
\* start when the unit it Requires= cannot be executed.
Started(d, m) ==
  LET conf == IF m \in {"wifi", "mavlink"} THEN d[m].conf ELSE d[m].env
      read == {conf} \cup IF m = "wifi" THEN {d[m].env} ELSE {}
      execs == {m} \cup IF m = "telemetry" THEN {"mavlink"} ELSE {}
  IN  IF \/ \E s \in execs : d[s].art <= 0 \/ d[s].unit <= 0
         \/ read \cap {"none", "empty"} # {}
         \/ m = "telemetry" /\ conf = "template"
      THEN Off
      ELSE [art |-> d[m].art, conf |-> conf]

\* Services once m is restarted.  Requires= in telemetry-sender.service takes the
\* sender along with the router, and starts the router with the sender.
Restarted(d, r, m) ==
  [s \in Services |->
     IF \/ s = m
        \/ m = "mavlink" /\ s = "telemetry" /\ r[s] # Off
        \/ m = "telemetry" /\ s = "mavlink" /\ r[s] = Off
     THEN Started(d, s) ELSE r[s]]

\* The nmcli guard keeps a connection that exists; the others render anew.
Rendered(d, m) == IF m = "cellular" /\ d[m].conf # "none" THEN d[m].conf ELSE d[m].env

Write(d, m, step) ==
  CASE step = "stage"  -> [d EXCEPT ![m].art = repo]
    [] step = "lock"   -> [d EXCEPT ![m].lock = repo]
    [] step = "env"    -> [d EXCEPT ![m].env = "template"]
    [] step = "config" -> [d EXCEPT ![m].conf = Rendered(d, m)]
    [] step = "unit"   -> [d EXCEPT ![m].unit = repo]
    [] step = "enable" -> [d EXCEPT ![m].enabled = TRUE]
    [] OTHER           -> d

\* cp, install and tee truncate the file they are about to write.
Torn(d, m, step) ==
  CASE step = "stage" -> [d EXCEPT ![m].art = Empty]
    [] step = "lock"  -> [d EXCEPT ![m].lock = Empty]
    [] step = "env"   -> [d EXCEPT ![m].env = "empty"]
    [] step = "config" /\ m # "cellular" -> [d EXCEPT ![m].conf = "empty"]
    [] step = "unit"  -> [d EXCEPT ![m].unit = Empty]
    [] OTHER          -> d

-----------------------------------------------------------------------------
Init ==
  /\ repo = 1
  /\ disk = [m \in Modules |-> [art |-> 0, lock |-> 0, env |-> "none", conf |-> "none",
                                unit |-> 0, enabled |-> FALSE]]
  /\ run = [m \in Services |-> Off]
  /\ record = NoFile
  /\ pc = "idle"
  /\ asked = ""
  /\ mods = << >>
  /\ steps = << >>
  /\ result = [m \in Modules |-> "none"]
  /\ status = -1
  /\ events = 0

\* What happens to the program rather than in it.
Event == events < MaxEvents /\ events' = events + 1

\* The script goes on with the modules of rest, or leaves the module loop.
Proceed(rest, after) ==
  /\ mods' = rest
  /\ IF rest = << >> THEN steps' = << >> /\ pc' = after
                     ELSE steps' = SetupSteps[Head(rest)] /\ pc' = pc

\* install.sh --profile p, past its checks of the arguments and the profile.
InstallStart(p) ==
  /\ Event
  /\ pc = "idle"
  /\ pc' = "install"
  /\ asked' = p
  /\ mods' = Selected(p)
  /\ steps' = SetupSteps[Head(Selected(p))]
  /\ result' = [m \in Modules |-> "none"]
  /\ status' = -1
  /\ UNCHANGED <<repo, disk, run, record>>

\* systemctl start does nothing to a service that runs already.
SetupStep ==
  /\ pc = "install"
  /\ LET m == Head(mods) IN
       /\ disk' = Write(disk, m, Head(steps))
       /\ run' = IF Head(steps) = "start" /\ run[m] = Off
                 THEN Restarted(disk, run, m) ELSE run
       /\ IF Len(steps) > 1
          THEN steps' = Tail(steps) /\ UNCHANGED <<mods, result, pc>>
          ELSE result' = [result EXCEPT ![m] = "OK"] /\ Proceed(Tail(mods), "record")
  /\ UNCHANGED <<repo, record, asked, status, events>>

\* Fault: a setup script without set -e carries on past the failure.
SetupStepFailsSilently ==
  /\ Event
  /\ pc = "install"
  /\ Head(steps) # "start"
  /\ LET m == Head(mods) IN
       IF Len(steps) > 1
       THEN steps' = Tail(steps) /\ UNCHANGED <<mods, result, pc>>
       ELSE result' = [result EXCEPT ![m] = "OK"] /\ Proceed(Tail(mods), "record")
  /\ UNCHANGED <<repo, disk, run, record, asked, status>>

\* set -e ends the module's script; the orchestrator goes on with the next.
\* The file being written is as it was, or truncated already.
SetupStepFails ==
  /\ Event
  /\ pc = "install"
  /\ Head(steps) # "start"
  /\ disk' \in {disk, Torn(disk, Head(mods), Head(steps))}
  /\ result' = [result EXCEPT ![Head(mods)] = "FAILED"]
  /\ Proceed(Tail(mods), "record")
  /\ UNCHANGED <<repo, run, record, asked, status>>

\* envsubst fails, or its template cannot be read.  The setup scripts set -e but
\* not pipefail, so the status of the pipe is that of tee, which has written an
\* empty file: the script goes on.
RenderFails ==
  /\ Event
  /\ pc = "install"
  /\ Head(steps) = "config" /\ Head(mods) \in {"wifi", "mavlink"}
  /\ disk' = Torn(disk, Head(mods), "config")
  /\ steps' = Tail(steps)
  /\ UNCHANGED <<repo, run, record, pc, asked, mods, result, status>>

RecordProfile ==
  /\ pc = "record"
  /\ record' = asked
  /\ pc' = "summary"
  /\ UNCHANGED <<repo, disk, run, asked, mods, steps, result, status, events>>

\* Fault: the exit status is the number of failures.
InstallEndsCounting ==
  /\ pc = "summary"
  /\ status' = Cardinality({m \in Modules : result[m] = "FAILED"})
  /\ pc' = "idle"
  /\ UNCHANGED <<repo, disk, run, record, asked, mods, steps, result, events>>

InstallEnds ==
  /\ pc = "summary"
  /\ status' = IF \E m \in Modules : result[m] = "FAILED" THEN 1 ELSE 0
  /\ pc' = "idle"
  /\ UNCHANGED <<repo, disk, run, record, asked, mods, steps, result, events>>

-----------------------------------------------------------------------------
\* PROFILE in update.sh: a drone without a record counts as full.
UpdateProfile == IF record = NoFile THEN "full" ELSE record

\* A block of update.sh behind has_module.
OnRecord(m) == If(HasModule(UpdateProfile, m), m)

\* Fault: every module is updated, as before profiles.
UpdateOrderOfEverything == <<"wifi", "mavlink", "camera", "telemetry">>

\* The modules update.sh copies for, in its order; cellular has no block.
UpdateOrder == OnRecord("wifi") \o OnRecord("mavlink") \o OnRecord("camera") \o OnRecord("telemetry")

\* Fault: the sender is not restarted.
RestartOrderWithoutSender == OnRecord("camera") \o OnRecord("mavlink")

\* The services it restarts afterwards, in its order.
RestartOrder == OnRecord("camera") \o OnRecord("telemetry") \o OnRecord("mavlink")

UpdateStart ==
  /\ Event
  /\ pc = "idle"
  /\ pc' = "update"
  /\ mods' = UpdateOrder
  /\ steps' = IF UpdateOrder = << >> THEN RestartOrder ELSE UpdateSteps[Head(UpdateOrder)]
  /\ status' = -1
  /\ UNCHANGED <<repo, disk, run, record, asked, result>>

\* cp needs the directories the setup scripts made, source the environment file.
UpdateStepPossible(m, step) ==
  /\ step = "stage" => \/ m = "mavlink"
                       \/ m \in {"wifi", "camera"} /\ ~(disk["wifi"].art = 0 /\ disk["camera"].art = 0)
                       \/ m = "telemetry" /\ ~(disk[m].art = 0 /\ disk[m].lock = 0)
  /\ step = "config" => disk[m].env # "none"

UpdateStep ==
  /\ pc = "update"
  /\ mods # << >>
  /\ UpdateStepPossible(Head(mods), Head(steps))
  /\ disk' = Write(disk, Head(mods), Head(steps))
  /\ IF Len(steps) > 1
     THEN steps' = Tail(steps) /\ UNCHANGED mods
     ELSE /\ mods' = Tail(mods)
          /\ steps' = IF Tail(mods) = << >> THEN RestartOrder ELSE UpdateSteps[Head(Tail(mods))]
  /\ UNCHANGED <<repo, run, record, pc, asked, result, status, events>>

\* set -euo pipefail: the first failure ends the update, nothing is restarted.
\* A step that got as far as cp or tee may have truncated its file: tee has, when
\* it was envsubst that failed.
UpdateStepFails ==
  /\ Event
  /\ pc = "update"
  /\ mods # << >>
  /\ \/ UNCHANGED disk
     \/ /\ UpdateStepPossible(Head(mods), Head(steps))
        /\ disk' = Torn(disk, Head(mods), Head(steps))
  /\ pc' = "idle"
  /\ mods' = << >>
  /\ steps' = << >>
  /\ status' = 1
  /\ UNCHANGED <<repo, run, record, asked, result>>

\* systemctl restart || true
UpdateRestart ==
  /\ pc = "update"
  /\ mods = << >>
  /\ steps # << >>
  /\ run' = Restarted(disk, run, Head(steps))
  /\ steps' = Tail(steps)
  /\ UNCHANGED <<repo, disk, record, pc, asked, mods, result, status, events>>

UpdateEnds ==
  /\ pc = "update"
  /\ mods = << >>
  /\ steps = << >>
  /\ pc' = "idle"
  /\ status' = 0
  /\ UNCHANGED <<repo, disk, run, record, asked, mods, steps, result, events>>

-----------------------------------------------------------------------------
(***************************************************************************)
(* The rest of the world.                                                  *)
(***************************************************************************)
\* Power is lost and comes back: the file being written may be left empty, and
\* systemd starts what is enabled.
PowerLoss ==
  /\ Event
  /\ \/ UNCHANGED disk
     \/ mods # << >> /\ disk' = Torn(disk, Head(mods), Head(steps))
  /\ pc' = "idle"
  /\ mods' = << >>
  /\ steps' = << >>
  /\ status' = IF pc = "idle" THEN status ELSE -1
  /\ record' \in IF pc = "record" THEN {record, ""} ELSE {record}
  /\ run' = [m \in Services |->
               IF disk[m].enabled \/ (m = "mavlink" /\ disk["telemetry"].enabled)
               THEN Started(disk', m) ELSE Off]
  /\ UNCHANGED <<repo, asked, result>>

\* The operator edits an environment file.
EditEnv(m) ==
  /\ Event
  /\ pc = "idle"
  /\ disk[m].env \in {"template", "empty"}
  /\ disk' = [disk EXCEPT ![m].env = "edited"]
  /\ UNCHANGED <<repo, run, record, pc, asked, mods, steps, result, status>>

\* A service crashes and Restart=always brings it back, from what is on the disk
\* by then; or the operator starts it.
RestartService(m) ==
  /\ Event
  /\ run[m] # Off \/ pc = "idle"
  /\ run' = Restarted(disk, run, m)
  /\ UNCHANGED <<repo, disk, record, pc, asked, mods, steps, result, status>>

\* git pull in SCRIPT_DIR.
Pull ==
  /\ Event
  /\ pc = "idle"
  /\ repo < MaxVersion
  /\ repo' = repo + 1
  /\ UNCHANGED <<disk, run, record, pc, asked, mods, steps, result, status>>

Next ==
  \/ \E p \in DOMAIN Profiles : InstallStart(p)
  \/ SetupStep \/ SetupStepFails \/ RenderFails \/ RecordProfile \/ InstallEnds
  \/ UpdateStart \/ UpdateStep \/ UpdateStepFails \/ UpdateRestart \/ UpdateEnds
  \/ PowerLoss \/ Pull
  \/ \E m \in Modules : EditEnv(m)
  \/ \E m \in Services : RestartService(m)

Spec == Init /\ [][Next]_vars

-----------------------------------------------------------------------------
EnvValues == {"none", "empty", "template", "edited"}

TypeOK ==
  /\ repo \in 1..MaxVersion
  /\ disk \in [Modules -> [art : Empty..MaxVersion, lock : Empty..MaxVersion,
                           env : EnvValues, conf : EnvValues, unit : Empty..MaxVersion, enabled : BOOLEAN]]
  /\ run \in [Services -> [art : 0..MaxVersion, conf : EnvValues]]
  /\ record \in DOMAIN Profiles \cup {NoFile, ""}
  /\ pc \in {"idle", "install", "record", "summary", "update"}
  /\ asked \in DOMAIN Profiles \cup {""}
  /\ mods \in Seq(Modules)
  /\ steps \in Seq(StepNames \cup Services)
  /\ result \in [Modules -> {"none", "OK", "FAILED"}]
  /\ status \in {-1, 0, 1}
  /\ events \in 0..MaxEvents

\* The summary is honest and no failure hides another module: when install.sh
\* prints it, every selected module has a verdict, and one marked OK is staged
\* and enabled from the version checked out, its dependencies and environment
\* file included, whatever failed or was left over before (install.sh 81-108,
\* set -e in setup_*.sh).  A rendered file is never a stale one, but OK does not
\* promise more: without pipefail it may be empty (setup_mavlink.sh 24-25,
\* setup_wifi.sh 34).
HonestSummary ==
  pc = "summary" =>
    \A m \in Profiles[asked] :
      /\ result[m] # "none"
      /\ result[m] = "OK" =>
           /\ disk[m].env = "template"
           /\ m \in Services => disk[m].art = repo /\ disk[m].unit = repo /\ disk[m].enabled
           /\ m = "telemetry" => disk[m].lock = repo
           /\ m \in {"wifi", "mavlink"} => disk[m].conf \in {disk[m].env, "empty"}

\* update.sh changes and restarts nothing of a camera or a modem that is not in
\* the profile on record, even if an earlier profile left it behind.
UpdateWithinProfile ==
  [][pc = "update" /\ pc' = "update" /\ steps' # steps /\ record # NoFile =>
       \A m \in {"camera", "cellular"} :
         \/ HasModule(record, m)
         \/ disk'[m] = disk[m] /\ (m \in Services => run'[m] = run[m])]_vars

\* An update that ends well leaves no module of the profile behind: the scripts,
\* binaries and units that update.sh copies are the checked-out version's,
\* mavlink-router's configuration agrees with its environment file, and what was
\* restarted runs from them.  (The sender's lock file is not among them.)
UpdateComplete ==
  pc = "update" /\ mods = << >> /\ steps = << >> =>
    \A m \in Services : HasModule(UpdateProfile, m) =>
      /\ disk[m].art = repo /\ disk[m].unit = repo
      /\ m = "mavlink" => disk[m].conf = disk[m].env
      /\ m # "wifi" => run[m] = Started(disk, m)
=============================================================================
