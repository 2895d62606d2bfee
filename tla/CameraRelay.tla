---------------------------- MODULE CameraRelay -----------------------------
(***************************************************************************)
(* camera-relay.sh under camera-relay.service.  With CLOUD_STREAM the      *)
(* script keeps two GStreamer pipelines: the ground station's, which it    *)
(* waits for, and the cloud's, which a background loop restarts.  In the   *)
(* other modes the script becomes its only pipeline (exec).  Time is in    *)
(* seconds; the script's own steps take none.                              *)
(***************************************************************************)
EXTENDS Integers

CONSTANTS
  RESTART_SEC,    \* RestartSec of camera-relay.service
  RETRY_SEC,      \* the loop's sleep
  MaxPipelines    \* bound on counting pipelines, above what may exist

VARIABLES
  mode,    \* what camera-relay.env asks for, "missing" without the file
  pc,      \* "down", "spawn", "wait", "exit" or "exec"
  gcs,     \* the ground station's pipeline: "none", "up" or "ended"
  loop,    \* the background loop: "none", "run" or "sleep"
  cloud,   \* cloud pipelines alive
  down,    \* seconds since the unit went down
  slept,   \* seconds the loop has slept
  dark     \* history: seconds without the ground station's video, while it
           \* could have been there

vars == <<mode, pc, gcs, loop, cloud, down, slept, dark>>

Modes == {"cloud", "direct", "encode", "missing"}

ASSUME CameraAssumption ==
  /\ RESTART_SEC \in Nat
  /\ RETRY_SEC \in Nat
  /\ MaxPipelines \in Nat \ {0}

Init ==
  /\ mode \in Modes
  /\ pc = "down"
  /\ gcs = "none"
  /\ loop = "none"
  /\ cloud = 0
  /\ down = RESTART_SEC
  /\ slept = 0
  /\ dark = 0

\* Fault: KillMode=process, only the script itself is stopped.
ExitLeavingChildren ==
  /\ pc' = "down"
  /\ gcs' = "none"
  /\ loop' = "none"
  /\ down' = 0
  /\ slept' = 0
  /\ UNCHANGED cloud

\* The main process has gone: systemd kills the rest of the control group.
Exit ==
  /\ pc' = "down"
  /\ gcs' = "none"
  /\ loop' = "none"
  /\ cloud' = 0
  /\ down' = 0
  /\ slept' = 0

\* Restart=always, RestartSec: the script begins and reads its environment.
Begin == pc = "down" /\ down >= RESTART_SEC

StartFails ==
  /\ Begin
  /\ mode = "missing"
  /\ Exit
  /\ UNCHANGED <<mode, dark>>

StartGcs ==
  /\ Begin
  /\ mode # "missing"
  /\ pc' = IF mode = "cloud" THEN "spawn" ELSE "exec"
  /\ gcs' = "up"
  /\ dark' = 0
  /\ UNCHANGED <<mode, loop, cloud, down, slept>>

StartLoop ==
  /\ pc = "spawn"
  /\ pc' = "wait"
  /\ loop' = "run"
  /\ cloud' = cloud + 1
  /\ UNCHANGED <<mode, gcs, down, slept, dark>>

\* Fault: no loop around the cloud pipeline.
CloudEndsForGood ==
  /\ cloud > 0
  /\ cloud' = cloud - 1
  /\ loop' = "none"
  /\ UNCHANGED <<mode, pc, gcs, down, slept, dark>>

\* The cloud pipeline ends; its loop, if still there, goes to sleep.
CloudEnds ==
  /\ cloud > 0
  /\ cloud' = cloud - 1
  /\ loop' = IF loop = "run" THEN "sleep" ELSE loop
  /\ UNCHANGED <<mode, pc, gcs, down, slept, dark>>

SleepOver == loop = "sleep" /\ slept >= RETRY_SEC

LoopRetries ==
  /\ SleepOver
  /\ cloud < MaxPipelines
  /\ loop' = "run"
  /\ cloud' = cloud + 1
  /\ slept' = 0
  /\ UNCHANGED <<mode, pc, gcs, down, dark>>

GcsEnds ==
  /\ gcs = "up"
  /\ \/ pc = "exec" /\ Exit
     \/ pc # "exec" /\ gcs' = "ended" /\ UNCHANGED <<pc, loop, cloud, down, slept>>
  /\ UNCHANGED <<mode, dark>>

\* Fault: wait -n, either pipeline's end counts.
WaitOverOnEither == pc = "wait" /\ (gcs = "ended" \/ loop = "sleep")

\* Fault: wait without a process id, for the endless loop as well.
WaitOverOnBoth == pc = "wait" /\ gcs = "ended" /\ loop = "none"

\* wait "$GCS_PID"
WaitOver == pc = "wait" /\ gcs = "ended"

\* kill "$CLOUD_PID" reaches the loop, not its pipeline.
WaitReturns ==
  /\ WaitOver
  /\ pc' = "exit"
  /\ loop' = "none"
  /\ UNCHANGED <<mode, gcs, cloud, down, slept, dark>>

ScriptExits ==
  /\ pc = "exit"
  /\ Exit
  /\ UNCHANGED <<mode, dark>>

Script == StartFails \/ StartGcs \/ StartLoop \/ WaitReturns \/ ScriptExits \/ LoopRetries

\* A second passes, when the script has nothing to do.
Tick ==
  /\ ~(Begin \/ pc \in {"spawn", "exit"} \/ WaitOver \/ SleepOver)
  /\ down' = IF pc = "down" THEN down + 1 ELSE down
  /\ slept' = IF loop = "sleep" THEN slept + 1 ELSE slept
  /\ dark' = IF gcs = "up" \/ mode = "missing" \/ dark > RESTART_SEC THEN dark ELSE dark + 1
  /\ UNCHANGED <<mode, pc, gcs, loop, cloud>>

\* The operator edits camera-relay.env; it is read at the next start.
EditMode ==
  /\ mode' \in Modes
  /\ dark' = IF mode' = "missing" THEN 0 ELSE dark
  /\ UNCHANGED <<pc, gcs, loop, cloud, down, slept>>

Next == Script \/ CloudEnds \/ GcsEnds \/ Tick \/ EditMode

Spec == Init /\ [][Next]_vars

\* The script, systemd and the clock go on; pipelines need not end.
FairSpec == Spec /\ WF_vars(Script \/ Tick)

-----------------------------------------------------------------------------
\* However often either pipeline dies, there is never a second push to the
\* cloud's RTSP path: the orphan that kill leaves behind is gone before the
\* script runs again.
OnePush == cloud <= 1 /\ (pc = "down" => cloud = 0)

\* ARCHITECTURE.md:93, a crashed service is back within its RestartSec: however
\* the two pipelines end, the ground station is never without video for longer,
\* unless the environment file is missing.
GcsOutageBounded == dark <= RESTART_SEC

\* "Cloud pipeline (secondary - can fail independently)": if the ground
\* station's pipeline stops failing, its video stays, whatever the cloud's does.
GcsVideoStays ==
  <>[][~GcsEnds]_vars /\ <>[](mode # "missing") => <>[](gcs = "up")

\* As long as the ground station's video stays up, the push to the cloud is
\* retried for ever.
CloudRetried == <>[](pc = "wait" /\ gcs = "up") => []<>(cloud > 0)
=============================================================================
