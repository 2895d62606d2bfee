-------------------------- MODULE CameraRelayProofs -------------------------
(***************************************************************************)
(* Proofs about CameraRelay, for every RestartSec and every retry sleep:   *)
(* one push to the cloud at most, and the bound on the ground station's    *)
(* outage.                                                                 *)
(***************************************************************************)
EXTENDS CameraRelay, TLAPS

CameraType ==
  /\ mode \in Modes
  /\ pc \in {"down", "spawn", "wait", "exit", "exec"}
  /\ gcs \in {"none", "up", "ended"}
  /\ loop \in {"none", "run", "sleep"}
  /\ cloud \in Nat
  /\ down \in Nat
  /\ slept \in Nat
  /\ dark \in Nat

\* Who owns the cloud pipeline: nobody before the loop is spawned and in the
\* modes that exec; the loop while it runs; after the script's kill of the
\* loop at most the orphan.  A loop that sleeps has seen its pipeline end.
PushInv ==
  /\ cloud <= 1
  /\ pc \in {"down", "spawn", "exec"} => cloud = 0 /\ loop = "none"
  /\ pc = "exit" => loop = "none"
  /\ loop = "sleep" => cloud = 0

\* The ground station is dark only while the unit is down, and then for no
\* longer than it has been down.
OutageInv ==
  /\ pc = "down" => gcs = "none" /\ dark <= down
  /\ pc # "down" => gcs # "none" /\ dark = 0
  /\ pc = "exec" => gcs = "up"
  /\ pc = "exit" => gcs = "ended"
  /\ mode = "missing" => dark = 0
  /\ dark <= RESTART_SEC

CameraInv == CameraType /\ PushInv /\ OutageInv

LEMMA CameraInvInit == Init => CameraInv
  BY CameraAssumption
     DEF Init, CameraInv, CameraType, PushInv, OutageInv, Modes

\* systemd's kill of the control group takes the orphan with it.  The outage
\* starts with the exit, unless nothing was shown anyway.
LEMMA ExitKeeps ==
  ASSUME CameraInv, Exit, UNCHANGED <<mode, dark>>, dark = 0
  PROVE  CameraInv'
<1>1. CameraType'
  BY DEF CameraInv, CameraType, Exit
<1>2. PushInv'
  BY DEF PushInv, Exit
<1>3. OutageInv'
  BY CameraAssumption DEF CameraInv, CameraType, OutageInv, Exit
<1> QED
  BY <1>1, <1>2, <1>3 DEF CameraInv

LEMMA TickKeeps == CameraInv /\ Tick => CameraInv'
<1> SUFFICES ASSUME CameraInv, Tick PROVE CameraInv'
  OBVIOUS
<1>1. CameraType'
  BY DEF CameraInv, CameraType, Tick
<1>2. PushInv'
  BY DEF CameraInv, PushInv, Tick
<1>3. OutageInv'
  <2>1. CASE pc = "down"
    \* RestartSec is not over, so one more second is within it.
    <3>1. down < RESTART_SEC
      BY <2>1, CameraAssumption DEF CameraInv, CameraType, Tick, Begin
    <3> QED
      BY <2>1, <3>1, CameraAssumption
         DEF CameraInv, CameraType, OutageInv, Tick
  <2>2. CASE pc # "down"
    \* No second passes between the end of the pipeline and the exit.
    <3>1. gcs = "up"
      BY <2>2 DEF CameraInv, CameraType, OutageInv, Tick, WaitOver
    <3> QED
      BY <2>2, <3>1 DEF CameraInv, OutageInv, Tick
  <2> QED
    BY <2>1, <2>2
<1> QED
  BY <1>1, <1>2, <1>3 DEF CameraInv

LEMMA CameraInvNext == CameraInv /\ [Next]_vars => CameraInv'
<1> SUFFICES ASSUME CameraInv, [Next]_vars PROVE CameraInv'
  OBVIOUS
<1> USE CameraAssumption DEF CameraInv, CameraType
<1>1. CASE StartFails
  BY <1>1, ExitKeeps DEF StartFails, OutageInv
<1>2. CASE StartGcs
  BY <1>2 DEF StartGcs, Begin, PushInv, OutageInv
<1>3. CASE StartLoop
  BY <1>3 DEF StartLoop, PushInv, OutageInv
<1>4. CASE WaitReturns
  BY <1>4 DEF WaitReturns, WaitOver, PushInv, OutageInv
<1>5. CASE ScriptExits
  BY <1>5, ExitKeeps DEF ScriptExits, OutageInv
<1>6. CASE LoopRetries
  BY <1>6 DEF LoopRetries, SleepOver, PushInv, OutageInv
<1>7. CASE CloudEnds
  BY <1>7 DEF CloudEnds, PushInv, OutageInv
<1>8. CASE GcsEnds
  <2>1. CASE pc = "exec" /\ Exit
    BY <1>8, <2>1, ExitKeeps DEF GcsEnds, OutageInv
  <2>2. CASE pc # "exec"
    BY <1>8, <2>2 DEF GcsEnds, PushInv, OutageInv
  <2> QED
    BY <1>8, <2>1, <2>2 DEF GcsEnds
<1>9. CASE Tick
  BY <1>9, TickKeeps
<1>10. CASE EditMode
  BY <1>10 DEF EditMode, PushInv, OutageInv
<1>11. CASE UNCHANGED vars
  BY <1>11 DEF vars, PushInv, OutageInv
<1> QED
  BY <1>1, <1>2, <1>3, <1>4, <1>5, <1>6, <1>7, <1>8, <1>9, <1>10, <1>11
     DEF Next, Script

LEMMA CameraInvariant == Spec => []CameraInv
  BY CameraInvInit, CameraInvNext, PTL DEF Spec

\* OnePush, of the loop in camera-relay.sh and its kill: however often the two
\* pipelines end, in whichever order, the cloud's RTSP path never has a second
\* push, and none is left when the script starts again.
THEOREM CloudPushedOnce == Spec => []OnePush
<1>1. CameraInv => OnePush
  BY DEF CameraInv, PushInv, OnePush
<1> QED
  BY <1>1, CameraInvariant, PTL

\* GcsOutageBounded, of wait "$GCS_PID" and RestartSec: for every RestartSec the
\* ground station is without video no longer than that.
THEOREM OutageIsBounded == Spec => []GcsOutageBounded
<1>1. CameraInv => GcsOutageBounded
  BY DEF CameraInv, OutageInv, GcsOutageBounded
<1> QED
  BY <1>1, CameraInvariant, PTL

\* Only the ground station's own pipeline takes it off the air: no step of the
\* cloud's pipeline, of its loop or of the operator does.
GcsIndependent ==
  [][gcs = "up" /\ gcs' # "up" => GcsEnds]_vars

\* GcsIndependent, of "Cloud pipeline (secondary - can fail independently)" in
\* camera-relay.sh: the script leaves its wait, and then exits, only after the
\* ground station's pipeline has ended.
THEOREM GcsFailsAlone == Spec => GcsIndependent
<1> DEFINE Alone == gcs = "up" /\ gcs' # "up" => GcsEnds
<1>1. ASSUME CameraInv, [Next]_vars PROVE [Alone]_vars
  <2>1. CASE StartFails \/ StartGcs
    BY <1>1, <2>1 DEF StartFails, StartGcs, Begin, CameraInv, OutageInv
  <2>2. CASE ScriptExits
    BY <1>1, <2>2 DEF ScriptExits, CameraInv, OutageInv
  <2>3. CASE StartLoop \/ WaitReturns \/ LoopRetries \/ CloudEnds
    BY <2>3 DEF StartLoop, WaitReturns, LoopRetries, CloudEnds
  <2>4. CASE Tick \/ EditMode
    BY <2>4 DEF Tick, EditMode
  <2>5. CASE GcsEnds \/ UNCHANGED vars
    BY <2>5
  <2> QED
    BY <1>1, <2>1, <2>2, <2>3, <2>4, <2>5 DEF Next, Script
<1> QED
  BY <1>1, CameraInvariant, PTL DEF Spec, GcsIndependent
=============================================================================
