-------------------------- MODULE TelemetrySender --------------------------
(***************************************************************************)
(* The telemetry-sender process of src/telemetry_sender.py: it reads       *)
(* MAVLink messages from mavlink-router over TCP, accumulates them in one  *)
(* state dictionary and POSTs a snapshot of it to the cloud.               *)
(*                                                                         *)
(* One loop iteration (recv_match, update_state, the send decision) is one *)
(* step up to the POST; the POST blocks the loop, takes time, and ends in  *)
(* a step of its own.  time.time() only ever enters the program through    *)
(* differences, so last_send and next_send_after are kept as the           *)
(* differences the code computes: sinceSend = now - last_send and holdOff  *)
(* = next_send_after - now, each saturated where no test can tell larger   *)
(* values apart.  The counters saturate for the same reason.               *)
(***************************************************************************)
EXTENDS Integers, Sequences

CONSTANTS
  Messages,          \* MAVLink messages nodes on the bus can send
  Modes,             \* flight mode names of mode_string_v10
  Batches,           \* sequences of messages that can arrive in one tick
  QueueCap,          \* messages the socket holds before mavlink-router drops
  AgeCap,            \* ages of waiting messages saturate here
  Second,            \* ticks per second
  SEND_INTERVAL,     \* in ticks
  AUTH_BACKOFF_CAP,  \* AUTH_BACKOFF_CAP_SECONDS, in ticks
  AuthMax,           \* auth_fail_count saturates here: the backoff is at its cap
  LOST_THRESHOLD,    \* fail_count at which "Cloud connection lost" is logged
  POST_MAX,          \* longest POST, in ticks
  RESTART_SEC,       \* RestartSec of telemetry-sender.service, in ticks
  BYPASS_GPS_GATE,   \* the development override
  Keys,              \* API keys
  NoKey,             \* DRONE_API_KEY unset or empty
  None               \* Python's None

VARIABLES
  pc,             \* "down", "connect", "heartbeat", "recv" or "post"
  conn,           \* the TCP connection: "none", "open" or "dead" (peer closed)
  router,         \* mavlink-router: "up" or "down"
  queue,          \* messages in the socket, oldest first, with their ages
  target,         \* conn.target_system, 0 until a vehicle heartbeat was seen
  state,          \* TelemetrySender.state
  failCount,      \* TelemetrySender.fail_count
  authFailCount,  \* TelemetrySender.auth_fail_count
  sinceSend,      \* now - last_send
  holdOff,        \* next_send_after - now, 0 once it has passed
  postAge,        \* ticks since the current POST began
  outcome,        \* how the last send() of this process ended
  procKey,        \* the key in the X-API-Key header of this process
  fileKey,        \* DRONE_API_KEY in /etc/specter/telemetry-sender.env
  accepted,       \* keys the cloud accepts
  downAge,        \* ticks since the process exited
  gap,            \* history: ticks since this process last began a POST
  quiet           \* history: ticks since this process last got a 401

mem  == <<target, state, failCount, authFailCount, sinceSend, holdOff,
          postAge, outcome, gap, quiet>>
env  == <<router, fileKey, accepted>>
vars == <<pc, conn, queue, procKey, downAge, mem, env>>

-----------------------------------------------------------------------------
Smaller(a, b) == IF a <= b THEN a ELSE b

(***************************************************************************)
(* Backoff after the k-th 401 in a row: 1s, 2s, 4s, ... up to the cap.     *)
(***************************************************************************)
BackoffUncapped(k) == 2^(k - 1) * Second

Backoff(k) == Smaller(AUTH_BACKOFF_CAP, 2^(k - 1) * Second)

\* Source system ids on the bus; 0 addresses everyone and is nobody's id.
SystemIds == 1..255

PositionMsg  == [type : {"GLOBAL_POSITION_INT"}, sys : SystemIds,
                 lat : Int, lon : Int, relative_alt : Int, hdg : Nat]
HeartbeatMsg == [type : {"HEARTBEAT"}, sys : SystemIds, vehicle : BOOLEAN,
                 armed : BOOLEAN, mode : Modes]
SysStatusMsg == [type : {"SYS_STATUS"}, sys : SystemIds,
                 battery_remaining : Int, voltage_battery : Nat]
VfrHudMsg    == [type : {"VFR_HUD"}, sys : SystemIds, groundspeed : Nat]
GpsRawMsg    == [type : {"GPS_RAW_INT"}, sys : SystemIds, fix_type : Nat,
                 satellites_visible : Nat]
OtherMsg     == [type : {"ATTITUDE", "OTHER"}, sys : SystemIds]

ASSUME MessagesAssumption ==
  /\ Messages \subseteq PositionMsg \cup HeartbeatMsg \cup SysStatusMsg
                        \cup VfrHudMsg \cup GpsRawMsg \cup OtherMsg
  /\ Batches \subseteq Seq(Messages)
  /\ "UNKNOWN" \in Modes

ASSUME ConstantsAssumption ==
  /\ QueueCap \in Nat \ {0}
  /\ AgeCap \in Nat
  /\ Second \in Nat \ {0}
  /\ SEND_INTERVAL \in Nat \ {0}
  /\ AUTH_BACKOFF_CAP \in Nat \ {0}
  /\ AuthMax \in Nat \ {0}
  /\ LOST_THRESHOLD \in Nat \ {0}
  /\ POST_MAX \in Nat
  /\ RESTART_SEC \in Nat
  /\ BYPASS_GPS_GATE \in BOOLEAN
  /\ NoKey \notin Keys
  /\ None \notin Int

\* The counter saturates only where the backoff no longer depends on it.
ASSUME BackoffAssumption ==
  /\ \A k \in 1..AuthMax : 2^(k - 1) >= 1
  /\ 2^(AuthMax - 1) * Second >= AUTH_BACKOFF_CAP

-----------------------------------------------------------------------------
(***************************************************************************)
(* The accumulator.  Units: lat and lon in microdegrees (the code rounds   *)
(* to six decimals), alt in millimetres, heading in centidegrees, battery  *)
(* in tenths of a percent, voltage in millivolts.  roll, yaw and pitch are *)
(* stored by the code and never read, so they are left out.                *)
(***************************************************************************)
DevLat == 28613900
DevLon == 77209000
UINT16_MAX == 65535

InitialState ==
  [lat |-> IF BYPASS_GPS_GATE THEN DevLat ELSE None,
   lon |-> IF BYPASS_GPS_GATE THEN DevLon ELSE None,
   alt |-> 0, speed |-> 0, heading |-> 0,
   battery |-> 1,  \* the code's 0.1
   voltage |-> 0, armed |-> FALSE, flight_mode |-> "UNKNOWN",
   gps_fix_type |-> 0, satellites |-> 0]

(***************************************************************************)
(* round(n / 1e7, 6) in microdegrees: the nearest one; which of the two    *)
(* wins on a tie depends on the binary representation of n / 1e7.          *)
(***************************************************************************)
Microdegrees(n) ==
  {q \in (n \div 10)..((n \div 10) + 1) : 10 * q - n \in -5..5}

\* Fault: each coordinate is filtered on its own.
OnPositionPerCoordinate(m) ==
  /\ m.type = "GLOBAL_POSITION_INT"
  /\ \E la \in Microdegrees(m.lat), lo \in Microdegrees(m.lon) :
       state' = [state EXCEPT !.lat = IF la # 0 THEN la ELSE @,
                              !.lon = IF lo # 0 THEN lo ELSE @,
                              !.alt = m.relative_alt, !.heading = m.hdg]

OnPosition(m) ==
  /\ m.type = "GLOBAL_POSITION_INT"
  /\ \E la \in Microdegrees(m.lat), lo \in Microdegrees(m.lon) :
       state' = [state EXCEPT !.lat = IF la # 0 /\ lo # 0 THEN la ELSE @,
                              !.lon = IF la # 0 /\ lo # 0 THEN lo ELSE @,
                              !.alt = m.relative_alt, !.heading = m.hdg]

OnHeartbeat(m) ==
  /\ m.type = "HEARTBEAT"
  /\ state' = [state EXCEPT !.armed = m.armed, !.flight_mode = m.mode]

\* Fault: "not provided" is stored like any other value.
OnSysStatusUnfiltered(m) ==
  /\ m.type = "SYS_STATUS"
  /\ state' = [state EXCEPT !.battery = 10 * m.battery_remaining,
                            !.voltage = m.voltage_battery]

OnSysStatus(m) ==
  /\ m.type = "SYS_STATUS"
  /\ state' = [state EXCEPT
       !.battery = IF m.battery_remaining >= 0 THEN 10 * m.battery_remaining ELSE @,
       !.voltage = IF m.voltage_battery # UINT16_MAX THEN m.voltage_battery ELSE @]

OnVfrHud(m) ==
  /\ m.type = "VFR_HUD"
  /\ state' = [state EXCEPT !.speed = m.groundspeed]

OnGpsRaw(m) ==
  /\ m.type = "GPS_RAW_INT"
  /\ state' = [state EXCEPT !.gps_fix_type = m.fix_type,
                            !.satellites = m.satellites_visible]

\* Attitude goes to fields that are never sent; other types match no case.
OnOther(m) ==
  /\ m.type \in {"ATTITUDE", "OTHER"}
  /\ UNCHANGED state

ByType(m) ==
  \/ OnPosition(m) \/ OnHeartbeat(m) \/ OnSysStatus(m)
  \/ OnVfrHud(m) \/ OnGpsRaw(m) \/ OnOther(m)

\* Fault: every node on the bus is listened to.
UpdateStateFromAnyone(m, tgt) == ByType(m)

\* update_state ignores every system but the flight controller's.
UpdateState(m, tgt) ==
  \/ m.sys # tgt /\ UNCHANGED state
  \/ m.sys = tgt /\ ByType(m)

\* int(heading) truncates to whole degrees; the rest is copied.
BuildPayload(s) == [s EXCEPT !.heading = @ \div 100]

\* The (0,0) gate of run().
HasPosition(s) == s.lat # None /\ s.lon # None

-----------------------------------------------------------------------------
(***************************************************************************)
(* Process start and exit.  The memory of a process that is down is        *)
(* represented by the values __init__ gives its successor.                 *)
(***************************************************************************)
FreshMemory ==
  /\ target = 0
  /\ state = InitialState
  /\ failCount = 0
  /\ authFailCount = 0
  /\ sinceSend = SEND_INTERVAL   \* last_send = 0, the epoch
  /\ holdOff = 0                 \* next_send_after = 0
  /\ postAge = 0
  /\ outcome = "none"
  /\ gap = SEND_INTERVAL
  /\ quiet = AUTH_BACKOFF_CAP

ResetMemory ==
  /\ target' = 0
  /\ state' = InitialState
  /\ failCount' = 0
  /\ authFailCount' = 0
  /\ sinceSend' = SEND_INTERVAL
  /\ holdOff' = 0
  /\ postAge' = 0
  /\ outcome' = "none"
  /\ gap' = SEND_INTERVAL
  /\ quiet' = AUTH_BACKOFF_CAP

Init ==
  /\ pc = "down"
  /\ conn = "none"
  /\ router = "up"
  /\ queue = << >>
  /\ procKey = NoKey
  /\ fileKey \in Keys \cup {NoKey}
  /\ accepted \in SUBSET Keys
  /\ downAge = RESTART_SEC
  /\ FreshMemory

\* An uncaught exception or sys.exit: systemd counts RESTART_SEC from here.
Exit(age) ==
  /\ pc' = "down"
  /\ conn' = "none"
  /\ queue' = << >>
  /\ procKey' = NoKey
  /\ downAge' = age
  /\ ResetMemory

\* systemd starts the unit; the module reads its environment once, here.
Start ==
  /\ pc = "down"
  /\ downAge >= RESTART_SEC
  /\ fileKey # NoKey
  /\ pc' = "connect"
  /\ procKey' = fileKey
  /\ UNCHANGED <<conn, queue, downAge, mem, env>>

\* DRONE_API_KEY not set: refuse to start, exit status 1.
StartRefused ==
  /\ pc = "down"
  /\ downAge >= RESTART_SEC
  /\ fileKey = NoKey
  /\ Exit(0)
  /\ UNCHANGED env

\* mavlink_connection: the TCP connection to mavlink-router.
Connect ==
  /\ pc = "connect"
  /\ router = "up"
  /\ pc' = "heartbeat"
  /\ conn' = "open"
  /\ UNCHANGED <<queue, procKey, downAge, mem, env>>

\* pymavlink gives up after its retries and the exception is not caught.
ConnectFails ==
  /\ pc = "connect"
  /\ router = "down"
  /\ Exit(0)
  /\ UNCHANGED env

-----------------------------------------------------------------------------
(***************************************************************************)
(* Receiving.  pymavlink sets target_system from the first heartbeat that  *)
(* looks like a vehicle's, before it hands the message to the program.     *)
(***************************************************************************)
LockOn(tgt, m) ==
  IF tgt = 0 /\ m.type = "HEARTBEAT" /\ m.vehicle THEN m.sys ELSE tgt

\* wait_heartbeat drops what comes before the first heartbeat of any node.
WaitHeartbeat ==
  /\ pc = "heartbeat"
  /\ queue # << >>
  /\ LET m == Head(queue).msg IN
       /\ target' = LockOn(target, m)
       /\ pc' = IF m.type = "HEARTBEAT" THEN "recv" ELSE "heartbeat"
  /\ queue' = Tail(queue)
  /\ UNCHANGED <<conn, state, failCount, authFailCount, sinceSend, holdOff,
                 postAge, outcome, gap, quiet, procKey, downAge, env>>

\* recv_match returns a message and update_state applies it.
Ingest ==
  /\ pc = "recv"
  /\ queue # << >>
  /\ LET m == Head(queue).msg IN
       /\ target' = LockOn(target, m)
       /\ UpdateState(m, LockOn(target, m))
  /\ queue' = Tail(queue)

\* Fault: the auth window is forgotten.
SendDueIgnoringBackoff == sinceSend >= SEND_INTERVAL

\* Fault: no attempt is made while the last answer was a 401.
SendDueNeverAfter401 == sinceSend >= SEND_INTERVAL /\ authFailCount = 0

\* now - last_send >= SEND_INTERVAL and now >= next_send_after
SendDue == sinceSend >= SEND_INTERVAL /\ holdOff = 0

LoopIdle ==
  /\ Ingest
  /\ ~SendDue
  /\ UNCHANGED <<pc, conn, failCount, authFailCount, sinceSend, holdOff,
                 postAge, outcome, gap, quiet, procKey, downAge, env>>

\* No position yet: skip this interval.
LoopGated ==
  /\ Ingest
  /\ SendDue
  /\ ~HasPosition(state')
  /\ sinceSend' = 0
  /\ UNCHANGED <<pc, conn, failCount, authFailCount, holdOff, postAge,
                 outcome, gap, quiet, procKey, downAge, env>>

LoopPost ==
  /\ Ingest
  /\ SendDue
  /\ HasPosition(state')
  /\ pc' = "post"
  /\ postAge' = 0
  /\ gap' = 0
  /\ UNCHANGED <<conn, failCount, authFailCount, sinceSend, holdOff,
                 outcome, quiet, procKey, downAge, env>>

-----------------------------------------------------------------------------
(***************************************************************************)
(* The end of a POST.  last_send becomes the time sampled before it.       *)
(***************************************************************************)
\* Fault: last_send is left alone.
SendDoneKeepingLastSend(result) ==
  /\ pc = "post"
  /\ pc' = "recv"
  /\ outcome' = result
  /\ postAge' = 0
  /\ UNCHANGED <<conn, queue, target, state, sinceSend, gap, procKey, downAge, env>>

SendDone(result) ==
  /\ pc = "post"
  /\ pc' = "recv"
  /\ outcome' = result
  /\ sinceSend' = Smaller(postAge, SEND_INTERVAL)
  /\ postAge' = 0
  /\ UNCHANGED <<conn, queue, target, state, gap, procKey, downAge, env>>

\* Fault: a 200 leaves the auth counter alone.
Reply200KeepingAuthCount ==
  /\ SendDone("ok")
  /\ procKey \in accepted
  /\ failCount' = 0
  /\ holdOff' = 0
  /\ UNCHANGED <<authFailCount, quiet>>

Reply200 ==
  /\ SendDone("ok")
  /\ procKey \in accepted
  /\ failCount' = 0
  /\ authFailCount' = 0
  /\ holdOff' = 0
  /\ UNCHANGED quiet

Reply401 ==
  /\ SendDone("auth")
  /\ procKey \notin accepted
  /\ authFailCount' = Smaller(authFailCount + 1, AuthMax)
  /\ holdOff' = Backoff(authFailCount')
  /\ quiet' = 0
  /\ UNCHANGED failCount

\* Any other status below 500, redirects and 201 included.
ReplyOther ==
  /\ SendDone("client")
  /\ UNCHANGED <<failCount, authFailCount, holdOff, quiet>>

\* A 5xx status, or a ConnectError, TimeoutException or RemoteProtocolError.
SendFails ==
  /\ \E result \in {"server", "transport"} : SendDone(result)
  /\ failCount' = Smaller(failCount + 1, LOST_THRESHOLD + 1)
  /\ UNCHANGED <<authFailCount, holdOff, quiet>>

\* Any other httpx error (ReadError, WriteError, ...) is not caught.
SendCrashes ==
  /\ pc = "post"
  /\ Exit(0)
  /\ UNCHANGED env

-----------------------------------------------------------------------------
(***************************************************************************)
(* The environment: time and arriving messages, mavlink-router, the        *)
(* operator and the cloud.  Handling a message takes no time that matters  *)
(* next to a tick, so time passes only while the process waits.            *)
(***************************************************************************)
\* Fault: the loop sleeps through the auth window instead of reading on.
CanWaitOutBackoff ==
  \/ pc = "down"
  \/ pc \in {"heartbeat", "recv"} /\ (queue = << >> \/ holdOff > 0)
  \/ pc = "post" /\ postAge < POST_MAX

CanWait ==
  \/ pc = "down"
  \/ pc \in {"heartbeat", "recv"} /\ queue = << >>
  \/ pc = "post" /\ postAge < POST_MAX

Aged(q) == [i \in 1..Len(q) |->
              [msg |-> q[i].msg, age |-> Smaller(q[i].age + 1, AgeCap)]]

\* mavlink-router drops what the socket of a slow reader cannot take.
Arrive(q, batch) ==
  LET all == q \o [i \in 1..Len(batch) |-> [msg |-> batch[i], age |-> 0]]
  IN  SubSeq(all, 1, Smaller(Len(all), QueueCap))

Tick(batch) ==
  /\ CanWait
  /\ queue' = IF conn = "open" THEN Arrive(Aged(queue), batch) ELSE Aged(queue)
  /\ sinceSend' = Smaller(sinceSend + 1, SEND_INTERVAL)
  /\ holdOff' = IF holdOff > 0 THEN holdOff - 1 ELSE 0
  /\ postAge' = IF pc = "post" THEN postAge + 1 ELSE postAge
  /\ downAge' = IF pc = "down" THEN Smaller(downAge + 1, RESTART_SEC) ELSE downAge
  /\ gap' = Smaller(gap + 1, SEND_INTERVAL)
  /\ quiet' = Smaller(quiet + 1, AUTH_BACKOFF_CAP)
  /\ UNCHANGED <<pc, conn, target, state, failCount, authFailCount, outcome,
                 procKey, env>>

\* mavlink-routerd exits: its clients see the end of the stream.
RouterExit ==
  /\ router = "up"
  /\ router' = "down"
  /\ conn' = IF conn = "open" THEN "dead" ELSE conn
  /\ UNCHANGED <<pc, queue, procKey, downAge, mem, fileKey, accepted>>

(***************************************************************************)
(* A reset connection raises out of recv_match.  At an orderly end of the  *)
(* stream recv_match(blocking=True) has no timeout and never returns,      *)
(* which is no step at all.                                                *)
(***************************************************************************)
ConnectionReset ==
  /\ pc \in {"heartbeat", "recv"}
  /\ conn = "dead"
  /\ queue = << >>
  /\ Exit(0)
  /\ UNCHANGED env

\* Fault: the unit has After= but not Requires=, so no restart reaches it.
RouterRestartAlone ==
  /\ router = "down"
  /\ router' = "up"
  /\ UNCHANGED <<pc, conn, queue, procKey, downAge, mem, fileKey, accepted>>

(***************************************************************************)
(* systemd restarts mavlink-router; Requires= in telemetry-sender.service  *)
(* propagates the restart job to the sender, without a hold-off.           *)
(***************************************************************************)
RouterRestart ==
  /\ router = "down"
  /\ router' = "up"
  /\ Exit(RESTART_SEC)
  /\ UNCHANGED <<fileKey, accepted>>

\* The operator edits telemetry-sender.env.
EditKey ==
  /\ fileKey' \in Keys \cup {NoKey}
  /\ UNCHANGED <<pc, conn, queue, procKey, downAge, mem, router, accepted>>

\* Keys are minted and revoked on the cloud.
CloudChangesKeys ==
  /\ accepted' \in SUBSET Keys
  /\ UNCHANGED <<pc, conn, queue, procKey, downAge, mem, router, fileKey>>

Loop == LoopIdle \/ LoopGated \/ LoopPost

PostEnds == Reply200 \/ Reply401 \/ ReplyOther \/ SendFails \/ SendCrashes

Next ==
  \/ Start \/ StartRefused \/ Connect \/ ConnectFails
  \/ WaitHeartbeat \/ Loop \/ PostEnds
  \/ \E batch \in Batches : Tick(batch)
  \/ RouterExit \/ ConnectionReset \/ RouterRestart
  \/ EditKey \/ CloudChangesKeys

Spec == Init /\ [][Next]_vars

(***************************************************************************)
(* Fairness.  The process runs whenever it can and a POST ends (every      *)
(* phase of it has a timeout); systemd restarts mavlink-router; the flight *)
(* controller is heard from again and again.                               *)
(***************************************************************************)
CarriesFix(batch) ==
  \E i, j \in 1..Len(batch) :
    /\ i < j
    /\ batch[i].type = "HEARTBEAT" /\ batch[i].vehicle
    /\ batch[j].type = "GLOBAL_POSITION_INT" /\ batch[j].sys = batch[i].sys
    /\ 0 \notin Microdegrees(batch[j].lat) \cup Microdegrees(batch[j].lon)

HearFlightController == \E batch \in Batches : CarriesFix(batch) /\ Tick(batch)

Fairness ==
  /\ WF_vars(Start \/ StartRefused \/ Connect \/ ConnectFails \/ WaitHeartbeat \/ Loop)
  /\ WF_vars(PostEnds)
  /\ WF_vars(RouterRestart)
  /\ SF_vars(HearFlightController)

FairSpec == Spec /\ Fairness

\* The cloud, when it knows the key, answers 200 again and again.
HealthyCloudSpec == FairSpec /\ SF_vars(Reply200)

-----------------------------------------------------------------------------
StateType ==
  [lat : Int \cup {None}, lon : Int \cup {None}, alt : Int, speed : Nat,
   heading : Nat, battery : Nat, voltage : Nat, armed : BOOLEAN,
   flight_mode : Modes, gps_fix_type : Nat, satellites : Nat]

TypeOK ==
  /\ pc \in {"down", "connect", "heartbeat", "recv", "post"}
  /\ conn \in {"none", "open", "dead"}
  /\ router \in {"up", "down"}
  /\ queue \in Seq([msg : Messages, age : 0..AgeCap])
  /\ target \in SystemIds \cup {0}
  /\ state \in StateType
  /\ failCount \in 0..(LOST_THRESHOLD + 1)
  /\ authFailCount \in 0..AuthMax
  /\ sinceSend \in 0..SEND_INTERVAL
  /\ holdOff \in Nat
  /\ postAge \in 0..POST_MAX
  /\ outcome \in {"none", "ok", "auth", "client", "server", "transport"}
  /\ procKey \in Keys \cup {NoKey}
  /\ fileKey \in Keys \cup {NoKey}
  /\ accepted \in SUBSET Keys
  /\ downAge \in 0..RESTART_SEC
  /\ gap \in 0..SEND_INTERVAL
  /\ quiet \in 0..AUTH_BACKOFF_CAP

-----------------------------------------------------------------------------
(***************************************************************************)
(* Safety.                                                                 *)
(***************************************************************************)
\* Messages of one type from one system.
From(sys, type) == {m \in Messages : m.type = type /\ m.sys = sys}

\* Positions such a report can stand for once it is past the (0,0) filter.
Fixes(sys) ==
  UNION {{p \in Microdegrees(m.lat) \X Microdegrees(m.lon) : p[1] # 0 /\ p[2] # 0} :
           m \in From(sys, "GLOBAL_POSITION_INT")}

\* What is POSTed is never Null Island, never a missing coordinate, never
\* another system's position and never the latitude of one report with the
\* longitude of another: across start-up, lost fixes, crashes and restarts the
\* position in flight is one that a single message of the flight controller
\* carried, or the development override's (update_state 82-93, run 191-200).
PositionReported ==
  pc = "post" =>
    LET p == BuildPayload(state) IN
      \/ <<p.lat, p.lon>> \in Fixes(target)
      \/ BYPASS_GPS_GATE /\ <<p.lat, p.lon>> = <<DevLat, DevLon>>

\* Fields that are as __init__ left them, or as some message of system sys set
\* them.
Attributable(p, sys) ==
  /\ \/ <<p.armed, p.flight_mode>> = <<InitialState.armed, InitialState.flight_mode>>
     \/ \E m \in From(sys, "HEARTBEAT") : <<p.armed, p.flight_mode>> = <<m.armed, m.mode>>
  /\ \/ p.battery = InitialState.battery
     \/ \E m \in From(sys, "SYS_STATUS") :
          m.battery_remaining >= 0 /\ p.battery = 10 * m.battery_remaining
  /\ \/ p.voltage = InitialState.voltage
     \/ \E m \in From(sys, "SYS_STATUS") :
          m.voltage_battery # UINT16_MAX /\ p.voltage = m.voltage_battery

\* Every other field POSTed is as __init__ left it or was sent by the system
\* the process has locked on to: armed and flight_mode stem from the same
\* heartbeat, and MAVLink's "not provided" sentinels are never among them
\* (update_state 82-116).  Two things it does not say.  It attributes by system
\* id, as line 82 filters; that a node other than the autopilot can share the id
\* is ArmedFromAutopilot's.  And the battery level of a drone that never
\* reported one is the 0.1 of line 42, where the comment at 111-112 and
\* tests/test_telemetry_sender.py:21 have 0.0.
PayloadAttributable == pc = "post" => Attributable(BuildPayload(state), target)

\* What the comment at 78-81 says the filter achieves: armed and flight_mode are
\* never a companion computer's or a ground station's, only ever an autopilot's.
\* The test at 82 compares system ids, so a companion that shares the flight
\* controller's system id (its own component id is not looked at) gets through:
\* the code does not have this property.
ArmedFromAutopilot ==
  pc = "post" =>
    LET p == BuildPayload(state) IN
      \/ <<p.armed, p.flight_mode>> = <<InitialState.armed, InitialState.flight_mode>>
      \/ \E m \in From(target, "HEARTBEAT") :
           m.vehicle /\ <<p.armed, p.flight_mode>> = <<m.armed, m.mode>>

\* A process never begins two POSTs closer together than SEND_INTERVAL,
\* however the earlier ones ended and however long they took: last_send is the
\* time sampled before the POST and is stored on every path (run, 188-208).
RateLimited ==
  [][pc # "post" /\ pc' = "post" => gap >= SEND_INTERVAL]_vars

\* After the k-th 401 since the last 200, no POST begins before the backoff of
\* the k-th rejection has passed, even if timeouts, 5xx or other answers came
\* in between (send, 163-167; run, 190).
BackoffHonoured ==
  [][pc # "post" /\ pc' = "post" /\ authFailCount > 0
       => quiet >= Backoff(authFailCount)]_vars

\* A rejected key never silences the drone for longer than the cap, and only a
\* 401 that no 200 has followed silences it at all.
SilenceBounded ==
  holdOff > 0 => authFailCount > 0 /\ quiet + holdOff <= AUTH_BACKOFF_CAP

\* A 200 starts the backoff afresh: the next rejection waits one second again,
\* whatever the count had reached before.
BackoffRestarts ==
  [][outcome = "ok" /\ outcome' = "auth"
       => holdOff' = Smaller(AUTH_BACKOFF_CAP, Second)]_vars

\* Longest wait of the i-th message in the socket: a POST for each message ahead
\* of it, and the one in progress.
Lag(i) == (QueueCap - i + 1) * POST_MAX

\* However slow the POSTs are, also when each takes longer than SEND_INTERVAL and
\* only one message is read between two of them, a message that the socket took
\* is read after at most one POST per place in the socket.  Nothing else makes
\* it wait: during an auth backoff the loop goes on reading (run, 183-208).
LagBounded == \A i \in 1..Len(queue) : queue[i].age <= Lag(i)

(***************************************************************************)
(* Inductive invariants behind the safety properties.                      *)
(***************************************************************************)
\* Elapsed quiet time and remaining hold-off add up to the backoff that was
\* imposed, and last_send is never older than the last POST: what makes
\* SilenceBounded, BackoffHonoured and RateLimited inductive.
TimingInv ==
  /\ SilenceBounded
  /\ authFailCount > 0 => quiet + holdOff >= Backoff(authFailCount)
  /\ pc # "post" => sinceSend <= gap
  /\ pc = "post" => Smaller(postAge, SEND_INTERVAL) <= gap
  /\ outcome = "ok" => authFailCount = 0

\* Nothing is learnt before the process has locked on to a system, position
\* and payload fields are attributable at every moment, not only in a POST.
DataInv ==
  /\ target = 0 => state = InitialState
  /\ pc = "post" => HasPosition(state)
  /\ \/ state.lat = InitialState.lat /\ state.lon = InitialState.lon
     \/ <<state.lat, state.lon>> \in Fixes(target)
  /\ Attributable(state, target)

\* While the loop POSTs, everything in the socket has waited for the current POST
\* and at most one for each place it has moved up; a POST is the only thing that
\* lets a message grow old: what makes LagBounded inductive.
LagInv ==
  /\ pc \in {"down", "connect"} => queue = << >> /\ conn = "none"
  /\ Len(queue) <= QueueCap
  /\ pc # "post" => LagBounded
  /\ pc = "post" => \A i \in 1..Len(queue) : queue[i].age <= Lag(i + 1) + postAge

(***************************************************************************)
(* Liveness.                                                               *)
(***************************************************************************)
\* As long as a key is configured and mavlink-router ends up running, the
\* sender attempts a POST again and again, whatever the cloud answers and
\* whatever crashed before: this needs the restart that Requires= propagates,
\* since recv_match never returns once the router has closed the connection.
KeepsTrying ==
  <>[](router = "up" /\ fileKey # NoKey) => []<>(pc = "post")

\* If the key the process holds is accepted for good, telemetry gets through
\* again without any restart: the auth window always reopens.
AcceptedKeyRecovers ==
  <>[](router = "up" /\ fileKey # NoKey /\ (pc # "down" => procKey \in accepted))
    => []<>(outcome = "ok")
=============================================================================
