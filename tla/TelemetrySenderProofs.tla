----------------------- MODULE TelemetrySenderProofs -----------------------
(***************************************************************************)
(* Proofs about TelemetrySender, for every set of messages and batches and *)
(* every value of the intervals, caps and bounds.                          *)
(***************************************************************************)
EXTENDS TelemetrySender, TLAPS

Entry == [msg : Messages, age : 0..AgeCap]

-----------------------------------------------------------------------------
(***************************************************************************)
(* Lemmas about the operators.                                             *)
(***************************************************************************)
\* Backoff is positive and never above the cap (send, 165).
LEMMA BackoffBounds ==
  ASSUME NEW k \in 1..AuthMax
  PROVE  Backoff(k) \in Nat /\ Backoff(k) > 0 /\ Backoff(k) <= AUTH_BACKOFF_CAP
<1>1. 2^(k - 1) \in Int
  BY ConstantsAssumption
<1>2. 2^(k - 1) >= 1
  BY BackoffAssumption
<1>3. 2^(k - 1) * Second >= 1 /\ 2^(k - 1) * Second \in Int
  <2> DEFINE p == 2^(k - 1)
  <2>1. p \in Int /\ p >= 1
    BY <1>1, <1>2
  <2> HIDE DEF p
  <2>2. p * Second >= 1 /\ p * Second \in Int
    BY <2>1, ConstantsAssumption
  <2> QED
    BY <2>2 DEF p
<1> QED
  BY <1>3, ConstantsAssumption DEF Backoff, Smaller

\* Rounding yields integers.
LEMMA MicrodegreesInt ==
  ASSUME NEW n \in Int
  PROVE  Microdegrees(n) \subseteq Int
BY DEF Microdegrees

\* The state dictionary is well formed when a process starts.
LEMMA InitialStateType == InitialState \in StateType
<1>1. DevLat \in Int /\ DevLon \in Int
  BY SMT DEF DevLat, DevLon
<1> DEFINE la == IF BYPASS_GPS_GATE THEN DevLat ELSE None
           lo == IF BYPASS_GPS_GATE THEN DevLon ELSE None
<1>2. la \in Int \cup {None} /\ lo \in Int \cup {None}
  BY <1>1
<1> HIDE DEF la, lo
<1>3. [lat |-> la, lon |-> lo, alt |-> 0, speed |-> 0, heading |-> 0,
       battery |-> 1, voltage |-> 0, armed |-> FALSE, flight_mode |-> "UNKNOWN",
       gps_fix_type |-> 0, satellites |-> 0] \in StateType
  <2>1. FALSE \in BOOLEAN
    OBVIOUS
  <2>2. "UNKNOWN" \in Modes
    BY MessagesAssumption
  <2>3. 0 \in Int /\ 0 \in Nat /\ 1 \in Nat
    OBVIOUS
  <2> QED
    BY <1>2, <2>1, <2>2, <2>3, Zenon DEF StateType
<1> QED
  BY <1>3 DEF InitialState, la, lo

\* update_state keeps the dictionary well formed (sentinels filtered: 113-116).
LEMMA UpdateStateType ==
  ASSUME state \in StateType, NEW m \in Messages, NEW tgt, UpdateState(m, tgt)
  PROVE  state' \in StateType
<1>1. m \in PositionMsg \cup HeartbeatMsg \cup SysStatusMsg
            \cup VfrHudMsg \cup GpsRawMsg \cup OtherMsg
  BY MessagesAssumption
<1>2. CASE OnPosition(m)
  <2>1. m \in PositionMsg
    BY <1>1, <1>2 DEF OnPosition, HeartbeatMsg, SysStatusMsg, VfrHudMsg, GpsRawMsg, OtherMsg
  <2>2. PICK la \in Microdegrees(m.lat), lo \in Microdegrees(m.lon) :
          state' = [state EXCEPT !.lat = IF la # 0 /\ lo # 0 THEN la ELSE @,
                                 !.lon = IF la # 0 /\ lo # 0 THEN lo ELSE @,
                                 !.alt = m.relative_alt, !.heading = m.hdg]
    BY <1>2, Zenon DEF OnPosition
  <2>3. la \in Int /\ lo \in Int
    BY <2>1, MicrodegreesInt DEF PositionMsg
  <2>4. CASE la # 0 /\ lo # 0
    BY <2>1, <2>2, <2>3, <2>4 DEF StateType, PositionMsg
  <2>5. CASE ~(la # 0 /\ lo # 0)
    BY <2>1, <2>2, <2>5 DEF StateType, PositionMsg
  <2> QED
    BY <2>4, <2>5
<1>3. CASE OnHeartbeat(m)
  BY <1>1, <1>3 DEF OnHeartbeat, StateType, PositionMsg, HeartbeatMsg, SysStatusMsg,
     VfrHudMsg, GpsRawMsg, OtherMsg
<1>4. CASE OnSysStatus(m)
  <2>1. m \in SysStatusMsg
    BY <1>1, <1>4 DEF OnSysStatus, PositionMsg, HeartbeatMsg, VfrHudMsg, GpsRawMsg, OtherMsg
  <2> DEFINE b == IF m.battery_remaining >= 0 THEN 10 * m.battery_remaining ELSE state.battery
             v == IF m.voltage_battery # UINT16_MAX THEN m.voltage_battery ELSE state.voltage
  <2>2. b \in Nat /\ v \in Nat
    BY <2>1 DEF SysStatusMsg, StateType
  <2>3. state' = [state EXCEPT !.battery = b, !.voltage = v]
    BY <1>4, Zenon DEF OnSysStatus
  <2> HIDE DEF b, v
  <2> QED
    BY <2>2, <2>3 DEF StateType
<1>5. CASE OnVfrHud(m)
  BY <1>1, <1>5 DEF OnVfrHud, StateType, PositionMsg, HeartbeatMsg, SysStatusMsg,
     VfrHudMsg, GpsRawMsg, OtherMsg
<1>6. CASE OnGpsRaw(m)
  BY <1>1, <1>6 DEF OnGpsRaw, StateType, PositionMsg, HeartbeatMsg, SysStatusMsg,
     VfrHudMsg, GpsRawMsg, OtherMsg
<1>7. CASE UNCHANGED state
  BY <1>7
<1>8. CASE OnOther(m)
  BY <1>7, <1>8 DEF OnOther
<1>9. CASE ByType(m)
  BY <1>2, <1>3, <1>4, <1>5, <1>6, <1>8, <1>9 DEF ByType
<1> QED
  BY <1>7, <1>9 DEF UpdateState

\* Every message carries the system id of its source.
LEMMA MessageSys ==
  ASSUME NEW m \in Messages
  PROVE  m.sys \in SystemIds
BY MessagesAssumption DEF PositionMsg, HeartbeatMsg, SysStatusMsg, VfrHudMsg,
   GpsRawMsg, OtherMsg

\* Time and arrivals keep the socket a queue of messages with ages.
LEMMA QueueType ==
  ASSUME NEW q \in Seq(Entry), NEW batch \in Batches
  PROVE  Aged(q) \in Seq(Entry) /\ Arrive(Aged(q), batch) \in Seq(Entry)
<1>1. Aged(q) \in Seq(Entry)
  <2>1. ASSUME NEW i \in 1..Len(q)
        PROVE  [msg |-> q[i].msg, age |-> Smaller(q[i].age + 1, AgeCap)] \in Entry
    <3>1. q[i] \in Entry
      OBVIOUS
    <3>2. q[i].msg \in Messages /\ q[i].age \in 0..AgeCap
      BY <3>1 DEF Entry
    <3>3. Smaller(q[i].age + 1, AgeCap) \in 0..AgeCap
      BY <3>2, ConstantsAssumption DEF Smaller
    <3> QED
      BY <3>2, <3>3 DEF Entry
  <2> QED
    BY <2>1 DEF Aged
<1>2. batch \in Seq(Messages)
  BY MessagesAssumption
<1> DEFINE fresh == [i \in 1..Len(batch) |-> [msg |-> batch[i], age |-> 0]]
<1>3. fresh \in Seq(Entry)
  BY <1>2, ConstantsAssumption DEF Entry
<1> DEFINE all == Aged(q) \o fresh
<1>4. all \in Seq(Entry)
  BY <1>1, <1>3
<1>5. Smaller(Len(all), QueueCap) \in 0..Len(all)
  BY <1>4, ConstantsAssumption DEF Smaller
<1> HIDE DEF all
<1>6. SubSeq(all, 1, Smaller(Len(all), QueueCap)) \in Seq(Entry)
  BY <1>4, <1>5
<1> QED
  BY <1>1, <1>6 DEF Arrive, all

-----------------------------------------------------------------------------
(***************************************************************************)
(* Type correctness.                                                       *)
(***************************************************************************)
\* Exit leaves a process that is down and a successor's fresh memory.
LEMMA ExitType ==
  ASSUME TypeOK, NEW age \in 0..RESTART_SEC, Exit(age),
         router' \in {"up", "down"}, UNCHANGED <<fileKey, accepted>>
  PROVE  TypeOK'
<1>1. state' \in StateType
  BY InitialStateType DEF Exit, ResetMemory
<1>2. queue' \in Seq(Entry)
  BY DEF Exit
<1> QED
  BY <1>1, <1>2, ConstantsAssumption DEF TypeOK, Exit, ResetMemory, Entry, SystemIds

\* Receiving keeps target, state and queue well formed.
LEMMA IngestType ==
  ASSUME TypeOK, Ingest
  PROVE  /\ target' \in SystemIds \cup {0}
         /\ state' \in StateType
         /\ queue' \in Seq(Entry)
<1>1. queue \in Seq(Entry) /\ queue # << >>
  BY DEF TypeOK, Entry, Ingest
<1>2. Head(queue) \in Entry /\ Tail(queue) \in Seq(Entry)
  BY <1>1
<1> DEFINE m == Head(queue).msg
<1>3. m \in Messages
  BY <1>2 DEF Entry
<1>4. target' = LockOn(target, m) /\ UpdateState(m, LockOn(target, m))
  BY DEF Ingest
<1>5. state' \in StateType
  BY <1>3, <1>4, UpdateStateType DEF TypeOK
<1>6. target' \in SystemIds \cup {0}
  BY <1>3, <1>4, MessageSys DEF LockOn, TypeOK
<1> QED
  BY <1>2, <1>5, <1>6 DEF Ingest

\* Every variable keeps its type and its bound: counters saturate, hold-offs
\* stay natural, the queue holds messages of the bus.
THEOREM TypeCorrect == Spec => []TypeOK
<1>1. Init => TypeOK
  <2> SUFFICES ASSUME Init PROVE TypeOK
    OBVIOUS
  <2>1. state \in StateType
    BY InitialStateType DEF Init, FreshMemory
  <2> QED
    BY <2>1, ConstantsAssumption DEF Init, FreshMemory, TypeOK, SystemIds
<1>2. TypeOK /\ [Next]_vars => TypeOK'
  <2> SUFFICES ASSUME TypeOK, [Next]_vars PROVE TypeOK'
    OBVIOUS
  <2>q. queue \in Seq(Entry)
    BY DEF TypeOK, Entry
  <2>1. CASE Start
    BY <2>1 DEF Start, TypeOK, mem, env
  <2>2. CASE StartRefused
    <3>1. /\ Exit(0) /\ 0 \in 0..RESTART_SEC
          /\ router' \in {"up", "down"} /\ UNCHANGED <<fileKey, accepted>>
      BY <2>2, ConstantsAssumption DEF StartRefused, TypeOK, env
    <3> QED
      BY <3>1, ExitType
  <2>3. CASE Connect
    BY <2>3 DEF Connect, TypeOK, mem, env
  <2>4. CASE ConnectFails
    <3>1. /\ Exit(0) /\ 0 \in 0..RESTART_SEC
          /\ router' \in {"up", "down"} /\ UNCHANGED <<fileKey, accepted>>
      BY <2>4, ConstantsAssumption DEF ConnectFails, TypeOK, env
    <3> QED
      BY <3>1, ExitType
  <2>5. CASE WaitHeartbeat
    <3>1. Head(queue) \in Entry /\ Tail(queue) \in Seq(Entry)
      BY <2>q, <2>5 DEF WaitHeartbeat
    <3>2. Head(queue).msg \in Messages
      BY <3>1 DEF Entry
    <3>3. target' \in SystemIds \cup {0}
      BY <2>5, <3>2, MessageSys DEF WaitHeartbeat, LockOn, TypeOK
    <3> QED
      BY <2>5, <3>1, <3>3 DEF WaitHeartbeat, TypeOK, env, Entry
  <2>6. CASE Loop
    <3>1. Ingest
      BY <2>6 DEF Loop, LoopIdle, LoopGated, LoopPost
    <3>2. /\ target' \in SystemIds \cup {0}
          /\ state' \in StateType
          /\ queue' \in Seq(Entry)
      BY <3>1, IngestType
    <3> QED
      BY <2>6, <3>2, ConstantsAssumption
      DEF Loop, LoopIdle, LoopGated, LoopPost, TypeOK, env, Entry
  <2>7. CASE Reply200
    BY <2>7, ConstantsAssumption DEF Reply200, SendDone, TypeOK, Smaller, env
  <2>8. CASE Reply401
    <3>1. authFailCount' \in 1..AuthMax
      BY <2>8, ConstantsAssumption DEF Reply401, TypeOK, Smaller
    <3>2. holdOff' \in Nat
      BY <2>8, <3>1, BackoffBounds DEF Reply401
    <3> QED
      BY <2>8, <3>1, <3>2, ConstantsAssumption DEF Reply401, SendDone, TypeOK, Smaller, env
  <2>9. CASE ReplyOther
    BY <2>9, ConstantsAssumption DEF ReplyOther, SendDone, TypeOK, Smaller, env
  <2>10. CASE SendFails
    BY <2>10, ConstantsAssumption DEF SendFails, SendDone, TypeOK, Smaller, env
  <2>11. CASE SendCrashes
    <3>1. /\ Exit(0) /\ 0 \in 0..RESTART_SEC
          /\ router' \in {"up", "down"} /\ UNCHANGED <<fileKey, accepted>>
      BY <2>11, ConstantsAssumption DEF SendCrashes, TypeOK, env
    <3> QED
      BY <3>1, ExitType
  <2>12. ASSUME NEW batch \in Batches, Tick(batch) PROVE TypeOK'
    <3>1. queue' \in Seq(Entry)
      BY <2>q, <2>12, QueueType DEF Tick
    <3>2. postAge' \in 0..POST_MAX
      BY <2>12, ConstantsAssumption DEF Tick, CanWait, TypeOK
    <3> QED
      BY <2>12, <3>1, <3>2, ConstantsAssumption DEF Tick, TypeOK, Smaller, env, Entry
  <2>13. CASE RouterExit
    BY <2>13 DEF RouterExit, TypeOK, mem
  <2>14. CASE ConnectionReset
    <3>1. /\ Exit(0) /\ 0 \in 0..RESTART_SEC
          /\ router' \in {"up", "down"} /\ UNCHANGED <<fileKey, accepted>>
      BY <2>14, ConstantsAssumption DEF ConnectionReset, TypeOK, env
    <3> QED
      BY <3>1, ExitType
  <2>15. CASE RouterRestart
    <3>1. /\ Exit(RESTART_SEC) /\ RESTART_SEC \in 0..RESTART_SEC
          /\ router' \in {"up", "down"} /\ UNCHANGED <<fileKey, accepted>>
      BY <2>15, ConstantsAssumption DEF RouterRestart
    <3> QED
      BY <3>1, ExitType
  <2>16. CASE EditKey
    BY <2>16 DEF EditKey, TypeOK, mem
  <2>17. CASE CloudChangesKeys
    BY <2>17 DEF CloudChangesKeys, TypeOK, mem
  <2>18. CASE UNCHANGED vars
    BY <2>18 DEF vars, mem, env, TypeOK
  <2> QED
    BY <2>1, <2>2, <2>3, <2>4, <2>5, <2>6, <2>7, <2>8, <2>9, <2>10, <2>11, <2>12,
       <2>13, <2>14, <2>15, <2>16, <2>17, <2>18 DEF Next, PostEnds
<1> QED
  BY <1>1, <1>2, PTL DEF Spec

-----------------------------------------------------------------------------
(***************************************************************************)
(* Timing: the rate limit and the auth backoff.                            *)
(***************************************************************************)
\* The memory of a fresh process satisfies TimingInv.
LEMMA ExitTiming ==
  ASSUME NEW age, Exit(age)
  PROVE  TimingInv'
BY ConstantsAssumption DEF Exit, ResetMemory, TimingInv, SilenceBounded

\* A reply that leaves the auth counter alone keeps TimingInv: last_send takes
\* the time sampled before the POST, so it is no older than the POST's start.
LEMMA SendDoneTiming ==
  ASSUME TypeOK, TimingInv, NEW result, result # "ok", SendDone(result),
         UNCHANGED <<authFailCount, holdOff, quiet>>
  PROVE  TimingInv'
BY DEF TypeOK, TimingInv, SilenceBounded, SendDone

\* One second passing moves a tick from the hold-off to the quiet time.
LEMMA TickTiming ==
  ASSUME TypeOK, TimingInv, NEW batch \in Batches, Tick(batch)
  PROVE  TimingInv'
<1>1. ASSUME holdOff' > 0
      PROVE  authFailCount' > 0 /\ quiet' + holdOff' <= AUTH_BACKOFF_CAP
  BY <1>1, ConstantsAssumption DEF TypeOK, TimingInv, SilenceBounded, Tick, Smaller
<1>2. ASSUME authFailCount' > 0
      PROVE  quiet' + holdOff' >= Backoff(authFailCount')
  <2>1. authFailCount' = authFailCount /\ authFailCount \in 1..AuthMax
    BY <1>2 DEF Tick, TypeOK
  <2>2. quiet + holdOff >= Backoff(authFailCount)
    BY <2>1 DEF TimingInv
  <2>3. Backoff(authFailCount) \in Nat /\ Backoff(authFailCount) <= AUTH_BACKOFF_CAP
    BY <2>1, BackoffBounds
  <2>4. quiet' + holdOff' >= quiet + holdOff \/ quiet' + holdOff' >= AUTH_BACKOFF_CAP
    BY ConstantsAssumption DEF Tick, TypeOK, Smaller
  <2> QED
    BY <2>1, <2>2, <2>3, <2>4, ConstantsAssumption DEF Tick, TypeOK, Smaller
<1>3. pc' # "post" => sinceSend' <= gap'
  BY ConstantsAssumption DEF TypeOK, TimingInv, Tick, Smaller
<1>4. pc' = "post" => Smaller(postAge', SEND_INTERVAL) <= gap'
  BY ConstantsAssumption DEF TypeOK, TimingInv, Tick, Smaller
<1>5. outcome' = "ok" => authFailCount' = 0
  BY DEF TimingInv, Tick
<1> QED
  BY <1>1, <1>2, <1>3, <1>4, <1>5 DEF TimingInv, SilenceBounded

\* TimingInv is inductive relative to type correctness.
LEMMA TimingStep == TypeOK /\ TimingInv /\ [Next]_vars => TimingInv'
<1> SUFFICES ASSUME TypeOK, TimingInv, [Next]_vars PROVE TimingInv'
  OBVIOUS
<1>1. CASE Start
  BY <1>1 DEF Start, TimingInv, SilenceBounded, mem
<1>2. CASE StartRefused \/ ConnectFails \/ SendCrashes \/ ConnectionReset \/ RouterRestart
  BY <1>2, ExitTiming DEF StartRefused, ConnectFails, SendCrashes, ConnectionReset,
     RouterRestart
<1>3. CASE Connect
  BY <1>3 DEF Connect, TimingInv, SilenceBounded, mem
<1>4. CASE WaitHeartbeat
  BY <1>4 DEF WaitHeartbeat, TimingInv, SilenceBounded
<1>5. CASE Loop
  <2>1. CASE LoopIdle
    BY <1>5, <2>1 DEF LoopIdle, TimingInv, SilenceBounded
  <2>2. CASE LoopGated
    BY <1>5, <2>2 DEF LoopGated, Ingest, TimingInv, SilenceBounded, TypeOK
  <2>3. CASE LoopPost
    BY <1>5, <2>3, ConstantsAssumption DEF LoopPost, TimingInv, SilenceBounded, TypeOK, Smaller
  <2> QED
    BY <1>5, <2>1, <2>2, <2>3 DEF Loop
<1>6. CASE Reply200
  BY <1>6 DEF Reply200, SendDone, TimingInv, SilenceBounded
<1>7. CASE Reply401
  <2>1. authFailCount' \in 1..AuthMax
    BY <1>7, ConstantsAssumption DEF Reply401, TypeOK, Smaller
  <2>2. /\ Backoff(authFailCount') \in Nat
        /\ Backoff(authFailCount') <= AUTH_BACKOFF_CAP
    BY <2>1, BackoffBounds
  <2>3. quiet' = 0 /\ holdOff' = Backoff(authFailCount')
    BY <1>7 DEF Reply401
  <2>4. pc' # "post" /\ sinceSend' <= gap' /\ outcome' # "ok"
    BY <1>7 DEF Reply401, SendDone, TimingInv
  <2> QED
    BY <2>1, <2>2, <2>3, <2>4 DEF TimingInv, SilenceBounded
<1>8. CASE ReplyOther
  BY <1>8, SendDoneTiming DEF ReplyOther
<1>9. CASE SendFails
  BY <1>9, SendDoneTiming DEF SendFails
<1>10. ASSUME NEW batch \in Batches, Tick(batch) PROVE TimingInv'
  BY <1>10, TickTiming
<1>11. CASE RouterExit
  BY <1>11 DEF RouterExit, TimingInv, SilenceBounded, mem
<1>12. CASE EditKey \/ CloudChangesKeys
  BY <1>12 DEF EditKey, CloudChangesKeys, TimingInv, SilenceBounded, mem
<1>13. CASE UNCHANGED vars
  BY <1>13 DEF vars, mem, TimingInv, SilenceBounded
<1> QED
  BY <1>1, <1>2, <1>3, <1>4, <1>5, <1>6, <1>7, <1>8, <1>9, <1>10, <1>11, <1>12, <1>13
  DEF Next, PostEnds

\* Elapsed quiet time and remaining hold-off add up to the backoff imposed, and
\* last_send is never older than the last POST (send, 163-167; run, 188-208).
THEOREM TimingInvariant == Spec => []TimingInv
<1>1. Init => TimingInv
  BY ConstantsAssumption DEF Init, FreshMemory, TimingInv, SilenceBounded
<1> QED
  BY <1>1, TypeCorrect, TimingStep, PTL DEF Spec

\* A rejected key never silences the drone for longer than the cap, for every
\* cap, interval and length of POST (send, 163-167).
THEOREM SilenceIsBounded == Spec => []SilenceBounded
<1>1. TimingInv => SilenceBounded
  BY DEF TimingInv
<1> QED
  BY <1>1, TimingInvariant, PTL

\* Only the loop, past its two tests and the position gate, begins a POST.
LEMMA OnlyLoopPosts ==
  ASSUME Next, pc # "post", pc' = "post"
  PROVE  LoopPost
BY DEF Next, Start, StartRefused, Connect, ConnectFails, WaitHeartbeat, Loop,
   LoopIdle, LoopGated, PostEnds, Reply200, Reply401, ReplyOther, SendFails,
   SendCrashes, SendDone, Tick, RouterExit, ConnectionReset, RouterRestart,
   Exit, EditKey, CloudChangesKeys

\* No process begins two POSTs closer together than SEND_INTERVAL (run, 190-208).
THEOREM RateIsLimited == Spec => RateLimited
<1>1. TypeOK /\ TimingInv /\ [Next]_vars
        => [pc # "post" /\ pc' = "post" => gap >= SEND_INTERVAL]_vars
  <2> SUFFICES ASSUME TypeOK, TimingInv, Next, pc # "post", pc' = "post"
               PROVE  gap >= SEND_INTERVAL
    OBVIOUS
  <2> QED
    BY OnlyLoopPosts, ConstantsAssumption DEF LoopPost, SendDue, TypeOK, TimingInv
<1> QED
  BY <1>1, TypeCorrect, TimingInvariant, PTL DEF Spec, RateLimited

\* After the k-th rejection since the last 200 no POST begins before the k-th
\* backoff has passed, whatever else went wrong in between (run, 190).
THEOREM BackoffIsHonoured == Spec => BackoffHonoured
<1>1. TypeOK /\ TimingInv /\ [Next]_vars
        => [pc # "post" /\ pc' = "post" /\ authFailCount > 0
              => quiet >= Backoff(authFailCount)]_vars
  <2> SUFFICES ASSUME TypeOK, TimingInv, Next, pc # "post", pc' = "post",
                      authFailCount > 0
               PROVE  quiet >= Backoff(authFailCount)
    OBVIOUS
  <2>1. holdOff = 0
    BY OnlyLoopPosts DEF LoopPost, SendDue
  <2>2. quiet + holdOff >= Backoff(authFailCount)
    BY DEF TimingInv
  <2> QED
    BY <2>1, <2>2 DEF TypeOK
<1> QED
  BY <1>1, TypeCorrect, TimingInvariant, PTL DEF Spec, BackoffHonoured

\* Only a 401 makes the last outcome "auth".
LEMMA OnlyRejectionIsAuth ==
  ASSUME Next, outcome # "auth", outcome' = "auth"
  PROVE  Reply401
BY DEF Next, Start, StartRefused, Connect, ConnectFails, WaitHeartbeat, Loop,
   LoopIdle, LoopGated, LoopPost, PostEnds, Reply200, ReplyOther, SendFails,
   SendCrashes, SendDone, Tick, RouterExit, ConnectionReset, RouterRestart,
   Exit, ResetMemory, EditKey, CloudChangesKeys, mem

\* After a 200 the next rejection starts the backoff afresh (send, 160-166).
THEOREM BackoffDoesRestart == Spec => BackoffRestarts
<1>1. TypeOK /\ TimingInv /\ [Next]_vars
        => [outcome = "ok" /\ outcome' = "auth"
              => holdOff' = Smaller(AUTH_BACKOFF_CAP, Second)]_vars
  <2> SUFFICES ASSUME TypeOK, TimingInv, Next, outcome = "ok", outcome' = "auth"
               PROVE  holdOff' = Smaller(AUTH_BACKOFF_CAP, Second)
    OBVIOUS
  <2>1. Reply401
    BY OnlyRejectionIsAuth
  <2>2. authFailCount' = 1
    BY <2>1, ConstantsAssumption DEF Reply401, TimingInv, Smaller
  <2>3. 2^(1 - 1) * Second = Second
    BY ConstantsAssumption
  <2> QED
    BY <2>1, <2>2, <2>3 DEF Reply401, Backoff
<1> QED
  BY <1>1, TypeCorrect, TimingInvariant, PTL DEF Spec, BackoffRestarts

-----------------------------------------------------------------------------
(***************************************************************************)
(* Data: what a POST carries was said by the flight controller.            *)
(***************************************************************************)
\* The coordinates are the initial ones, or both from one report of sys.
PositionFrom(s, sys) ==
  \/ s.lat = InitialState.lat /\ s.lon = InitialState.lon
  \/ <<s.lat, s.lon>> \in Fixes(sys)

\* The fields Attributable speaks of, as one value.
Others(s) == <<s.armed, s.flight_mode, s.battery, s.voltage>>

\* The memory of a fresh process satisfies DataInv.
LEMMA InitialData ==
  ASSUME NEW sys
  PROVE  PositionFrom(InitialState, sys) /\ Attributable(InitialState, sys)
BY DEF PositionFrom, Attributable, InitialState

\* A state with the same other fields is as attributable.
LEMMA SameOthers ==
  ASSUME NEW s, NEW t, NEW sys, Attributable(s, sys), Others(s) = Others(t)
  PROVE  Attributable(t, sys)
<1>1. s.armed = t.armed /\ s.flight_mode = t.flight_mode
      /\ s.battery = t.battery /\ s.voltage = t.voltage
  BY DEF Others
<1> QED
  BY <1>1 DEF Attributable

\* Each branch of update_state keeps position and fields attributable (85-131).
LEMMA UpdateData ==
  ASSUME state \in StateType, NEW m \in Messages, NEW tgt, UpdateState(m, tgt),
         PositionFrom(state, tgt), Attributable(state, tgt)
  PROVE  PositionFrom(state', tgt) /\ Attributable(state', tgt)
<1>1. CASE UNCHANGED state
  BY <1>1
<1>2. CASE m.sys = tgt /\ OnPosition(m)
  <2>1. PICK la \in Microdegrees(m.lat), lo \in Microdegrees(m.lon) :
          state' = [state EXCEPT !.lat = IF la # 0 /\ lo # 0 THEN la ELSE @,
                                 !.lon = IF la # 0 /\ lo # 0 THEN lo ELSE @,
                                 !.alt = m.relative_alt, !.heading = m.hdg]
    BY <1>2, Zenon DEF OnPosition
  <2>2. Others(state) = Others(state')
    BY <2>1 DEF Others, StateType
  <2>3. CASE la # 0 /\ lo # 0
    <3>1. state'.lat = la /\ state'.lon = lo
      BY <2>1, <2>3 DEF StateType
    <3>2. m \in From(tgt, "GLOBAL_POSITION_INT")
      BY <1>2 DEF OnPosition, From
    <3>3. <<la, lo>> \in {p \in Microdegrees(m.lat) \X Microdegrees(m.lon) : p[1] # 0 /\ p[2] # 0}
      BY <2>3
    <3>4. <<la, lo>> \in Fixes(tgt)
      BY <3>2, <3>3, Zenon DEF Fixes
    <3> QED
      BY <2>2, <3>1, <3>4, SameOthers DEF PositionFrom
  <2>4. CASE ~(la # 0 /\ lo # 0)
    <3>1. state'.lat = state.lat /\ state'.lon = state.lon
      BY <2>1, <2>4 DEF StateType
    <3> QED
      BY <2>2, <3>1, SameOthers DEF PositionFrom
  <2> QED
    BY <2>3, <2>4
<1>3. CASE m.sys = tgt /\ OnHeartbeat(m)
  <2>1. state' = [state EXCEPT !.armed = m.armed, !.flight_mode = m.mode]
    BY <1>3 DEF OnHeartbeat
  <2>2. /\ state'.lat = state.lat /\ state'.lon = state.lon
        /\ state'.battery = state.battery /\ state'.voltage = state.voltage
        /\ state'.armed = m.armed /\ state'.flight_mode = m.mode
    BY <2>1 DEF StateType
  <2>3. m \in From(tgt, "HEARTBEAT")
    BY <1>3 DEF OnHeartbeat, From
  <2> QED
    BY <2>2, <2>3 DEF PositionFrom, Attributable
<1>4. CASE m.sys = tgt /\ OnSysStatus(m)
  <2> DEFINE b == IF m.battery_remaining >= 0 THEN 10 * m.battery_remaining ELSE state.battery
             v == IF m.voltage_battery # UINT16_MAX THEN m.voltage_battery ELSE state.voltage
  <2>1. state' = [state EXCEPT !.battery = b, !.voltage = v]
    BY <1>4, Zenon DEF OnSysStatus
  <2> HIDE DEF b, v
  <2>2. /\ state'.lat = state.lat /\ state'.lon = state.lon
        /\ state'.battery = b /\ state'.voltage = v
        /\ state'.armed = state.armed /\ state'.flight_mode = state.flight_mode
    BY <2>1 DEF StateType
  <2>3. m \in From(tgt, "SYS_STATUS")
    BY <1>4 DEF OnSysStatus, From
  <2>4. \/ b = state.battery
        \/ m.battery_remaining >= 0 /\ b = 10 * m.battery_remaining
    BY DEF b
  <2>5. \/ v = state.voltage
        \/ m.voltage_battery # UINT16_MAX /\ v = m.voltage_battery
    BY DEF v
  <2> QED
    BY <2>2, <2>3, <2>4, <2>5 DEF PositionFrom, Attributable
<1>5. CASE OnVfrHud(m)
  <2>1. state'.lat = state.lat /\ state'.lon = state.lon /\ Others(state) = Others(state')
    BY <1>5 DEF OnVfrHud, StateType, Others
  <2> QED
    BY <2>1, SameOthers DEF PositionFrom
<1>6. CASE OnGpsRaw(m)
  <2>1. state'.lat = state.lat /\ state'.lon = state.lon /\ Others(state) = Others(state')
    BY <1>6 DEF OnGpsRaw, StateType, Others
  <2> QED
    BY <2>1, SameOthers DEF PositionFrom
<1>7. CASE OnOther(m)
  BY <1>1, <1>7 DEF OnOther
<1>8. CASE m.sys = tgt /\ ByType(m)
  BY <1>2, <1>3, <1>4, <1>5, <1>6, <1>7, <1>8 DEF ByType
<1> QED
  BY <1>1, <1>8 DEF UpdateState

\* Receiving: before lock-on nothing is stored, afterwards the target stays.
LEMMA IngestData ==
  ASSUME TypeOK, DataInv, Ingest
  PROVE  /\ target' = 0 => state' = InitialState
         /\ PositionFrom(state', target')
         /\ Attributable(state', target')
<1>1. queue \in Seq(Entry) /\ queue # << >>
  BY DEF TypeOK, Entry, Ingest
<1> DEFINE m == Head(queue).msg
<1>2. m \in Messages
  <2>1. Head(queue) \in Entry
    BY <1>1
  <2> QED
    BY <2>1 DEF Entry
<1>3. target' = LockOn(target, m) /\ UpdateState(m, LockOn(target, m))
  BY DEF Ingest
<1> HIDE DEF m
<1>4. target' = target \/ target = 0
  BY <1>3 DEF LockOn
<1>5. PositionFrom(state, target') /\ Attributable(state, target')
  <2>1. CASE target' = target
    BY <2>1 DEF DataInv, PositionFrom
  <2>2. CASE target = 0
    BY <2>2, InitialData DEF DataInv
  <2> QED
    BY <1>4, <2>1, <2>2
<1>6. PositionFrom(state', target') /\ Attributable(state', target')
  BY <1>2, <1>3, <1>5, UpdateData DEF TypeOK
<1>7. ASSUME target' = 0 PROVE state' = InitialState
  <2>1. m.sys # 0
    BY <1>2, MessageSys DEF SystemIds
  <2>2. target = 0
    BY <1>3, <1>7, <2>1 DEF LockOn
  <2>3. UNCHANGED state
    BY <1>3, <1>7, <2>1 DEF UpdateState
  <2> QED
    BY <2>2, <2>3 DEF DataInv
<1> QED
  BY <1>6, <1>7

\* A step that leaves target and state alone and begins no POST keeps DataInv.
LEMMA DataUntouched ==
  ASSUME DataInv, UNCHANGED <<target, state>>, pc' = "post" => pc = "post"
  PROVE  DataInv'
<1>1. target' = target /\ state' = state
  OBVIOUS
<1> QED
  BY <1>1 DEF DataInv, HasPosition

\* DataInv is inductive relative to type correctness.
LEMMA DataStep == TypeOK /\ DataInv /\ [Next]_vars => DataInv'
<1> SUFFICES ASSUME TypeOK, DataInv, [Next]_vars PROVE DataInv'
  OBVIOUS
<1>1. CASE StartRefused \/ ConnectFails \/ SendCrashes \/ ConnectionReset \/ RouterRestart
  <2>1. target' = 0 /\ state' = InitialState /\ pc' # "post"
    BY <1>1 DEF StartRefused, ConnectFails, SendCrashes, ConnectionReset, RouterRestart,
       Exit, ResetMemory
  <2> QED
    BY <2>1, InitialData DEF DataInv, PositionFrom
<1>2. CASE WaitHeartbeat
  <2>1. state' = state /\ pc' # "post" /\ pc = "heartbeat"
    BY <1>2 DEF WaitHeartbeat
  <2>2. target' = target \/ target = 0
    BY <1>2 DEF WaitHeartbeat, LockOn
  <2>3. CASE target' = target
    BY <2>1, <2>3, DataUntouched
  <2>4. CASE target = 0
    <3>1. state' = InitialState
      BY <2>1, <2>4 DEF DataInv
    <3> QED
      BY <2>1, <3>1, InitialData DEF DataInv, PositionFrom
  <2> QED
    BY <2>2, <2>3, <2>4
<1>3. CASE Loop
  <2>1. Ingest /\ (pc' = "post" => HasPosition(state'))
    BY <1>3 DEF Loop, LoopIdle, LoopGated, LoopPost, Ingest
  <2>2. /\ target' = 0 => state' = InitialState
        /\ PositionFrom(state', target')
        /\ Attributable(state', target')
    BY <2>1, IngestData
  <2>3. HasPosition(state)' <=> HasPosition(state')
    BY DEF HasPosition
  <2> QED
    BY <2>1, <2>2, <2>3 DEF DataInv, PositionFrom
<1>4. CASE Start \/ Connect \/ RouterExit \/ EditKey \/ CloudChangesKeys \/ UNCHANGED vars
  BY <1>4, DataUntouched DEF Start, Connect, RouterExit, EditKey, CloudChangesKeys, vars, mem
<1>5. CASE Reply200 \/ Reply401 \/ ReplyOther \/ SendFails
  BY <1>5, DataUntouched DEF Reply200, Reply401, ReplyOther, SendFails, SendDone
<1>6. ASSUME NEW batch \in Batches, Tick(batch) PROVE DataInv'
  BY <1>6, DataUntouched DEF Tick
<1> QED
  BY <1>1, <1>2, <1>3, <1>4, <1>5, <1>6 DEF Next, PostEnds

\* What is stored is the locked-on system's at every moment, and nothing is stored
\* before there is one (update_state, 70-131).
THEOREM DataInvariant == Spec => []DataInv
<1>1. Init => DataInv
  BY InitialData DEF Init, FreshMemory, DataInv, PositionFrom
<1> QED
  BY <1>1, TypeCorrect, DataStep, PTL DEF Spec

\* The position POSTed is one a single report of the flight controller carried,
\* or the override's, for every set of messages (run, 191-200).
THEOREM PositionIsReported == Spec => []PositionReported
<1>1. TypeOK /\ DataInv => PositionReported
  <2> SUFFICES ASSUME TypeOK, DataInv, pc = "post"
               PROVE  \/ <<state.lat, state.lon>> \in Fixes(target)
                      \/ BYPASS_GPS_GATE /\ <<state.lat, state.lon>> = <<DevLat, DevLon>>
    BY DEF PositionReported, BuildPayload, TypeOK, StateType
  <2>1. state.lat # None
    BY DEF DataInv, HasPosition
  <2>2. CASE state.lat = InitialState.lat /\ state.lon = InitialState.lon
    <3>1. BYPASS_GPS_GATE
      BY <2>1, <2>2 DEF InitialState
    <3> QED
      BY <2>2, <3>1 DEF InitialState
  <2> QED
    BY <2>2 DEF DataInv
<1> QED
  BY <1>1, TypeCorrect, DataInvariant, PTL

\* Every other field POSTed is initial or was sent by the flight controller, and
\* no sentinel among them (update_state, 82-116).
THEOREM PayloadIsAttributable == Spec => []PayloadAttributable
<1>1. TypeOK /\ DataInv => PayloadAttributable
  <2> SUFFICES ASSUME TypeOK, DataInv
               PROVE  Attributable(BuildPayload(state), target)
    BY DEF PayloadAttributable
  <2>1. Others(state) = Others(BuildPayload(state))
    BY DEF BuildPayload, Others, TypeOK, StateType
  <2> QED
    BY <2>1, SameOthers DEF DataInv
<1> QED
  BY <1>1, TypeCorrect, DataInvariant, PTL

-----------------------------------------------------------------------------
(***************************************************************************)
(* Lag: how old the messages in the socket can be.                         *)
(***************************************************************************)
\* One place further up in the socket is one POST less to wait.
LEMMA LagStep ==
  ASSUME NEW i \in 1..QueueCap
  PROVE  Lag(i) \in Nat /\ Lag(i + 1) \in Nat /\ Lag(i) = Lag(i + 1) + POST_MAX
<1>1. PICK k \in Nat : k = QueueCap - i
  BY ConstantsAssumption
<1>2. QueueCap - i + 1 = k + 1 /\ QueueCap - (i + 1) + 1 = k
  BY <1>1, ConstantsAssumption
<1>3. PICK x \in Nat : x = k * POST_MAX
  BY ConstantsAssumption
<1>4. (k + 1) * POST_MAX = x + POST_MAX
  BY <1>3, ConstantsAssumption
<1>5. Lag(i) = x + POST_MAX /\ Lag(i + 1) = x
  BY <1>2, <1>3, <1>4 DEF Lag
<1> QED
  BY <1>3, <1>5, ConstantsAssumption

\* LagBounded, and its strengthening during a POST of age a, of any queue.
Waited(q) == \A i \in 1..Len(q) : q[i].age <= Lag(i)
WaitedFor(q, a) == \A i \in 1..Len(q) : q[i].age <= Lag(i + 1) + a

\* Reading the oldest message moves the others up: they are then within the
\* bound that holds at the start of a POST.
LEMMA TailWaited ==
  ASSUME NEW q \in Seq(Entry), q # << >>, Len(q) <= QueueCap, Waited(q)
  PROVE  /\ Tail(q) \in Seq(Entry)
         /\ Len(Tail(q)) <= QueueCap
         /\ WaitedFor(Tail(q), 0)
         /\ Waited(Tail(q))
<1>1. PICK n \in Nat : n = Len(q) /\ n <= QueueCap
  OBVIOUS
<1>2. Tail(q) \in Seq(Entry) /\ Len(Tail(q)) = n - 1
      /\ \A i \in 1..(n - 1) : Tail(q)[i] = q[i + 1]
  BY <1>1
<1>3. ASSUME NEW i \in 1..(n - 1)
      PROVE  Tail(q)[i].age <= Lag(i + 1) + 0 /\ Tail(q)[i].age <= Lag(i)
  <2>1. i + 1 \in 1..n /\ i \in 1..QueueCap
    BY <1>1, ConstantsAssumption
  <2>2. PICK j \in 1..n : j = i + 1
    BY <2>1
  <2>3. q[j] \in Entry
    BY <1>1
  <2>4. q[j].age \in Nat
    BY <2>3, ConstantsAssumption DEF Entry
  <2>5. q[j].age <= Lag(j)
    BY <1>1 DEF Waited
  <2>6. Lag(i) \in Nat /\ Lag(j) \in Nat /\ Lag(i) = Lag(j) + POST_MAX
    BY <2>1, <2>2, LagStep
  <2>7. Tail(q)[i] = q[j]
    BY <1>2, <2>2
  <2>8. PICK x \in Nat, y \in Nat, z \in Nat : x = q[j].age /\ y = Lag(j) /\ z = Lag(i)
    BY <2>4, <2>6
  <2>9. x <= y /\ z = y + POST_MAX
    BY <2>5, <2>6, <2>8
  <2>10. x <= y + 0 /\ x <= z
    BY <2>9, ConstantsAssumption
  <2> QED
    BY <2>2, <2>7, <2>8, <2>10
<1>4. n - 1 <= QueueCap
  BY <1>1, ConstantsAssumption
<1> QED
  BY <1>2, <1>3, <1>4 DEF Waited, WaitedFor

\* A tick keeps the socket within its capacity; what it brings is new, what was
\* there is one tick older.
LEMMA ArriveAges ==
  ASSUME NEW q \in Seq(Entry), NEW batch \in Batches, Len(q) <= QueueCap
  PROVE  /\ Len(Aged(q)) = Len(q)
         /\ \A i \in 1..Len(q) : Aged(q)[i].age <= q[i].age + 1
         /\ Len(Arrive(Aged(q), batch)) <= QueueCap
         /\ \A i \in 1..Len(Arrive(Aged(q), batch)) :
              \/ i \in 1..Len(q) /\ Arrive(Aged(q), batch)[i].age <= q[i].age + 1
              \/ Arrive(Aged(q), batch)[i].age = 0
<1>1. PICK n \in Nat : n = Len(q)
  OBVIOUS
<1>2. PICK old : old = Aged(q)
  OBVIOUS
<1>3. old \in Seq(Entry)
  BY <1>2, QueueType
<1>4. Len(old) = n
  BY <1>1, <1>2 DEF Aged
<1>5. ASSUME NEW i \in 1..n PROVE old[i].age <= q[i].age + 1
  <2>1. q[i] \in Entry
    BY <1>1
  <2>2. q[i].age \in Nat
    BY <2>1, ConstantsAssumption DEF Entry
  <2>3. old[i].age = Smaller(q[i].age + 1, AgeCap)
    BY <1>1, <1>2 DEF Aged
  <2> QED
    BY <2>2, <2>3, ConstantsAssumption DEF Smaller
<1>6. batch \in Seq(Messages)
  BY MessagesAssumption
<1>7. PICK b \in Nat : b = Len(batch)
  BY <1>6
<1>8. PICK fresh : fresh = [i \in 1..Len(batch) |-> [msg |-> batch[i], age |-> 0]]
  OBVIOUS
<1>9. fresh \in Seq(Entry) /\ Len(fresh) = b /\ \A i \in 1..b : fresh[i].age = 0
  BY <1>6, <1>7, <1>8, ConstantsAssumption DEF Entry
<1>10. PICK all : all = old \o fresh
  OBVIOUS
<1>11. /\ all \in Seq(Entry) /\ Len(all) = n + b
       /\ \A i \in 1..(n + b) : all[i] = IF i <= n THEN old[i] ELSE fresh[i - n]
  BY <1>3, <1>4, <1>9, <1>10
<1>12. PICK k \in Nat : k = Smaller(n + b, QueueCap) /\ k <= n + b /\ k <= QueueCap
  BY ConstantsAssumption DEF Smaller
<1>13. PICK arr : arr = SubSeq(all, 1, k)
  OBVIOUS
<1>14. Len(arr) = k /\ \A i \in 1..k : arr[i] = all[i]
  BY <1>11, <1>12, <1>13
<1>15. Arrive(old, batch) = arr
  BY <1>8, <1>10, <1>11, <1>12, <1>13 DEF Arrive
<1>16. ASSUME NEW i \in 1..k
       PROVE  \/ i \in 1..n /\ arr[i].age <= q[i].age + 1
              \/ arr[i].age = 0
  <2>1. i \in 1..(n + b) /\ arr[i] = all[i]
    BY <1>12, <1>14
  <2>2. CASE i <= n
    <3>1. i \in 1..n /\ arr[i] = old[i]
      BY <1>11, <2>1, <2>2
    <3> QED
      BY <1>5, <3>1
  <2>3. CASE ~(i <= n)
    <3>1. PICK j \in 1..b : j = i - n
      BY <2>1, <2>3
    <3>2. arr[i] = fresh[j]
      BY <1>11, <2>1, <2>3, <3>1
    <3> QED
      BY <1>9, <3>2
  <2> QED
    BY <2>2, <2>3
<1> QED
  BY <1>1, <1>2, <1>4, <1>5, <1>12, <1>14, <1>15, <1>16

\* A tick before or between POSTs finds the socket empty.
LEMMA TickEmpty ==
  ASSUME NEW batch \in Batches
  PROVE  /\ Aged(<< >>) = << >>
         /\ Len(Arrive(Aged(<< >>), batch)) <= QueueCap
         /\ Waited(Arrive(Aged(<< >>), batch))
<1>1. << >> \in Seq(Entry) /\ Len(<< >>) = 0 /\ 0 <= QueueCap
  BY ConstantsAssumption
<1>2. PICK e : e = << >>
  OBVIOUS
<1>3. PICK arr : arr = Arrive(Aged(e), batch)
  OBVIOUS
<1>4. Len(arr) <= QueueCap /\ \A i \in 1..Len(arr) : i \in 1..0 \/ arr[i].age = 0
  BY <1>1, <1>2, <1>3, ArriveAges
<1>5. arr \in Seq(Entry)
  BY <1>1, <1>2, <1>3, QueueType
<1>6. ASSUME NEW i \in 1..Len(arr) PROVE arr[i].age <= Lag(i)
  <2>1. i \in 1..QueueCap
    BY <1>4, <1>5, ConstantsAssumption
  <2>2. Lag(i) \in Nat
    BY <2>1, LagStep
  <2>3. i \notin 1..0
    OBVIOUS
  <2>4. arr[i].age = 0
    BY <1>4, <2>3
  <2> QED
    BY <2>2, <2>4
<1>7. Waited(arr)
  BY <1>6 DEF Waited
<1>8. Aged(<< >>) = << >>
  BY DEF Aged
<1> QED
  BY <1>2, <1>3, <1>4, <1>7, <1>8

\* A tick of a POST: the bound grows with the POST's age.
LEMMA TickPost ==
  ASSUME NEW q \in Seq(Entry), NEW batch \in Batches, NEW a \in Nat,
         Len(q) <= QueueCap, WaitedFor(q, a)
  PROVE  /\ Len(Aged(q)) <= QueueCap
         /\ WaitedFor(Aged(q), a + 1)
         /\ Len(Arrive(Aged(q), batch)) <= QueueCap
         /\ WaitedFor(Arrive(Aged(q), batch), a + 1)
<1>1. PICK old, arr : old = Aged(q) /\ arr = Arrive(Aged(q), batch)
  OBVIOUS
<1>2. old \in Seq(Entry) /\ arr \in Seq(Entry)
  BY <1>1, QueueType
<1>3. /\ Len(old) = Len(q)
      /\ \A i \in 1..Len(q) : old[i].age <= q[i].age + 1
      /\ Len(arr) <= QueueCap
      /\ \A i \in 1..Len(arr) :
           (i \in 1..Len(q) /\ arr[i].age <= q[i].age + 1) \/ arr[i].age = 0
  BY <1>1, ArriveAges
<1>4. ASSUME NEW i \in 1..Len(q), NEW x \in Nat, x <= q[i].age + 1
      PROVE  x <= Lag(i + 1) + (a + 1)
  <2>1. i \in 1..QueueCap
    BY ConstantsAssumption
  <2>2. Lag(i + 1) \in Nat
    BY <2>1, LagStep
  <2>3. q[i] \in Entry
    OBVIOUS
  <2>4. q[i].age \in Nat
    BY <2>3, ConstantsAssumption DEF Entry
  <2>5. q[i].age <= Lag(i + 1) + a
    BY DEF WaitedFor
  <2> QED
    BY <1>4, <2>2, <2>4, <2>5
<1>5. WaitedFor(old, a + 1)
  <2>1. ASSUME NEW i \in 1..Len(old) PROVE old[i].age <= Lag(i + 1) + (a + 1)
    <3>1. i \in 1..Len(q) /\ old[i].age <= q[i].age + 1
      BY <1>3
    <3>2. old[i] \in Entry
      BY <1>2
    <3>3. old[i].age \in Nat
      BY <3>2, ConstantsAssumption DEF Entry
    <3> QED
      BY <1>4, <3>1, <3>3
  <2> QED
    BY <2>1 DEF WaitedFor
<1>6. WaitedFor(arr, a + 1)
  <2>1. ASSUME NEW i \in 1..Len(arr) PROVE arr[i].age <= Lag(i + 1) + (a + 1)
    <3>1. arr[i] \in Entry
      BY <1>2
    <3>2. arr[i].age \in Nat
      BY <3>1, ConstantsAssumption DEF Entry
    <3>3. CASE i \in 1..Len(q) /\ arr[i].age <= q[i].age + 1
      BY <1>4, <3>2, <3>3
    <3>4. CASE arr[i].age = 0
      <4>1. i \in 1..QueueCap
        BY <1>2, <1>3, ConstantsAssumption
      <4>2. Lag(i + 1) \in Nat
        BY <4>1, LagStep
      <4> QED
        BY <3>4, <4>2
    <3> QED
      BY <1>3, <3>3, <3>4
  <2> QED
    BY <2>1 DEF WaitedFor
<1> QED
  BY <1>1, <1>3, <1>5, <1>6

\* LagInv in terms of the operators above.
LEMMA LagInvIs ==
  LagInv <=> /\ pc \in {"down", "connect"} => queue = << >> /\ conn = "none"
             /\ Len(queue) <= QueueCap
             /\ pc # "post" => Waited(queue)
             /\ pc = "post" => WaitedFor(queue, postAge)
BY DEF LagInv, LagBounded, Waited, WaitedFor

\* LagInv is inductive relative to type correctness.
LEMMA LagPreserved ==
  ASSUME TypeOK, LagInv, [Next]_vars
  PROVE  LagInv'
<1> DEFINE I(p, c, q, a) == /\ p \in {"down", "connect"} => q = << >> /\ c = "none"
                            /\ Len(q) <= QueueCap
                            /\ p # "post" => Waited(q)
                            /\ p = "post" => WaitedFor(q, a)
<1>q. queue \in Seq(Entry)
  BY DEF TypeOK, Entry
<1>i. I(pc, conn, queue, postAge)
  BY LagInvIs
<1>s. SUFFICES I(pc', conn', queue', postAge')
  BY DEF LagInv, LagBounded, Waited, WaitedFor
<1>e. Waited(<< >>) /\ Len(<< >>) <= QueueCap
  BY ConstantsAssumption DEF Waited
<1>1. CASE StartRefused \/ ConnectFails \/ SendCrashes \/ ConnectionReset \/ RouterRestart
  <2>1. pc' = "down" /\ queue' = << >> /\ conn' = "none"
    BY <1>1 DEF StartRefused, ConnectFails, SendCrashes, ConnectionReset, RouterRestart, Exit
  <2> QED
    BY <1>e, <2>1
<1>2. CASE Start
  BY <1>i, <1>2 DEF Start
<1>3. CASE Connect
  <2>1. pc' = "heartbeat" /\ queue' = << >>
    BY <1>i, <1>3 DEF Connect
  <2> QED
    BY <1>e, <2>1
<1>4. CASE WaitHeartbeat
  <2>1. pc = "heartbeat" /\ pc' \in {"heartbeat", "recv"} /\ queue # << >> /\ queue' = Tail(queue)
    BY <1>4 DEF WaitHeartbeat
  <2>2. Len(Tail(queue)) <= QueueCap /\ Waited(Tail(queue))
    BY <1>q, <1>i, <2>1, TailWaited
  <2> QED
    BY <2>1, <2>2
<1>5. CASE Loop
  <2>1. /\ pc = "recv" /\ queue' = Tail(queue) /\ queue # << >>
        /\ pc' = "recv" \/ (pc' = "post" /\ postAge' = 0)
    BY <1>5 DEF Loop, LoopIdle, LoopGated, LoopPost, Ingest
  <2>2. /\ Len(Tail(queue)) <= QueueCap /\ Waited(Tail(queue))
        /\ WaitedFor(Tail(queue), 0)
    BY <1>q, <1>i, <2>1, TailWaited
  <2> QED
    BY <2>1, <2>2
<1>6. CASE Reply200 \/ Reply401 \/ ReplyOther \/ SendFails
  <2>1. pc = "post" /\ pc' = "recv" /\ queue' = queue
    BY <1>6 DEF Reply200, Reply401, ReplyOther, SendFails, SendDone
  <2>2. Len(queue) <= QueueCap /\ WaitedFor(queue, postAge)
    BY <1>i, <2>1
  <2>3. ASSUME NEW i \in 1..Len(queue) PROVE queue[i].age <= Lag(i)
    <3>1. i \in 1..QueueCap
      BY <1>q, <2>2, ConstantsAssumption
    <3>2. Lag(i) \in Nat /\ Lag(i + 1) \in Nat /\ Lag(i) = Lag(i + 1) + POST_MAX
      BY <3>1, LagStep
    <3>3. queue[i] \in Entry
      BY <1>q
    <3>4. queue[i].age \in Nat
      BY <3>3, ConstantsAssumption DEF Entry
    <3>5. postAge \in Nat /\ postAge <= POST_MAX
      BY ConstantsAssumption DEF TypeOK
    <3>6. queue[i].age <= Lag(i + 1) + postAge
      BY <2>2 DEF WaitedFor
    <3> QED
      BY <3>2, <3>4, <3>5, <3>6, ConstantsAssumption
  <2>4. Waited(queue)
    BY <2>3 DEF Waited
  <2> QED
    BY <2>1, <2>2, <2>4
<1>7. ASSUME NEW batch \in Batches, Tick(batch) PROVE I(pc', conn', queue', postAge')
  <2>1. pc' = pc /\ conn' = conn
        /\ queue' = IF conn = "open" THEN Arrive(Aged(queue), batch) ELSE Aged(queue)
    BY <1>7 DEF Tick
  <2>2. CASE pc = "post"
    <3>1. postAge' = postAge + 1 /\ postAge \in Nat
      BY <1>7, <2>2, ConstantsAssumption DEF Tick, TypeOK
    <3>2. /\ Len(Aged(queue)) <= QueueCap
          /\ WaitedFor(Aged(queue), postAge + 1)
          /\ Len(Arrive(Aged(queue), batch)) <= QueueCap
          /\ WaitedFor(Arrive(Aged(queue), batch), postAge + 1)
      BY <1>q, <1>i, <2>2, <3>1, TickPost
    <3> QED
      BY <2>1, <2>2, <3>1, <3>2
  <2>3. CASE pc # "post"
    <3>1. queue = << >> /\ (pc = "down" => conn = "none") /\ pc # "connect"
      BY <1>7, <1>i, <2>3 DEF Tick, CanWait
    <3>2. /\ Aged(<< >>) = << >>
          /\ Len(Arrive(Aged(<< >>), batch)) <= QueueCap
          /\ Waited(Arrive(Aged(<< >>), batch))
      BY TickEmpty
    <3> QED
      BY <1>e, <2>1, <2>3, <3>1, <3>2
  <2> QED
    BY <2>2, <2>3
<1>8. CASE RouterExit
  BY <1>i, <1>8 DEF RouterExit, mem
<1>9. CASE EditKey \/ CloudChangesKeys \/ UNCHANGED vars
  BY <1>i, <1>9 DEF EditKey, CloudChangesKeys, vars, mem
<1> QED
  BY <1>1, <1>2, <1>3, <1>4, <1>5, <1>6, <1>7, <1>8, <1>9 DEF Next, PostEnds

\* For POSTs of any length and a socket of any size, no message waits for more than
\* one POST per place in the socket, however messages, answers, backoffs and
\* restarts interleave (run, 183-208).
THEOREM LagIsBounded == Spec => []LagBounded
<1>1. Init => LagInv
  <2> SUFFICES ASSUME Init PROVE LagInv
    OBVIOUS
  <2>1. pc = "down" /\ queue = << >> /\ conn = "none"
    BY DEF Init
  <2> QED
    BY <2>1, ConstantsAssumption DEF LagInv, LagBounded
<1>2. TypeOK /\ LagInv /\ [Next]_vars => LagInv'
  BY LagPreserved
<1>3. TypeOK /\ LagInv => LagBounded
  <2> SUFFICES ASSUME TypeOK, LagInv, NEW i \in 1..Len(queue)
               PROVE  queue[i].age <= Lag(i)
    BY DEF LagBounded
  <2>1. CASE pc # "post"
    BY <2>1 DEF LagInv, LagBounded
  <2>2. CASE pc = "post"
    <3>1. queue \in Seq(Entry) /\ postAge \in Nat /\ postAge <= POST_MAX
      BY ConstantsAssumption DEF TypeOK, Entry
    <3>2. i \in 1..QueueCap /\ queue[i].age <= Lag(i + 1) + postAge
      BY <2>2, <3>1, ConstantsAssumption DEF LagInv
    <3>3. Lag(i) \in Nat /\ Lag(i + 1) \in Nat /\ Lag(i) = Lag(i + 1) + POST_MAX
      BY <3>2, LagStep
    <3>4. queue[i] \in Entry
      BY <3>1
    <3>5. queue[i].age \in Nat
      BY <3>4, ConstantsAssumption DEF Entry
    <3> QED
      BY <3>1, <3>2, <3>3, <3>5, ConstantsAssumption
  <2> QED
    BY <2>1, <2>2
<1> QED
  BY <1>1, <1>2, <1>3, TypeCorrect, PTL DEF Spec
=============================================================================
