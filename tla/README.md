# Specter onboard: TLA+ models, checks and proofs

This directory is a verification development for the software of a Specter
drone's companion computer: a telemetry sender in Python, runtime shell scripts
under systemd, the installer and updater that put them on the board, and the
parts of the vendored WiFi driver that the link to the ground station depends
on. The modules are translated from the sources; `PROJECT.json` names, for every
definition, the lines it stands for.

## 1. The system

| Component | State | Operations | Interacts with |
|---|---|---|---|
| `src/telemetry_sender.py` | the state dictionary, `fail_count`, `auth_fail_count`, `last_send`, `next_send_after`, the API key in the HTTP client, the MAVLink connection and its `target_system` | start or refuse, connect, wait for a heartbeat, receive and apply a message, gate, POST, handle its answer | mavlink-router over TCP, the cloud over HTTPS, systemd |
| `systemd/*.service` | running, waiting for `RestartSec` | start, restart, propagate a restart along `Requires=` | every runtime script |
| `scripts/wifi-start.sh` | position in the script, hostapd, dnsmasq | wait for the dongle, configure it, start the daemons, wait for one to end | dongle, hostapd, dnsmasq, systemd |
| `scripts/camera-relay.sh` | position in the script, the two pipelines, the retry loop | start pipelines, retry the cloud's, wait for the ground station's | camera, GStreamer, systemd |
| `install.sh` | arguments, selection, result per module, `/etc/specter/installed-profile` | parse, select, run setup scripts, record, summarise | setup scripts, later `update.sh` |
| `scripts/setup_*.sh` | files under `/opt/specter`, `/etc`, enabled units | install packages, copy, render, enable, start | `install.sh`, systemd |
| `update.sh` | the same files | copy and render the recorded profile's modules, restart them | the record, systemd |
| mavlink-router | a third-party binary in `bin/` | route, exit, restart | the sender |
| driver: receive reordering (`core/rtw_recv.c`) | per station and traffic class: window start, list of held frames, timer, agreement | receive a frame, BAR, ADDBA, DELBA; timer | network stack, station, command thread |
| driver: power save of the access point (`core/rtw_xmit.c`, `rtw_recv.c`, `rtw_ap.c`) | per station: sleep flags, TIM bit, lists of held frames and their counters | transmit, doze, wake, PS-Poll, trigger, aging | beacon, station, transmit tasklet |
| driver: command thread (`core/rtw_cmd.c`) | queue, semaphore, command objects, contexts on callers' stacks | submit, wait, give up, run, drop, start, stop | every part of the driver that touches the chip at length |
| `scripts/build_mavlink_router.sh`, `config/`, `profiles/`, `tests/`, the rest of `drivers/rtl88x2CU` | - | see "Not modelled" | |

What is hard here is little code in many orders: messages of several nodes
interleaved on one bus; POSTs that take longer than the interval at which they
are due, and end in any of six ways; a backoff that has to survive other
failures and to end; a blocking read that only a restart ends; two children of
which either can end at any moment around a `wait`; and scripts that can be cut
off between any two commands, on a disk that later scripts believe. In the driver
it is shared memory: a tasklet, a timer, a thread and system calls that meet in
one structure, some under a lock, some not, on a board with several processors.

What makes each part correct:

- sender: what is sent is the flight controller's and consistent; the cloud is
  not called too often, nor too early after a rejection; it is called again and
  again, and telemetry resumes once the key is accepted;
- installer and updater: the summary is honest, a finished update is complete
  and stays inside the profile, the profile on record is what is installed;
- runtime scripts: what serves is left alone, an outage is bounded, one half
  failing does not take the other down or leave it alone for ever;
- driver: frames go up in order, once, and none is forgotten in the buffer; what
  is held for a dozing station is counted, announced and released; no pointer
  between a caller and the command thread outlives what it points to, and
  stopping the thread ends.

The main hazards, each with its line and the properties that cover it, are in
`PROJECT.json` under `hazards`; section 5 names those that no property covers.

## 2. Modules

| Module | Models |
|---|---|
| `TelemetrySender` | `telemetry_sender.py` with its unit, mavlink-router, the cloud and the operator as environment |
| `TelemetrySenderProofs` | theorems about it, checked by TLAPS |
| `MCTelemetry` | the messages and batches TLC uses |
| `Filter` | the loop that keeps, in order, the elements of a set; used by `InstallArgs` and `ApPowerSave` |
| `InstallArgs`, `InstallArgsProofs`, `MCInstallArgs` | `install.sh` up to the module loop |
| `Deployment`, `DeploymentProofs`, `MCDeployment` | the module loop, the setup scripts, `update.sh`, the disk, power loss |
| `WifiStart`, `WifiStartProofs`, `MCWifi` | `wifi-start.sh` under `drone-wifi.service` |
| `CameraRelay`, `CameraRelayProofs`, `MCCamera` | `camera-relay.sh` under `camera-relay.service` |
| `ReorderBuffer` | what receive reordering promises: a window over numbers that never wrap, a set of held frames |
| `RecvReorder`, `RecvReorderProofs`, `MCRecvReorder` | the driver's receive reordering, which implements it |
| `ApPowerSave`, `ApPowerSaveProofs`, `MCApPowerSave` | the driver's power save as access point |
| `CmdThread`, `CmdThreadProofs`, `MCCmdThread` | the driver's command thread |

Operators whose comment begins with "Fault:" are wrong variants of the operator
that follows; the mutants in `PROJECT.json` put them in its place to show that
the property named there can fail.

### TelemetrySender

`pc` is where the process is: `down` (under systemd), `connect`, `heartbeat`
(inside `wait_heartbeat`), `recv` (at `recv_match`) and `post` (inside
`client.post`). One iteration of `run()` is one step up to the POST
(`LoopIdle`, `LoopGated`, `LoopPost`: the three paths through lines 183-207,
each including `update_state`), because nothing blocks in between; the POST is
a state in which time passes and messages arrive, and its end is a step
(`Reply200`, `Reply401`, `ReplyOther`, `SendFails`, `SendCrashes`).

*Time.* The program uses `time.time()` only in differences, so the model keeps
the differences: `sinceSend` is `now - last_send`, `holdOff` is
`next_send_after - now`. They saturate at `SEND_INTERVAL` and 0, beyond which no
test in the code can tell values apart; `auth_fail_count` saturates where the
backoff has reached its cap (`BackoffAssumption`) and `fail_count` one above the
threshold at which "Cloud connection lost" is logged. Time passes only while the
process waits. `gap` and `quiet` are history variables that no action reads:
the time since the last POST began and since the last 401.

*Data.* Coordinates are integers in microdegrees. `round(n / 1e7, 6)` is
`Microdegrees(n)`: the nearest microdegree, and either neighbour on a tie, which
in the code depends on the binary representation. The other fields are integers
in the unit that makes the code's division exact; `int(heading)` truncates in
`BuildPayload`. roll, pitch and yaw are stored by the code and never sent.

*pymavlink* is modelled from its use: `target_system` is 0 until the first
heartbeat of a vehicle, `wait_heartbeat` returns on the first heartbeat of any
node, `recv_match` never returns after an orderly end of the stream and raises
when the connection was reset.

*systemd.* An exit starts `RestartSec`; a restart of mavlink-router restarts the
sender, which `Requires=` it.

### InstallArgs

A word of the command line is a record (which option it is, its text). The
parser's loop is one action per `case`; `shift 2` with one word left shifts
nothing, as in bash. Profile lines are given as what is left after stripping.
The two loops that build `REQUESTED` and `SELECTED` are `Keep`.

### Deployment

Each setup script is its sequence of steps that change something (`SetupWifi`,
`SetupMavlink`, ...), and so is each block of `update.sh`. A file is the version
of the repository it was copied from, a configuration file whose values it
holds; both can be absent or truncated. `run` is what a service was started
from, which is not what is on the disk after a copy. Every step can fail
(`SetupStepFails`: `set -e` ends the script, the loop goes on;
`UpdateStepFails`: everything ends) and may leave the file it wrote truncated;
the two `envsubst | sudo tee` of the setup scripts, which lack `pipefail`, can
fail unseen and leave an empty file (`RenderFails`). The sender's
`pyproject.toml` and `uv.lock` are a field of their own (`lock`), which setup
copies and `update.sh` does not. Power can be lost anywhere, in the middle of
a copy too, services can crash and come back from the files of that moment, and
the operator can edit, restart, pull and install again. A service that fails at
once and is restarted over and over counts as off.

### WifiStart

The script's waits are its states. A child ends with status 0, with another
status, or by a signal. `wait -n` returns the status of a child that has exited
before it is called, but bash reports and forgets a job that a signal killed
before that (`forgotten`). When the script ends, with or without its own `kill`,
systemd ends what is left in the control group.

### CameraRelay

With `CLOUD_STREAM` the script has the ground station's pipeline, which it waits
for, and a loop around the cloud's. `kill "$CLOUD_PID"` reaches the loop's shell
and not the pipeline. In the other two modes the script becomes the pipeline.
`dark` is a history variable: seconds without the ground station's video.

### RecvReorder and ReorderBuffer

One `recv_reorder_ctrl`, that is one station and one traffic class, during one
lifetime of the station's entry. `indicate_seq`, `pending`, `bReorderWaiting`,
`enable`, the bit of `rec_abba_rsp_ack` and `tid_rxseq` are the code's fields.
A frame is its number in the order sent; the driver sees it modulo `SeqSpace`.
`0xffff`, the start of a window that no frame has placed yet, is `None`.

| Context | Actions |
|---|---|
| receive tasklet | `RecvBypass` and its `Load` and `Store` (no agreement: the frame passes by, `indicate_seq` is set before and incremented after), `RecvDropped`, `RecvQueued` (`recv_indicatepkt_reorder`), `CancelTimer` (after the unlock), `RecvBar`, `RecvAddbaReq` |
| reordering timer | `TimerExpires`, `HandlerEmpty`, `HandlerForce`, `HandlerTake`, `HandlerLoad`, `HandlerStore`, `HandlerDone` |
| command thread | `AddBaRspSetBit`, `AddBaRspEnable` |
| others | `EndAgreement` (DELBA received or sent), `StationAdvance`, `Tick` |

`recv_indicatepkt_reorder` holds the lock throughout, in the only context that
writes `indicate_seq` without it, so it is one step. The timer's handler holds
the lock too, but a BAR or a frame outside an agreement reaches into it from
another processor: its loop is a step per frame, and its increment of
`indicate_seq` a load and a store.

`ReorderBuffer` is the promise: frames arrive, duplicates are dropped, a frame
beyond the window drags it along, the run at the start of the window leaves in
order, a timeout skips a gap. `ImplementsReorderBuffer` maps `pending` to a set
and `indicate_seq` to `AbsoluteWindow`, the one number within half of the number
space around the station's own window that it stands for; while the handler is
between load and store, the increment counts as done.

History: `up` and `late` record the order in which frames leave, `headAge` how
long the oldest one has waited.

### ApPowerSave

One associated station with two access categories (delivery-enabled or not,
`uapsd`), which is what the code distinguishes. `sleep` and `alive_chk` are bits
of `psta->state`, `dz` and `tim` its bits in the two bitmaps; `sleep_q` with
`sleepq_len` and `sleepq_ac_len`, `mgmt_sleep_q` with `mgmt_sleepq_len` are the
lists and the counters kept beside them, modulo `UintMod`. `pend` is what waits
for the transmit tasklet.

A section under `xmitpriv->lock` is one step; what the code does after the
unlock is a step of its own (`TxPass`; `PollCheck`, `PollTest`, `PollClear`;
`RxWmmps` before `RxDeliver`). A PS-Poll is several steps, because it tests and
clears bits of the state word before it takes the lock (`RxPsPoll`, `PollAlive`,
`PollTake`). `psta->state` is loaded and stored by the aging loop and by the
receive path without a common lock: the loop's load and store are two steps
(`AgingLoad`, `AgingStore`), and a section that stores the word in between may
lose its own change or the loop's (`StoreWord`, `AgingTim`). Other writers of the
word (the key handshake in cfg80211) are left out, and so is the keep-alive
branch with its ADDBA, which is not compiled in. All contexts run with soft interrupts disabled. On one processor
(`smp = FALSE`) none is therefore interrupted by another (`MayRun`); on several
every interleaving is possible. Both are initial states of the same model, and a
property says for which it holds.

`data_flush` and `mgmt_flush` in `expire_timeout_chk` are set for one station and
never reset, so a station can be flushed for no reason of its own: `AgingFlush`
has no guard. It can come between a trigger and the delivery of its frames; it
sends them with EOSP as the delivery would (`rtw_xmit.c:5912`), so that
`PeriodClosed` holds on any number of processors. `PollMax` bounds how far `sleepq_ac_len` drifts (see below).

### CmdThread

A caller is `rtw_createbss_cmd` and the functions written like it: allocate,
`rtw_cmd_filter`, queue, raise the semaphore, wait with a timeout, detach. The
return of the wait is seen by nobody before the detaching section, so they are
one step (`Detach`). `SubmitIpsLeave` is the one command that the filter passes
whatever `cmdthd_running` is; its caller tests the flag first. Each
has one stack frame; frames of later calls lie where earlier ones lay, so a
pointer to a context is the caller's name, and a pointer left behind by one call
reaches into the next. The thread is `rtw_cmd_thread`, one step per section under
a lock. `stopped` is `RTW_CANNOT_RUN`; `ctl` is whoever starts or stops the
thread, one at a time (the network device's lock). The timeout can strike at any
moment of the wait. A command that the thread puts back while the firmware sleeps
(`ThreadPutBack`) sets `alive` (CMD_ALIVE), and is retried at the next post of
the semaphore: that of the next command, or of `cpwm_int_hdl` when the firmware
reports that it is awake (`CpwmInterrupt`).

## 3. Runs

Passing runs:

| Run | Shows | Bounds |
|---|---|---|
| `telemetry_data` | `PositionReported`, `PayloadAttributable`: across lock-on, lost fixes, foreign systems, sentinels, crashes and restarts, a POST carries what the locked-on system sent, or the initial values, and an unmixed position. `KeepsTrying`, `AcceptedKeyRecovers`: POSTs never stop for good, an accepted key gets telemetry through again | thirteen messages: a fix, another one, none, one that rounds to zero or sits on a tie, a foreign position, the heartbeats of two systems and of a companion computer, sentinels, every type; one message per tick, since only their order matters to the data, or a heartbeat with a fix; two in the socket; two backoff steps: liveness does not depend on how many there are |
| `telemetry_time` | `RateLimited`, `BackoffHonoured`, `SilenceBounded`, `BackoffRestarts`, `LagBounded` | the code's cap of 60 s and its seven steps, POSTs of 0 to 2 intervals, a socket of two messages |
| `install_args` | `SelectionCanonical`, `DryRunHarmless` | all command lines of up to four words (two options with a value each, or any mixture), profiles out of order, repeated, misspelt, empty |
| `deployment` | `HonestSummary`, `UpdateComplete`, `UpdateWithinProfile` | full and scout, two versions, five events (scripts started, faults, operator's actions): enough for install, edit or pull, fault, update and one more |
| `wifi` | `ServingIsLeftAlone`, `HalfUpEnds`, `AccessPointRecovers` (with its one exception) | the code's 30 attempts |
| `camera` | `OnePush`, `GcsOutageBounded`, `GcsVideoStays`, `CloudRetried` | the code's 5 s and 5 s |
| `rx_reorder` | `ImplementsReorderBuffer` (refinement), `InOrder`, `BufferOK`, `NoStrandedFrame`, `GapWaitBounded`, `HeldFramesGoUp` | a number space of 12 and a window of 3, in the proportion that `HalfSpaceAssumption` asks for; frames 10 to 13, so that the numbers wrap inside the window; every loss, repetition and order, every moment for BAR, timer, new and ended agreements. Four frames let a window be dragged, a gap be skipped and a second gap remain |
| `ap_powersave` | `CountersExact`, `AwakeServed`, `HeldWhileAsleep`, `HeldIsAnnounced`, `TriggerReachesFrames`, `PeriodClosed` | three data frames (two categories and one more), two management frames, two polls that miscount, counters modulo 8; one processor and several; every choice of delivery-enabled categories |
| `cmd_thread` | `ContextAlive`, `CommandAlive`, `NoLostWakeup`, `StopEnds`, `TypeOK` | two callers and three commands: a caller gives up on one and issues the next while the first is queued and the other caller's is running; a call begins only if at most `SemaMax` posts are outstanding, which bounds the semaphore and delays no step of a call under way |

Runs that show a document or a comment to disagree with the code (details and
quotations under `findings` in `PROJECT.json`):

| Run | Statement | What the code does |
|---|---|---|
| `telemetry_companion` | messages of companions are ignored, so that armed and flight_mode do not flip | the filter compares system ids, which a companion computer shares with the autopilot: its heartbeat sets both fields |
| `install_args_hang` | a missing profile name is refused | `--profile` as the last word loops for ever |
| `ap_powersave_race` | the error handler of a PS-Poll acts on empty queues | on several processors a frame is queued after the unlock and before the handler, which resets the counter of a queue that is not empty and clears its TIM bit. When that frame is released the unsigned counter wraps, the queues no longer look empty and the station stays in the sleep state though awake: its frames are held until it sends something itself, until a later PS-Poll resets the counter |

Other disagreements, met while modelling and visible in the modules without a
run of their own: `README.md:210` says "operator can re-key via Tailscale SSH
without restarting", but the key is read once per process (`Start`);
`devlog.md:23` says "network/timeout failures don't crash the MAVLink loop", but
httpx's read and write errors are not caught (`SendCrashes`); the design document
says at 147 "re-running is always safe", but every setup script copies its
template over an edited environment file; `wifi-start.sh:48` says "Wait for
either process to exit, then kill the other", but a hostapd that a signal kills
before the wait is forgotten and dnsmasq stays alone (the exception in
`AccessPointRecovers`); `rtw_cmd.c:669` says "to avoid enqueue cmd after free all
cmd_obj", but a caller that has passed the filter queues later (`FilterPasses`,
`Enqueue`): its command waits for the next thread, and it for its timeout; a
position with one coordinate 0 is ignored although the comment at
`telemetry_sender.py:89` says (0,0); the initial battery is 0.1 (line 42)
although the comment at 111-112 says "state stays at last-known (or 0.0 initial)" and
`tests/test_telemetry_sender.py:21` asserts 0.0, so that until a first reading a
tenth of a percent is reported (`PayloadAttributable` allows the initial value the
code has); `envsubst | sudo tee` in `setup_mavlink.sh:24` and `setup_wifi.sh:34`
runs without `pipefail`, so that a failing envsubst leaves an empty configuration
and the summary says OK (`RenderFails`; `HonestSummary` promises no more);
`update.sh` copies the sender but not `pyproject.toml` and `uv.lock`, so that a
finished update may leave the old dependencies; a 401 at exactly 30 transport failures logs "Cloud connection lost" although
`devlog.md:5` says it does not; scout installed over full leaves the camera in
place; an installation of scout that is cut short leaves no record, and
`update.sh` takes the drone for full; hostapd's settings are rendered at install
time although `ARCHITECTURE.md:103` says they are sourced at runtime.

Deadlock is checked except in `install_args`, which ends, and `deployment`,
which runs out of events.

### Fairness

- `telemetry_data`: weak fairness of the process's own steps (it runs when it
  can), of the end of a POST (httpx has a timeout for every phase) and of
  mavlink-router's restart (`Restart=always`); strong fairness of hearing the
  flight controller (`request_data_stream_send` asks for 4 Hz) and, for the
  properties about an accepted key, of the cloud answering 200 to it again and
  again. That a connection is reset rather than closed is never assumed.
- `wifi`, `camera`: weak fairness of the script, systemd and time. Nothing is
  assumed about dongle, daemons or pipelines; the properties name what they need.
- `rx_reorder`: the kernel runs an expired timer and lets handlers and tasklets
  finish (weak); time passes however often the tasklet runs, and the handler gets
  past the stores of BARs, which a station sends a limited number of times
  (strong, for `Tick` and `HandlerTake`); the station moves on in the end (weak).
  Nothing is assumed to arrive.
- `cmd_thread`: weak fairness of the thread and of whoever stops it. Callers need
  not go on, signals and put-backs need not happen.

## 4. Proofs

`TelemetrySenderProofs` proves, for every set of messages, keys and batches,
every interval, cap, queue bound and length of POST that satisfies the
assumptions of `TelemetrySender`:

| Theorem | States |
|---|---|
| `TypeCorrect` | `Spec => []TypeOK` |
| `SilenceIsBounded` | `Spec => []SilenceBounded` |
| `RateIsLimited` | `Spec => RateLimited` |
| `BackoffIsHonoured` | `Spec => BackoffHonoured` |
| `BackoffDoesRestart` | `Spec => BackoffRestarts` |
| `PositionIsReported` | `Spec => []PositionReported` |
| `PayloadIsAttributable` | `Spec => []PayloadAttributable` |
| `LagIsBounded` | `Spec => []LagBounded` |

The assumptions are the constants' types, that the override's `None` is no
integer, and `BackoffAssumption`: the powers of two in question are positive
(the prover does not know exponentiation) and the saturated counter has reached
the cap.

`TimingInvariant` and `DataInvariant` state the two inductive invariants
themselves. `TypeCorrect` has one step per action and a lemma for the queue, for
`update_state` and for a process's exit.

The timing properties follow from `TimingInv`, which adds to `SilenceBounded`
what they need to be inductive. `BackoffHonoured` is about the moment a POST
begins, where the code looks only at `holdOff`; that the time elapsed is then
long enough needs *elapsed plus remaining is at least the backoff imposed*
(`quiet + holdOff >= Backoff(authFailCount)`), which a tick preserves by moving
one unit from one to the other (`TickTiming`). `RateLimited` needs `sinceSend <=
gap` outside a POST, hence `postAge <= gap` (up to saturation) inside one,
because `last_send` is the time read before the POST (`SendDoneTiming`).

The data properties follow from `DataInv`: position and fields are attributable
to the current target at every moment, not only in a POST; and since the target
changes once, from 0, nothing may have been stored before it does (`target = 0
=> state = InitialState`), which holds because no node has id 0. `UpdateData`
has one step per branch of `update_state`.

`LagBounded` says how far the report can lag: a message that the socket took is
read after at most one POST per place in the socket. The client's timeout of 5 s
is longer than the default interval of 1 s, and with POSTs that long one message
is read between two of them, so nothing better holds. It follows from `LagInv`:
the loop reads the socket empty before time passes, also during an auth backoff,
so that messages grow old only during a POST, and every POST is followed by the
reading of one message. What mavlink-router drops on a full socket is lost and
not bounded by anything.

`BYPASS_GPS_GATE` is a constant, so the theorems also cover the development
override, which the runs leave off.

### The scripts

| Theorem | States |
|---|---|
| `InstallArgsProofs.SelectionIsCanonical` | `Spec => []SelectionCanonical`, for every command line, every content of the profile files and every list of modules without repetition |
| `InstallArgsProofs.DryRunInstallsNothing` | `Spec => []DryRunHarmless` |
| `DeploymentProofs.DeploymentTypeCorrect` | `Spec => []TypeOK`, for every set of profiles over the five modules, any number of versions and events |
| `DeploymentProofs.SummaryIsHonest` | `Spec => []HonestSummary` |
| `DeploymentProofs.UpdateIsComplete` | `Spec => []UpdateComplete` |
| `DeploymentProofs.UpdateStaysInProfile` | `Spec => UpdateWithinProfile` |
| `WifiStartProofs.ServingAccessPointStays` | `Spec => ServingIsLeftAlone`: the script never gives up, for want of the dongle, at the wait or after its kill, while both daemons run |
| `WifiStartProofs.DaemonsStartedOnce` | `Spec => StartedOnce`: a daemon is started only where none of its kind is left |
| `CameraRelayProofs.CloudPushedOnce` | `Spec => []OnePush` |
| `CameraRelayProofs.OutageIsBounded` | `Spec => []GcsOutageBounded`, for all pauses |
| `CameraRelayProofs.GcsFailsAlone` | `Spec => GcsIndependent`: only its own end takes the ground station's video down |

`InstallArgs`: `ParseInv` says that what is left of the command line is its end
after some k words, and that the variables tell what those k words said: a
`--dry-run` among them has set `dryRun` unless it follows `--profile`, and the
profile, if any, is named by one of them. `shift 2` on a last `--profile` keeps k.
What the two loops compute is `KeepSelects`: the elements of the set and no
others, each pair in its order, and no repetition that was not there.

`Deployment`: `HonestSummary` speaks of the moment the summary is printed, a long
way from the steps it is about. `InstallInv` says of every module already marked
OK that it has what its script made, and of the one under way that it has what
the steps no longer in `steps` made (`SetupLists` relates what is left of a list
to what is done); a step of another module disturbs none of it, except that a
restart of mavlink-router restarts the sender. `UpdateInv` says the same of an
update: copied modules are at the checked-out version, restarted ones run what
is on the disk now, and the record does not change under way.

`WifiStart`: `WifiInv` says where in the script each daemon can be: none before
its start, and at the kill one of them has ended. `ServingIsLeftAlone` follows, and
`StartedOnce` because systemd's kill of the control group, which is assumed
(`Exit`), leaves no hostapd and because dnsmasq is not there while hostapd settles. `CameraRelay`: `GcsOutageBounded` needs that
the time dark is at most the time the unit has been down, and that nothing is
dark while it is up (`OutageInv`).

### The driver

| Theorem | States |
|---|---|
| `RecvReorderProofs.FrameNeverStranded` | `Spec => []NoStrandedFrame`, for every number space, window, waiting time and set of frames |
| `RecvReorderProofs.GapWaitIsBounded` | `Spec => []GapWaitBounded`, for every number space, window, waiting time and set of frames |
| `RecvReorderProofs.BufferIsOrdered` | `Spec => []BufferOK`, for every number space, window and set of frames |
| `RecvReorderProofs.FramesGoUpInOrder` | `Spec => []InOrder`, for every number space, window and set of frames |
| `RecvReorderProofs.ReorderingImplementsBuffer` | `Spec => ImplementsReorderBuffer`, for every number space, window and set of frames, except a window of two in a space of eight |
| `RecvReorderProofs.ComparisonExact` | `SN_LESS` on wrapping numbers orders any two frames at most half of the space apart as they were sent |
| `RecvReorderProofs.WindowShiftExact` | `check_indicate_seq` on wrapping numbers, with its boundary case, is the shift that numbers without end would give |
| `ApPowerSaveProofs.HeldOnlyWhileAsleep` | `Spec => []HeldWhileAsleep`, on any number of processors, whichever stores of the state word are lost and whatever the counters say |
| `ApPowerSaveProofs.CountersAreExact` | `Spec => []CountersExact`, for any number of frames and any width of the counters that holds them, on one processor |
| `ApPowerSaveProofs.AwakeIsServed` | `Spec => []AwakeServed`, on one processor |
| `ApPowerSaveProofs.HeldFramesAnnounced` | `Spec => []HeldIsAnnounced`, on one processor |
| `ApPowerSaveProofs.TriggerFindsFrames` | `Spec => []TriggerReachesFrames`, on any number of processors |
| `ApPowerSaveProofs.PeriodsAreClosed` | `Spec => []PeriodClosed`, on any number of processors |
| `CmdThreadProofs.CmdTypeCorrect` | `Spec => []TypeOK` |
| `CmdThreadProofs.ContextStaysAlive` | `Spec => []ContextAlive`, for every set of callers and commands |
| `CmdThreadProofs.CommandStaysAlive` | `Spec => []CommandAlive`, for every set of callers and commands |
| `CmdThreadProofs.WakeupNeverLost` | `Spec => []NoLostWakeup`, for every set of callers and commands |
| `CmdThreadProofs.StopNeverBlocks` | `Spec => []StopWakes`: whoever joins the thread does not find it asleep without a post |

`NoStrandedFrame` is not inductive: the receive path arms the timer only if
`bReorderWaiting` is down, and cancels it after it has given up the lock.
`ReorderTimerInv` adds that a flag that is up stands for a timer that runs or a
handler that has not begun, and that a pending cancellation finds nothing held
and the flag down. `GapWaitBounded` follows from `GapInv`: the age of the gap and
what the timer still runs are together at most one waiting time with the flag
down and two with it up, and while the handler works the gap is new or its frame
about to go.

`BufferOK` and `InOrder` follow from `QueueInv` and `WindowInv`. The first says
that the queue is sorted, that its frames are less than a window apart and less
than half of the number space below what the station sends, and that they are
newer than what went up last; so every comparison the driver makes is one that
`ComparisonExact` covers. The second gives the window its place among numbers
that never wrap: there is a number that `indicate_seq` stands for, from which the
window reaches every frame held, beyond what went up last, and not too far ahead
of the station (`Bounded`). That last part is about the races. The bypass and the
handler both increment `indicate_seq` without excluding each other; a start that
one has loaded may be stale when it is stored. It can be carried two numbers
beyond the frames sent and no further, because the handler increments only a
start it has just found at a frame, and does not begin again before the receive
tasklet has finished (time does not pass while it runs). `WalkIs` says where
`recv_indicatepkts_in_order` ends. These theorems need no bound on the number
space, which `rx_reorder` sets to 12.

The refinement of `ReorderBuffer` rests on the same invariant. `StandsSomewhere`
says where the mapped window stands: at the number around the station's own window
that `indicate_seq` stands for, beyond what went up last. This is where the bound on
the races counts: two numbers beyond the station's window have to be less than half
of the space, which leaves out a window of two in a space of eight (the code's are
64 and 4096). The rest is one lemma per action. A queued frame is `Arrive`, with
`EndOfRunIs` and `PartedSet` relating the walk over the list to the run in the set;
the handler's steps are `Skip` and `HandUp`, its increment a stutter because the
mapping counts it as done; BAR, bypass and the station's progress are `Move` or
`Bypass`.

`HeldWhileAsleep` is inductive as it stands. It needs that `wakeup_sta_to_xmit`
clears the flags only after it has emptied both lists, not that the counters are
right. The other five follow from `PsInv`. On any number of processors it has
the types, that no more frames are about than the pools hold (which is why no
counter wraps by counting up), that `sleepq_ac_len` is at least the number of
delivery-enabled frames held and exact for a station that cannot poll
(`AcLenBounds`), and that such a station's service period is open only while its
frames are being delivered and some are held (`TriggerInv`): whoever takes them
first, the delivery or a flush, then sends the last one with EOSP. On one
processor it adds that one context runs at
a time (`Exclusive`) and has seen the state as it is (`Seen`: what it found
before it gave up the lock still holds), that the counters are exact, that the
flags agree with each other, and that nothing is held unannounced. The walks
over the queue are `Keep`; `KeepSplits`, `KeepConcat` and the lemmas on `Count`
say what they leave.

`ContextAlive` and `CommandAlive` need each other and an account of who has each
command object. `PointersInv` says that queued objects are distinct and nobody
else's (`QueueInv`), that the thread has what it works on and frees it without a
context (`ThreadInv`), that a caller alone has its object until it is queued
(`CallInv`), and that a context pointer and an uncompleted waiting call point at
each other (`ContextInv`).

`NoLostWakeup` needs `WakeInv`: while something is queued, a post is outstanding,
a poster is under way, or the thread is awake and will look again. `StopWakes`
needs that whoever joins finds a post outstanding as long as the thread is inside
its loop, and that a thread outside it never goes back to sleep (`StopInv`).

What a loop computes is proved by induction, although the provers cannot use the
library's induction principles, whose parameter is an operator: `SeqInduct` and
`UpTo` state them for the set of the sequences, or numbers, that satisfy what is
proved, and follow from the least element of a set of numbers.

Only model-checked: liveness, which needs fairness and `ENABLED`. Every safety
property of a passing run is stated by a theorem.

## 5. Not modelled

- Most of `drivers/rtl88x2CU`, by lines nearly all of it: register definitions,
  firmware images, calibration tables and radio algorithms are data, or are
  correct only relative to a chip whose behaviour the repository does not state;
  station mode, mesh, P2P, TDLS and WAPI are not used by the access point. Modelled
  are the three parts in which the driver's own concurrency decides whether frames
  and commands arrive. `setup_wifi.sh` builds the driver in one step that can fail.
- In the modelled parts of the driver: the broadcast queue of the access point,
  shared by all stations, whose bits `rtw_chk_hi_queue_hdl` (`rtw_cmd.c:3673`)
  clears without a lock; the end of a station's entry (`rtw_free_stainfo` cancels
  each reordering timer before it empties the queue); a stopped driver, in which
  the reordering timer's handler and the receive path return early
  (`RTW_CANNOT_RUN`, `rtw_recv.c:3814`); A-MSDU and fragments;
  `rtw_ack_tx_wait` (`rtw_xmit.c:6743`), which waits on a completion it does not
  initialise again, so that a late acknowledgement answers the next wait.
- `scripts/build_mavlink_router.sh`: a maintainer's tool, a straight line.
- `tests/`: they read and report. The link manager of ARCHITECTURE.md does not
  exist yet.
- mavlink-router, GStreamer, hostapd, dnsmasq, NetworkManager, the cloud: only
  what the project's code sees of them.
- Wall-clock steps: see the plan.
- Hazards without a property, because no document or comment says what should
  happen: `hdg = 65535` and 255 satellites mean "unknown" and are passed on; a
  restart forgets the auth backoff; installing again does not restart what runs;
  the reordering timer that finds the queue empty is armed again every 50 ms until
  a frame comes (`HandlerEmpty`); a PS-Poll takes a delivery-enabled frame without
  counting it, so that a station that both polls and triggers may get its last
  frame without EOSP (the exception in `PeriodClosed`); a frame on its way to the
  transmit queue when its station dozes is sent to a sleeping radio (`TxPass`);
  with every category delivery-enabled, the TIM bit is cleared although a
  management frame is held (the exception in `HeldIsAnnounced`); a command put
  back while the firmware sleeps waits for the firmware's interrupt or the next
  command, and nothing bounds the wait (the exception in `NoLostWakeup`, station
  mode only); the daemon that `set -e` leaves behind in `wifi-start.sh` is ended by
  systemd's kill of the control group, which is an assumption.
- Writes of earlier steps that were still in the page cache when power was lost:
  only the copy under way is torn.

## 6. Plan

1. Done: the sender with its proofs; the command line; deployment; access
   point; camera relay; the driver's receive reordering with its abstract
   specification, its power save and its command thread. The safety properties
   and the refinement are proved.
2. A clock that is stepped (no real-time clock on the board, NTP after boot):
   `last_send` and `next_send_after` as absolute times against a clock that
   jumps, what of `RateLimited` and `SilenceBounded` survives, and for how long
   the sender is silent after a step back.
3. An abstract reporter (at most one report per interval, a window closed by
   rejections) and `TelemetrySender` shown to implement it by a refinement
   mapping, with TLC first and then TLAPS.
4. A supervised service in the abstract (down, running, at most one generation
   of children), implemented by `WifiStart` and `CameraRelay`.
5. Boot and update as a composition of the four services: what a restart of one
   does to the others (ARCHITECTURE.md:93), including systemd's start limit.
6. Theorems left: the refinement without its one exception (a sharper bound on
   the races of a window of two), and those that the modules above will need.
