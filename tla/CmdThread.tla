----------------------------- MODULE CmdThread -----------------------------
(***************************************************************************)
(* The WiFi driver's command thread (core/rtw_cmd.c).  Whatever touches    *)
(* the hardware at length is a command object: a caller allocates it,      *)
(* queues it and may wait, for a limited time, on a submit_ctx on its own  *)
(* stack; the thread runs the command, completes the context and frees the *)
(* object.  The driver stops and starts the thread while callers go on.    *)
(*                                                                         *)
(* A section under the queue's lock or under sctx_mutex is one step.  Every *)
(* caller has one stack frame, and frames of later calls lie where earlier *)
(* ones lay: a pointer to a context is the caller's name.                  *)
(***************************************************************************)
EXTENDS Integers, Sequences

CONSTANTS
  Callers,  \* threads that issue commands
  Cmds,     \* command objects that can be allocated at the same time (bound)
  SemaMax,  \* posts of cmd_queue_sema not yet taken when a call or report begins (bound)
  None

ASSUME CmdThreadAssumption ==
  /\ SemaMax \in Nat \ {0}
  /\ None \notin Callers /\ None \notin Cmds

VARIABLES
  queue,    \* cmd_queue
  sema,     \* cmd_queue_sema
  running,  \* cmdthd_running
  stopped,  \* RTW_CANNOT_RUN: bDriverStopped or bSurpriseRemoved
  alive,    \* CMD_ALIVE in pwrpriv->alives: the thread wants the firmware awake
  obj,      \* per command object: "free", or who has it
  sctx,     \* per command object: whose context it points to, or None
  call,     \* per caller: its frame, [pc, cmd, wait, status]
  thread,   \* the command thread, [pc, cmd, res]
  ctl       \* who starts and stops it: "idle", "start", "up" or "join"

vars == <<queue, sema, running, stopped, alive, obj, sctx, call, thread, ctl>>

Owners == {"free", "caller", "queued", "thread"}

CallPcs == {"idle", "filter", "enqueue", "up", "wait"}

Statuses == {"submitted", "success", "cmd_error", "cmd_drop"}

ThreadPcs == {"none", "start", "sema", "test", "next", "run", "complete", "free",
              "leave", "drain", "park"}

TypeOK ==
  /\ queue \in Seq(Cmds) /\ sema \in Nat
  /\ running \in BOOLEAN /\ stopped \in BOOLEAN /\ alive \in BOOLEAN
  /\ obj \in [Cmds -> Owners]
  /\ sctx \in [Cmds -> Callers \cup {None}]
  /\ call \in [Callers -> [pc : CallPcs, cmd : Cmds \cup {None}, wait : BOOLEAN,
                           status : Statuses]]
  /\ thread \in [pc : ThreadPcs, cmd : Cmds \cup {None}, res : Statuses]
  /\ ctl \in {"idle", "start", "up", "join"}

NoCall == [pc |-> "idle", cmd |-> None, wait |-> FALSE, status |-> "submitted"]

ThreadAt(pc) == [pc |-> pc, cmd |-> None, res |-> "submitted"]

\* _rtw_init_cmd_priv
Init ==
  /\ queue = << >> /\ sema = 0 /\ running = FALSE /\ stopped = TRUE /\ alive = FALSE
  /\ obj = [c \in Cmds |-> "free"] /\ sctx = [c \in Cmds |-> None]
  /\ call = [p \in Callers |-> NoCall]
  /\ thread = ThreadAt("none") /\ ctl = "idle"

-----------------------------------------------------------------------------
(***************************************************************************)
(* A caller: rtw_createbss_cmd and the other functions of its kind.        *)
(***************************************************************************)
Issues(p, c, wait, pc) ==
  /\ call[p].pc = "idle" /\ obj[c] = "free" /\ sema < SemaMax
  /\ obj' = [obj EXCEPT ![c] = "caller"]
  /\ sctx' = [sctx EXCEPT ![c] = IF wait THEN p ELSE None]
  /\ call' = [call EXCEPT ![p] = [NoCall EXCEPT !.pc = pc, !.cmd = c, !.wait = wait]]
  /\ UNCHANGED <<queue, sema, running, stopped, alive, thread, ctl>>

Submit(p, c, wait) == Issues(p, c, wait, "filter")

\* rtw_pm_set_ips: it tests cmdthd_running itself, and the filter lets
\* IPS_CTRL_LEAVE_SET_MODE pass without looking again.
SubmitIpsLeave(p, c) == running /\ Issues(p, c, TRUE, "enqueue")

\* rtw_cmd_filter: the hardware is not initialised, or no thread runs.
FilterFails(p) ==
  /\ call[p].pc = "filter"
  /\ obj' = [obj EXCEPT ![call[p].cmd] = "free"]
  /\ sctx' = [sctx EXCEPT ![call[p].cmd] = None]
  /\ call' = [call EXCEPT ![p] = NoCall]
  /\ UNCHANGED <<queue, sema, running, stopped, alive, thread, ctl>>

FilterPasses(p) ==
  /\ call[p].pc = "filter" /\ running
  /\ call' = [call EXCEPT ![p].pc = "enqueue"]
  /\ UNCHANGED <<queue, sema, running, stopped, alive, obj, sctx, thread, ctl>>

\* _rtw_enqueue_cmd, to the tail
Enqueue(p) ==
  /\ call[p].pc = "enqueue"
  /\ queue' = Append(queue, call[p].cmd)
  /\ obj' = [obj EXCEPT ![call[p].cmd] = "queued"]
  /\ call' = [call EXCEPT ![p].pc = "up"]
  /\ UNCHANGED <<sema, running, stopped, alive, sctx, thread, ctl>>

\* Fault: the thread is not told.
RaisedNot == sema

Raised == sema + 1

RaiseSema(p) ==
  /\ call[p].pc = "up"
  /\ sema' = Raised
  /\ call' = [call EXCEPT ![p] = IF @.wait THEN [@ EXCEPT !.pc = "wait"] ELSE NoCall]
  /\ UNCHANGED <<queue, running, stopped, alive, obj, sctx, thread, ctl>>

\* Fault: a caller that gave up leaves its context behind.
DetachedNot(p) == sctx

Detached(p) ==
  IF call[p].status = "submitted" THEN [sctx EXCEPT ![call[p].cmd] = None] ELSE sctx

\* rtw_sctx_wait returns, completed or timed out, which nobody else sees; then the
\* section under sctx_mutex, whatever the context says by that time, and the frame
\* is gone.
Detach(p) ==
  /\ call[p].pc = "wait"
  /\ sctx' = Detached(p)
  /\ call' = [call EXCEPT ![p] = NoCall]
  /\ UNCHANGED <<queue, sema, running, stopped, alive, obj, thread, ctl>>

-----------------------------------------------------------------------------
(***************************************************************************)
(* rtw_cmd_thread                                                          *)
(***************************************************************************)
ThreadStarts ==
  /\ thread.pc = "start"
  /\ running' = TRUE
  /\ thread' = ThreadAt("sema")
  /\ ctl' = "idle"
  /\ UNCHANGED <<queue, sema, stopped, alive, obj, sctx, call>>

\* Fault: the semaphore is taken without having been raised.
ThreadDownUnraised ==
  /\ thread.pc = "sema"
  /\ sema' = sema - 1
  /\ thread' = ThreadAt("test")
  /\ UNCHANGED <<queue, running, stopped, alive, obj, sctx, call, ctl>>

ThreadDown ==
  /\ thread.pc = "sema" /\ sema > 0
  /\ sema' = sema - 1
  /\ thread' = ThreadAt("test")
  /\ UNCHANGED <<queue, running, stopped, alive, obj, sctx, call, ctl>>

\* down_interruptible, if it has to wait: the thread allows SIGTERM.
ThreadInterrupted ==
  /\ thread.pc = "sema" /\ sema = 0
  /\ thread' = ThreadAt("leave")
  /\ UNCHANGED <<queue, sema, running, stopped, alive, obj, sctx, call, ctl>>

ThreadTest ==
  /\ thread.pc = "test"
  /\ thread' = ThreadAt(IF stopped THEN "leave" ELSE IF queue = << >> THEN "sema" ELSE "next")
  /\ UNCHANGED <<queue, sema, running, stopped, alive, obj, sctx, call, ctl>>

ThreadNext ==
  /\ thread.pc = "next"
  /\ stopped \/ queue = << >>
  /\ thread' = ThreadAt(IF stopped THEN "leave" ELSE "sema")
  /\ alive' = (alive /\ stopped)
  /\ UNCHANGED <<queue, sema, running, stopped, obj, sctx, call, ctl>>

\* rtw_dequeue_cmd, in the loop or, when the thread leaves, to drop the command
ThreadTake ==
  /\ \/ thread.pc = "next" /\ ~stopped
     \/ thread.pc = "drain"
  /\ queue # << >>
  /\ queue' = Tail(queue)
  /\ obj' = [obj EXCEPT ![Head(queue)] = "thread"]
  /\ thread' = [pc |-> IF thread.pc = "next" THEN "run" ELSE "complete",
                cmd |-> Head(queue), res |-> "cmd_drop"]
  /\ UNCHANGED <<sema, running, stopped, alive, sctx, call, ctl>>

\* The filter once more, and the command's handler.  A command that does I/O sets
\* CMD_ALIVE, one that does none clears it, one the filter stops leaves it.
ThreadRun(res) ==
  /\ thread.pc = "run"
  /\ thread' = [thread EXCEPT !.pc = "complete", !.res = res]
  /\ alive' \in BOOLEAN
  /\ UNCHANGED <<queue, sema, running, stopped, obj, sctx, call, ctl>>

\* H2C_ENQ_HEAD: the firmware sleeps; rtw_register_cmd_alive asks it to wake up,
\* and the command goes back to the head.
ThreadPutBack ==
  /\ thread.pc = "run"
  /\ queue' = <<thread.cmd>> \o queue
  /\ obj' = [obj EXCEPT ![thread.cmd] = "queued"]
  /\ thread' = [thread EXCEPT !.pc = "sema"]
  /\ alive' = TRUE
  /\ UNCHANGED <<sema, running, stopped, sctx, call, ctl>>

\* cpwm_int_hdl: the firmware reports that it is awake.
CpwmInterrupt ==
  /\ ~stopped /\ alive /\ sema < SemaMax
  /\ sema' = sema + 1
  /\ UNCHANGED <<queue, running, stopped, alive, obj, sctx, call, thread, ctl>>

\* Fault: a dropped command is freed without a word to its caller.
CompletedUnlessDropped(c) ==
  IF sctx[c] = None \/ thread.res = "cmd_drop" THEN call
  ELSE [call EXCEPT ![sctx[c]].status = thread.res]

Completed(c) ==
  IF sctx[c] = None THEN call
  ELSE [call EXCEPT ![sctx[c]].status = thread.res]

\* rtw_sctx_done, rtw_sctx_done_err, under sctx_mutex
ThreadComplete ==
  /\ thread.pc = "complete"
  /\ call' = Completed(thread.cmd)
  /\ sctx' = [sctx EXCEPT ![thread.cmd] = None]
  /\ thread' = [thread EXCEPT !.pc = "free"]
  /\ UNCHANGED <<queue, sema, running, stopped, alive, obj, ctl>>

\* rtw_free_cmd_obj
ThreadFree ==
  /\ thread.pc = "free"
  /\ obj' = [obj EXCEPT ![thread.cmd] = "free"]
  /\ thread' = ThreadAt(IF running THEN "next" ELSE "drain")
  /\ UNCHANGED <<queue, sema, running, stopped, alive, sctx, call, ctl>>

ThreadLeaves ==
  /\ thread.pc = "leave"
  /\ running' = FALSE
  /\ thread' = ThreadAt("drain")
  /\ alive' = FALSE
  /\ UNCHANGED <<queue, sema, stopped, obj, sctx, call, ctl>>

\* rtw_thread_wait_stop
ThreadParks ==
  /\ thread.pc = "drain" /\ queue = << >>
  /\ thread' = ThreadAt("park")
  /\ UNCHANGED <<queue, sema, running, stopped, alive, obj, sctx, call, ctl>>

-----------------------------------------------------------------------------
(***************************************************************************)
(* Start and stop, one at a time: rtw_netdev_open, rtw_dev_unload and the  *)
(* suspend and removal paths set or clear bDriverStopped first.            *)
(***************************************************************************)
StartThread ==
  /\ ctl = "idle" /\ thread.pc = "none"
  /\ stopped' = FALSE
  /\ thread' = ThreadAt("start")
  /\ ctl' = "start"
  /\ UNCHANGED <<queue, sema, running, alive, obj, sctx, call>>

StopBegins ==
  /\ ctl = "idle" /\ thread.pc # "none"
  /\ stopped' = TRUE
  /\ ctl' = "up"
  /\ UNCHANGED <<queue, sema, running, alive, obj, sctx, call, thread>>

\* Fault: the thread is not woken before it is waited for.
StopRaisesNot ==
  /\ ctl = "up"
  /\ ctl' = "join"
  /\ UNCHANGED <<queue, sema, running, stopped, alive, obj, sctx, call, thread>>

\* rtw_stop_cmd_thread
StopRaises ==
  /\ ctl = "up"
  /\ sema' = sema + 1
  /\ ctl' = "join"
  /\ UNCHANGED <<queue, running, stopped, alive, obj, sctx, call, thread>>

StopReturns ==
  /\ ctl = "join" /\ thread.pc = "park"
  /\ thread' = ThreadAt("none")
  /\ ctl' = "idle"
  /\ UNCHANGED <<queue, sema, running, stopped, alive, obj, sctx, call>>

\* A URB fails because the device is gone.
DeviceGone ==
  /\ ~stopped
  /\ stopped' = TRUE
  /\ UNCHANGED <<queue, sema, running, alive, obj, sctx, call, thread, ctl>>

-----------------------------------------------------------------------------
CallerStep(p) == \/ \E c \in Cmds, wait \in BOOLEAN : Submit(p, c, wait)
                 \/ \E c \in Cmds : SubmitIpsLeave(p, c)
                 \/ FilterFails(p) \/ FilterPasses(p) \/ Enqueue(p) \/ RaiseSema(p)
                 \/ Detach(p)

ThreadStep == \/ ThreadStarts \/ ThreadDown \/ ThreadTest \/ ThreadNext \/ ThreadTake
              \/ \E res \in {"success", "cmd_error"} : ThreadRun(res)
              \/ ThreadComplete \/ ThreadFree \/ ThreadLeaves \/ ThreadParks

Next == \/ \E p \in Callers : CallerStep(p)
        \/ ThreadStep \/ ThreadInterrupted \/ ThreadPutBack \/ CpwmInterrupt
        \/ StartThread \/ StopBegins \/ StopRaises \/ StopReturns \/ DeviceGone

Spec == Init /\ [][Next]_vars

\* The kernel runs the thread and whoever stops it; handlers come to an end.
FairSpec == Spec /\ WF_vars(ThreadStep) /\ WF_vars(StopRaises) /\ WF_vars(StopReturns)

-----------------------------------------------------------------------------
\* A command never points into the stack frame of a call that has returned: the
\* thread would complete a context that is no more, or that of a later call
\* (cmdobj->sctx = NULL under sctx_mutex, rtw_cmd.c:922-923).
ContextAlive ==
  \A c \in Cmds : sctx[c] # None =>
    /\ obj[c] # "free"
    /\ call[sctx[c]].pc # "idle" /\ call[sctx[c]].cmd = c

\* A caller that finds its context not completed, and so writes into its command,
\* still has one: the thread has not freed it, nor is it another call's.
CommandAlive ==
  \A p \in Callers : call[p].wait /\ call[p].status = "submitted" =>
    obj[call[p].cmd] # "free" /\ sctx[call[p].cmd] = p

\* The thread does not sleep while a command is queued and nobody is about to wake
\* it, unless it put that command back itself because the firmware sleeps, and then
\* CMD_ALIVE is set: the firmware's report that it is awake posts the semaphore.
NoLostWakeup ==
  thread.pc = "sema" /\ sema = 0 /\ queue # << >> =>
    \/ thread.cmd = Head(queue) /\ alive
    \/ \E p \in Callers : call[p].pc = "up"

\* Stopping the thread comes to an end, whatever it was doing and however many
\* commands are queued (kthread_stop waits for it).
StopEnds == ctl \in {"up", "join"} ~> ctl = "idle"
============================================================================
