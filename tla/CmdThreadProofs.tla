-------------------------- MODULE CmdThreadProofs --------------------------
(***************************************************************************)
(* For any number of callers and commands: no command points into a frame  *)
(* that is gone, and no caller writes into a command that was freed.       *)
(*                                                                         *)
(* Two parties reach each object by pointer: the caller through cmdobj,    *)
(* the thread through pcmd->sctx.  The inductive invariant says who has    *)
(* the object at every moment, and that a context pointer and the waiting  *)
(* call point at each other until the call is completed or gives up.       *)
(***************************************************************************)
EXTENDS CmdThread, TLAPS

\* The queue holds distinct objects, none of which anyone else has.
QueueInv ==
  /\ \A i \in 1..Len(queue) : obj[queue[i]] = "queued"
  /\ \A i, j \in 1..Len(queue) : queue[i] = queue[j] => i = j

\* The thread has the object it works on; it frees it without a context.
ThreadInv ==
  /\ thread.pc \in {"run", "complete", "free"} =>
       thread.cmd \in Cmds /\ obj[thread.cmd] = "thread"
  /\ thread.pc = "complete" => thread.res # "submitted"
  /\ thread.pc = "free" => sctx[thread.cmd] = None

\* A caller has its object alone until it is queued.
CallInv ==
  /\ \A p \in Callers :
       /\ call[p].pc # "idle" => call[p].cmd \in Cmds
       /\ call[p].pc = "idle" => ~call[p].wait
       /\ call[p].pc = "wait" => call[p].wait
       /\ call[p].pc \in {"filter", "enqueue"} =>
            /\ obj[call[p].cmd] = "caller"
            /\ call[p].status = "submitted"
            /\ ~call[p].wait => sctx[call[p].cmd] = None
  /\ \A p, q \in Callers :
       /\ call[p].pc \in {"filter", "enqueue"} /\ call[q].pc \in {"filter", "enqueue"}
       /\ call[p].cmd = call[q].cmd
       => p = q

\* A context pointer leads to a call that waits for this very command.
ContextInv ==
  \A c \in Cmds : sctx[c] # None =>
    /\ obj[c] # "free"
    /\ call[sctx[c]].pc # "idle" /\ call[sctx[c]].cmd = c
    /\ call[sctx[c]].wait /\ call[sctx[c]].status = "submitted"

PointersInv == QueueInv /\ ThreadInv /\ CallInv /\ ContextInv /\ CommandAlive

-----------------------------------------------------------------------------
(***************************************************************************)
(* Type correctness.                                                       *)
(***************************************************************************)
LEMMA CallerIssues ==
  ASSUME NEW p \in Callers,
         \/ \E c \in Cmds, wait \in BOOLEAN : Submit(p, c, wait)
         \/ \E c \in Cmds : SubmitIpsLeave(p, c)
  PROVE  \E c \in Cmds, wait \in BOOLEAN, pc \in {"filter", "enqueue"} : Issues(p, c, wait, pc)
<1>1. ASSUME NEW c \in Cmds, NEW wait \in BOOLEAN, Submit(p, c, wait)
      PROVE  Issues(p, c, wait, "filter")
  BY <1>1 DEF Submit
<1>2. ASSUME NEW c \in Cmds, SubmitIpsLeave(p, c)
      PROVE  Issues(p, c, TRUE, "enqueue")
  BY <1>2 DEF SubmitIpsLeave
<1> QED BY <1>1, <1>2, Zenon

LEMMA TypeCallers == TypeOK /\ PointersInv /\ (\E p \in Callers : CallerStep(p)) => TypeOK'
<1> SUFFICES ASSUME TypeOK, PointersInv, NEW p \in Callers, CallerStep(p) PROVE TypeOK'
  OBVIOUS
<1> USE DEF TypeOK, CallPcs, Statuses, Owners, NoCall
<1>1. ASSUME NEW c \in Cmds, NEW wait \in BOOLEAN, NEW pc \in {"filter", "enqueue"},
             Issues(p, c, wait, pc)
      PROVE  TypeOK'
  BY <1>1 DEF Issues
<1>2. CASE FilterFails(p)  BY <1>2 DEF FilterFails
<1>3. CASE FilterPasses(p) BY <1>3 DEF FilterPasses
<1>4. CASE Enqueue(p)
  <2>1. call[p].cmd \in Cmds
    BY <1>4 DEF Enqueue, PointersInv, CallInv
  <2>2. queue' \in Seq(Cmds)
    BY <1>4, <2>1 DEF Enqueue
  <2>3. /\ obj' \in [Cmds -> Owners]
        /\ call' \in [Callers -> [pc : CallPcs, cmd : Cmds \cup {None}, wait : BOOLEAN,
                                  status : Statuses]]
    BY <1>4, <2>1 DEF Enqueue
  <2> QED BY <1>4, <2>2, <2>3 DEF Enqueue
<1>5. CASE RaiseSema(p)
  <2>1. call' \in [Callers -> [pc : CallPcs, cmd : Cmds \cup {None}, wait : BOOLEAN,
                               status : Statuses]]
    BY <1>5 DEF RaiseSema
  <2> QED BY <1>5, <2>1 DEF RaiseSema, Raised
<1>6. CASE Detach(p)       BY <1>6 DEF Detach, Detached
<1> QED BY <1>1, <1>2, <1>3, <1>4, <1>5, <1>6, CallerIssues DEF CallerStep

LEMMA TypeNext == TypeOK /\ PointersInv /\ [Next]_vars => TypeOK'
<1> SUFFICES ASSUME TypeOK, PointersInv, [Next]_vars PROVE TypeOK'
  OBVIOUS
<1> USE CmdThreadAssumption DEF TypeOK, ThreadPcs, Statuses, Owners, ThreadAt
<1>1. CASE ThreadStarts      BY <1>1 DEF ThreadStarts
<1>2. CASE ThreadDown        BY <1>2 DEF ThreadDown
<1>3. CASE ThreadTest        BY <1>3 DEF ThreadTest
<1>4. CASE ThreadNext        BY <1>4 DEF ThreadNext
<1>5. CASE ThreadTake
  <2>1. Head(queue) \in Cmds /\ Tail(queue) \in Seq(Cmds)
    BY <1>5 DEF ThreadTake
  <2> QED BY <1>5, <2>1 DEF ThreadTake
<1>6. ASSUME NEW res \in {"success", "cmd_error"}, ThreadRun(res) PROVE TypeOK'
  BY <1>6 DEF ThreadRun
<1>7. CASE ThreadComplete
  <2>1. thread.cmd \in Cmds
    BY <1>7 DEF ThreadComplete, PointersInv, ThreadInv
  <2>2. call' \in [Callers -> [pc : CallPcs, cmd : Cmds \cup {None}, wait : BOOLEAN,
                               status : Statuses]]
    BY <1>7, <2>1 DEF ThreadComplete, Completed
  <2> QED BY <1>7, <2>1, <2>2 DEF ThreadComplete
<1>8. CASE ThreadFree        BY <1>8 DEF ThreadFree
<1>9. CASE ThreadLeaves      BY <1>9 DEF ThreadLeaves
<1>10. CASE ThreadParks      BY <1>10 DEF ThreadParks
<1>11. CASE ThreadInterrupted BY <1>11 DEF ThreadInterrupted
<1>12. CASE ThreadPutBack
  <2>1. thread.cmd \in Cmds
    BY <1>12 DEF ThreadPutBack, PointersInv, ThreadInv
  <2>2. queue' \in Seq(Cmds)
    BY <1>12, <2>1 DEF ThreadPutBack
  <2>3. /\ obj' \in [Cmds -> Owners]
        /\ thread' \in [pc : ThreadPcs, cmd : Cmds \cup {None}, res : Statuses]
    BY <1>12, <2>1 DEF ThreadPutBack
  <2> QED BY <1>12, <2>2, <2>3 DEF ThreadPutBack
<1>13. CASE StartThread BY <1>13 DEF StartThread
<1>14. CASE StopBegins  BY <1>14 DEF StopBegins
<1>15. CASE StopRaises  BY <1>15 DEF StopRaises
<1>16. CASE StopReturns BY <1>16 DEF StopReturns
<1>17. CASE DeviceGone  BY <1>17 DEF DeviceGone
<1>18. CASE UNCHANGED vars BY <1>18 DEF vars
<1>19. CASE \E p \in Callers : CallerStep(p) BY <1>19, TypeCallers
<1>20. CASE CpwmInterrupt BY <1>20 DEF CpwmInterrupt
<1> QED BY <1>1, <1>2, <1>3, <1>4, <1>5, <1>6, <1>7, <1>8, <1>9, <1>10, <1>11, <1>12,
           <1>13, <1>14, <1>15, <1>16, <1>17, <1>18, <1>19, <1>20 DEF Next, ThreadStep

-----------------------------------------------------------------------------
(***************************************************************************)
(* The invariant, one step per action.                                     *)
(***************************************************************************)
LEMMA PointersInit == Init => TypeOK /\ PointersInv
<1> SUFFICES ASSUME Init PROVE TypeOK /\ PointersInv
  OBVIOUS
<1> USE DEF Init, NoCall, ThreadAt
<1>1. TypeOK
  <2>1. /\ obj \in [Cmds -> Owners]
        /\ sctx \in [Cmds -> Callers \cup {None}]
        /\ queue \in Seq(Cmds) /\ sema \in Nat
    BY DEF Owners
  <2>2. call \in [Callers -> [pc : CallPcs, cmd : Cmds \cup {None}, wait : BOOLEAN,
                              status : Statuses]]
    BY DEF CallPcs, Statuses
  <2>3. /\ thread \in [pc : ThreadPcs, cmd : Cmds \cup {None}, res : Statuses]
        /\ ctl \in {"idle", "start", "up", "join"}
    BY DEF ThreadPcs, Statuses
  <2>4. running \in BOOLEAN /\ stopped \in BOOLEAN /\ alive \in BOOLEAN
    OBVIOUS
  <2> QED BY <2>1, <2>2, <2>3, <2>4 DEF TypeOK
<1>2. QueueInv BY DEF QueueInv
<1>3. ThreadInv BY DEF ThreadInv
<1>4. CallInv BY DEF CallInv
<1>5. ContextInv BY DEF ContextInv
<1>6. CommandAlive BY DEF CommandAlive
<1> QED BY <1>1, <1>2, <1>3, <1>4, <1>5, <1>6 DEF PointersInv

LEMMA PointersIssues ==
  ASSUME TypeOK, PointersInv, NEW p \in Callers, NEW c \in Cmds, NEW wait \in BOOLEAN,
         NEW pc \in {"filter", "enqueue"}, Issues(p, c, wait, pc)
  PROVE  PointersInv'
<1> USE CmdThreadAssumption DEF TypeOK, PointersInv, Issues, NoCall
<1>1. QueueInv'     BY DEF QueueInv
<1>2. ThreadInv'    BY DEF ThreadInv
<1>3. CallInv'      BY DEF CallInv
<1>4. ContextInv'   BY DEF ContextInv, CallInv
<1>5. CommandAlive' BY DEF CommandAlive, CallInv
<1> QED BY <1>1, <1>2, <1>3, <1>4, <1>5

LEMMA PointersFilterFails ==
  ASSUME TypeOK, PointersInv, NEW p \in Callers, FilterFails(p)
  PROVE  PointersInv'
<1> USE CmdThreadAssumption DEF TypeOK, PointersInv, FilterFails, NoCall
<1>1. call[p].cmd \in Cmds /\ obj[call[p].cmd] = "caller"
  BY DEF CallInv
<1>2. QueueInv'     BY <1>1 DEF QueueInv
<1>3. ThreadInv'    BY <1>1 DEF ThreadInv
<1>4. CallInv'      BY <1>1 DEF CallInv
<1>5. ContextInv'   BY <1>1 DEF ContextInv, CallInv
<1>6. CommandAlive' BY <1>1 DEF CommandAlive, CallInv
<1> QED BY <1>2, <1>3, <1>4, <1>5, <1>6

LEMMA PointersEnqueue ==
  ASSUME TypeOK, PointersInv, NEW p \in Callers, Enqueue(p)
  PROVE  PointersInv'
<1> USE CmdThreadAssumption DEF TypeOK, PointersInv, Enqueue
<1>1. call[p].cmd \in Cmds /\ obj[call[p].cmd] = "caller"
  BY DEF CallInv
<1>2. QueueInv'     BY <1>1 DEF QueueInv
<1>3. ThreadInv'    BY <1>1 DEF ThreadInv
<1>4. CallInv'      BY <1>1 DEF CallInv
<1>5. ContextInv'   BY <1>1 DEF ContextInv
<1>6. CommandAlive' BY <1>1 DEF CommandAlive
<1> QED BY <1>2, <1>3, <1>4, <1>5, <1>6

LEMMA PointersCaller ==
  ASSUME TypeOK, PointersInv, NEW p \in Callers, CallerStep(p)
  PROVE  PointersInv'
<1> USE CmdThreadAssumption DEF TypeOK, PointersInv, NoCall
<1>1. CASE FilterPasses(p)
  BY <1>1 DEF FilterPasses, QueueInv, ThreadInv, CallInv, ContextInv, CommandAlive
<1>2. CASE RaiseSema(p)
  <2> USE <1>2 DEF RaiseSema
  <2>1. QueueInv' /\ ThreadInv' BY DEF QueueInv, ThreadInv
  <2>2. CallInv'      BY DEF CallInv
  <2>3. ContextInv'   BY DEF ContextInv
  <2>4. CommandAlive' BY DEF CommandAlive
  <2> QED BY <2>1, <2>2, <2>3, <2>4
<1>3. CASE Detach(p)
  <2> USE <1>3 DEF Detach, Detached
  <2>1. call[p].cmd \in Cmds /\ call[p].wait BY DEF CallInv
  <2>2. QueueInv'     BY <2>1 DEF QueueInv
  <2>3. ThreadInv'    BY <2>1 DEF ThreadInv
  <2>4. CallInv'      BY <2>1 DEF CallInv
  <2>5. ContextInv'   BY <2>1 DEF ContextInv, CommandAlive
  <2>6. CommandAlive' BY <2>1 DEF CommandAlive
  <2> QED BY <2>2, <2>3, <2>4, <2>5, <2>6
<1> QED BY <1>1, <1>2, <1>3, PointersIssues, PointersFilterFails, PointersEnqueue,
           CallerIssues DEF CallerStep

LEMMA PointersTake ==
  ASSUME TypeOK, PointersInv, ThreadTake
  PROVE  PointersInv'
<1> USE CmdThreadAssumption DEF TypeOK, PointersInv, ThreadTake
<1>1. Head(queue) \in Cmds /\ obj[Head(queue)] = "queued"
  BY DEF QueueInv
<1>2. /\ Len(queue') = Len(queue) - 1
      /\ \A i \in 1..Len(queue') : queue'[i] = queue[i + 1] /\ queue[i + 1] # Head(queue)
  BY DEF QueueInv
<1>3. QueueInv'     BY <1>1, <1>2 DEF QueueInv
<1>4. ThreadInv'    BY <1>1 DEF ThreadInv
<1>5. CallInv'      BY <1>1 DEF CallInv
<1>6. ContextInv'   BY <1>1 DEF ContextInv
<1>7. CommandAlive' BY <1>1 DEF CommandAlive
<1> QED BY <1>3, <1>4, <1>5, <1>6, <1>7

LEMMA PointersPutBack ==
  ASSUME TypeOK, PointersInv, ThreadPutBack
  PROVE  PointersInv'
<1> USE CmdThreadAssumption DEF TypeOK, PointersInv
<1>1. thread.cmd \in Cmds /\ obj[thread.cmd] = "thread"
  BY DEF ThreadInv, ThreadPutBack
<1>2. /\ Len(queue') = Len(queue) + 1 /\ queue'[1] = thread.cmd
      /\ \A i \in 2..Len(queue') : queue'[i] = queue[i - 1]
  BY <1>1 DEF ThreadPutBack
<1>3. QueueInv'
  <2>1. \A i \in 1..Len(queue) : queue[i] \in Cmds /\ queue[i] # thread.cmd
    BY <1>1 DEF QueueInv
  <2>2. /\ obj'[thread.cmd] = "queued"
        /\ \A i \in 1..Len(queue) : obj'[queue[i]] = "queued"
    BY <1>1, <2>1 DEF QueueInv, ThreadPutBack
  <2>3. Len(queue) \in Nat OBVIOUS
  <2>4. \A i \in 1..Len(queue') : i # 1 => i - 1 \in 1..Len(queue) /\ queue'[i] = queue[i - 1]
    BY <1>2, <2>3
  <2>5. \A i \in 1..Len(queue') : obj'[queue'[i]] = "queued"
    <3> TAKE i \in 1..Len(queue')
    <3>1. CASE i = 1 BY <1>2, <2>2, <3>1
    <3>2. CASE i # 1
      <4>1. i - 1 \in 1..Len(queue) /\ queue'[i] = queue[i - 1] BY <2>4, <3>2
      <4>2. obj'[queue[i - 1]] = "queued" BY <2>2, <4>1
      <4> QED BY <4>1, <4>2
    <3> QED BY <3>1, <3>2
  <2>6. \A i, j \in 1..Len(queue') : queue'[i] = queue'[j] => i = j
    BY <1>2, <2>1, <2>3, <2>4 DEF QueueInv
  <2> QED BY <2>5, <2>6 DEF QueueInv
<1>4. ThreadInv'    BY <1>1 DEF ThreadInv, ThreadPutBack
<1>5. CallInv'      BY <1>1 DEF CallInv, ThreadPutBack
<1>6. ContextInv'   BY <1>1 DEF ContextInv, ThreadPutBack
<1>7. CommandAlive' BY <1>1 DEF CommandAlive, ThreadPutBack
<1> QED BY <1>3, <1>4, <1>5, <1>6, <1>7

LEMMA PointersComplete ==
  ASSUME TypeOK, PointersInv, ThreadComplete
  PROVE  PointersInv'
<1> USE CmdThreadAssumption DEF TypeOK, PointersInv, ThreadComplete, Completed
<1>1. thread.cmd \in Cmds /\ obj[thread.cmd] = "thread" /\ thread.res # "submitted"
  BY DEF ThreadInv
<1>2. QueueInv'     BY <1>1 DEF QueueInv
<1>3. ThreadInv'    BY <1>1 DEF ThreadInv
<1>4. CallInv'      BY <1>1 DEF CallInv, ContextInv
<1>5. ContextInv'   BY <1>1 DEF ContextInv
<1>6. CommandAlive' BY <1>1 DEF CommandAlive
<1> QED BY <1>2, <1>3, <1>4, <1>5, <1>6

LEMMA PointersFree ==
  ASSUME TypeOK, PointersInv, ThreadFree
  PROVE  PointersInv'
<1> USE CmdThreadAssumption DEF TypeOK, PointersInv, ThreadFree, ThreadAt
<1>1. thread.cmd \in Cmds /\ obj[thread.cmd] = "thread" /\ sctx[thread.cmd] = None
  BY DEF ThreadInv
<1>2. QueueInv'     BY <1>1 DEF QueueInv
<1>3. ThreadInv'    BY <1>1 DEF ThreadInv
<1>4. CallInv'      BY <1>1 DEF CallInv
<1>5. ContextInv'   BY <1>1 DEF ContextInv
<1>6. CommandAlive' BY <1>1 DEF CommandAlive
<1> QED BY <1>2, <1>3, <1>4, <1>5, <1>6

LEMMA PointersNext == TypeOK /\ PointersInv /\ [Next]_vars => PointersInv'
<1> SUFFICES ASSUME TypeOK, PointersInv, [Next]_vars PROVE PointersInv'
  OBVIOUS
\* The other steps leave queue, objects, contexts and calls alone, and move the
\* thread only to places where it has no object.
<1>1. ASSUME UNCHANGED <<queue, obj, sctx, call>>,
             thread' = thread \/ (\E pc \in ThreadPcs \ {"run", "complete", "free"} :
                                    thread' = ThreadAt(pc))
      PROVE  PointersInv'
  BY <1>1 DEF PointersInv, QueueInv, ThreadInv, CallInv, ContextInv, CommandAlive, ThreadAt
<1>2. CASE ThreadStarts \/ ThreadDown \/ ThreadLeaves \/ ThreadParks \/ ThreadInterrupted
  BY <1>1, <1>2 DEF ThreadStarts, ThreadDown, ThreadLeaves, ThreadParks, ThreadInterrupted, ThreadPcs
<1>3. CASE ThreadTest \/ ThreadNext
  BY <1>1, <1>3 DEF ThreadTest, ThreadNext, ThreadPcs
<1>4. ASSUME NEW res \in {"success", "cmd_error"}, ThreadRun(res) PROVE PointersInv'
  BY <1>4 DEF ThreadRun, PointersInv, QueueInv, ThreadInv, CallInv, ContextInv, CommandAlive, TypeOK
<1>5. CASE StartThread \/ StopBegins \/ StopRaises \/ StopReturns \/ DeviceGone \/ CpwmInterrupt
  BY <1>1, <1>5 DEF StartThread, StopBegins, StopRaises, StopReturns, DeviceGone, CpwmInterrupt,
                    ThreadPcs
<1>6. CASE UNCHANGED vars BY <1>1, <1>6 DEF vars
<1> QED BY <1>2, <1>3, <1>4, <1>5, <1>6, PointersCaller, PointersTake, PointersPutBack,
           PointersComplete, PointersFree DEF Next, ThreadStep

(***************************************************************************)
(* Type correctness, for every number of callers, commands and posts.      *)
(***************************************************************************)
THEOREM CmdTypeCorrect == Spec => []TypeOK
<1>1. Init => TypeOK /\ PointersInv BY PointersInit
<1>2. TypeOK /\ PointersInv /\ [Next]_vars => (TypeOK /\ PointersInv)'
  BY TypeNext, PointersNext
<1> QED BY <1>1, <1>2, PTL DEF Spec

(***************************************************************************)
(* No command points into the frame of a call that has returned, however   *)
(* timeouts, completions, drops and restarts of the thread interleave.     *)
(***************************************************************************)
THEOREM ContextStaysAlive == Spec => []ContextAlive
<1>1. Init => TypeOK /\ PointersInv BY PointersInit
<1>2. TypeOK /\ PointersInv /\ [Next]_vars => (TypeOK /\ PointersInv)'
  BY TypeNext, PointersNext
<1>3. PointersInv => ContextAlive BY DEF PointersInv, ContextInv, ContextAlive
<1> QED BY <1>1, <1>2, <1>3, PTL DEF Spec

(***************************************************************************)
(* A caller that gives up never writes into a command that was freed.      *)
(***************************************************************************)
THEOREM CommandStaysAlive == Spec => []CommandAlive
<1>1. Init => TypeOK /\ PointersInv BY PointersInit
<1>2. TypeOK /\ PointersInv /\ [Next]_vars => (TypeOK /\ PointersInv)'
  BY TypeNext, PointersNext
<1>3. PointersInv => CommandAlive BY DEF PointersInv
<1> QED BY <1>1, <1>2, <1>3, PTL DEF Spec

-----------------------------------------------------------------------------
(***************************************************************************)
(* Waking the thread.  The semaphore does not count the commands: one pass *)
(* takes everything that is queued, and posts are left over.  What holds   *)
(* is that a queued command always has someone who will come for it: a     *)
(* post, a caller about to post, the thread itself, still on its way back  *)
(* to the queue, or, for a command that was put back, the firmware's       *)
(* report that it is awake, which posts as long as CMD_ALIVE is set.       *)
(***************************************************************************)
AwakePcs == {"test", "next", "run", "complete", "free", "leave", "drain"}

WakeInv ==
  \/ queue = << >>
  \/ sema > 0
  \/ \E p \in Callers : call[p].pc = "up"
  \/ thread.pc \in AwakePcs
  \/ thread.pc = "sema" /\ thread.cmd = Head(queue) /\ alive

LEMMA WakeCaller == TypeOK /\ PointersInv /\ WakeInv /\ (\E p \in Callers : CallerStep(p)) => WakeInv'
<1> SUFFICES ASSUME TypeOK, PointersInv, WakeInv, NEW p \in Callers, CallerStep(p)
             PROVE  WakeInv'
  OBVIOUS
\* Whoever is about to post stays so, unless it is p that moves.
<1>1. ASSUME UNCHANGED <<queue, sema, alive, thread>>, call[p].pc # "up",
             \A q \in Callers : q # p => call'[q] = call[q]
      PROVE  WakeInv'
  BY <1>1 DEF WakeInv
<1>2. ASSUME NEW c \in Cmds, NEW wait \in BOOLEAN, NEW pc \in {"filter", "enqueue"},
             Issues(p, c, wait, pc)
      PROVE  WakeInv'
  BY <1>1, <1>2 DEF Issues, TypeOK
<1>3. CASE FilterFails(p) BY <1>1, <1>3 DEF FilterFails, TypeOK
<1>4. CASE FilterPasses(p) BY <1>1, <1>4 DEF FilterPasses, TypeOK
<1>5. CASE Enqueue(p)
  <2>1. call'[p].pc = "up" BY <1>5 DEF Enqueue, TypeOK
  <2> QED BY <2>1 DEF WakeInv
<1>6. CASE RaiseSema(p)
  <2>1. sema' > 0 BY <1>6 DEF RaiseSema, Raised, TypeOK
  <2> QED BY <2>1 DEF WakeInv
<1>7. CASE Detach(p) BY <1>1, <1>7 DEF Detach, TypeOK
<1> QED BY <1>2, <1>3, <1>4, <1>5, <1>6, <1>7, CallerIssues DEF CallerStep

LEMMA WakeThread == TypeOK /\ PointersInv /\ WakeInv /\ (ThreadStep \/ ThreadInterrupted \/ ThreadPutBack) => WakeInv'
<1> SUFFICES ASSUME TypeOK, PointersInv, WakeInv, ThreadStep \/ ThreadInterrupted \/ ThreadPutBack
             PROVE  WakeInv'
  OBVIOUS
\* The thread goes on, and will see the queue again.
<1>1. ASSUME thread'.pc \in AwakePcs PROVE WakeInv'
  BY <1>1 DEF WakeInv
\* It goes to sleep, or ends, only with nothing queued.
<1>2. ASSUME queue = << >>, UNCHANGED queue PROVE WakeInv'
  BY <1>2 DEF WakeInv
<1>3. CASE ThreadStarts
  BY <1>3 DEF ThreadStarts, WakeInv, AwakePcs, ThreadAt
<1>4. CASE ThreadDown \/ ThreadInterrupted \/ ThreadLeaves
  BY <1>1, <1>4 DEF ThreadDown, ThreadInterrupted, ThreadLeaves, ThreadAt, AwakePcs
<1>5. CASE ThreadTest
  BY <1>1, <1>2, <1>5 DEF ThreadTest, ThreadAt, AwakePcs
<1>6. CASE ThreadNext
  BY <1>1, <1>2, <1>6 DEF ThreadNext, ThreadAt, AwakePcs
<1>7. CASE ThreadTake
  BY <1>1, <1>7 DEF ThreadTake, AwakePcs
<1>8. ASSUME NEW res \in {"success", "cmd_error"}, ThreadRun(res) PROVE WakeInv'
  BY <1>1, <1>8 DEF ThreadRun, AwakePcs, TypeOK
<1>9. CASE ThreadComplete
  BY <1>1, <1>9 DEF ThreadComplete, AwakePcs, TypeOK
<1>10. CASE ThreadFree
  BY <1>1, <1>10 DEF ThreadFree, ThreadAt, AwakePcs
<1>11. CASE ThreadParks
  BY <1>2, <1>11 DEF ThreadParks
<1>12. CASE ThreadPutBack
  \* It knows what it has put back.
  <2>1. thread.cmd \in Cmds
    BY <1>12 DEF ThreadPutBack, PointersInv, ThreadInv
  <2>2. Head(queue') = thread.cmd
    <3>1. Head(<<thread.cmd>> \o queue) = thread.cmd BY <2>1 DEF TypeOK
    <3> QED BY <3>1, <1>12 DEF ThreadPutBack
  <2>3. thread'.pc = "sema" /\ thread'.cmd = thread.cmd /\ alive'
    BY <1>12 DEF ThreadPutBack, TypeOK
  <2> QED BY <2>2, <2>3 DEF WakeInv
<1> QED BY <1>3, <1>4, <1>5, <1>6, <1>7, <1>8, <1>9, <1>10, <1>11, <1>12 DEF ThreadStep

LEMMA WakeNext == TypeOK /\ PointersInv /\ WakeInv /\ [Next]_vars => WakeInv'
<1> SUFFICES ASSUME TypeOK, PointersInv, WakeInv, [Next]_vars PROVE WakeInv'
  OBVIOUS
<1>1. CASE StartThread
  BY <1>1 DEF StartThread, WakeInv, AwakePcs, ThreadAt
<1>2. CASE StopReturns
  BY <1>2 DEF StopReturns, WakeInv, AwakePcs, ThreadAt
<1>3. CASE StopRaises
  <2>1. sema' > 0 BY <1>3 DEF StopRaises, TypeOK
  <2> QED BY <2>1 DEF WakeInv
<1>4. CASE StopBegins \/ DeviceGone \/ UNCHANGED vars
  BY <1>4 DEF StopBegins, DeviceGone, vars, WakeInv
<1>5. CASE CpwmInterrupt
  <2>1. sema' > 0 BY <1>5 DEF CpwmInterrupt, TypeOK
  <2> QED BY <2>1 DEF WakeInv
<1> QED BY <1>1, <1>2, <1>3, <1>4, <1>5, WakeCaller, WakeThread DEF Next

(***************************************************************************)
(* NoLostWakeup: the thread never sleeps on a queued command that nobody   *)
(* will wake it for, however enqueueing, posting, draining and restarting  *)
(* interleave (rtw_enqueue_cmd posts after it has released the lock).      *)
(***************************************************************************)
THEOREM WakeupNeverLost == Spec => []NoLostWakeup
<1>1. Init => TypeOK /\ PointersInv /\ WakeInv
  BY PointersInit DEF Init, WakeInv
<1>2. TypeOK /\ PointersInv /\ WakeInv /\ [Next]_vars => (TypeOK /\ PointersInv /\ WakeInv)'
  BY TypeNext, PointersNext, WakeNext
<1>3. TypeOK /\ WakeInv => NoLostWakeup
  BY DEF TypeOK, WakeInv, NoLostWakeup, AwakePcs
<1> QED BY <1>1, <1>2, <1>3, PTL DEF Spec

-----------------------------------------------------------------------------
(***************************************************************************)
(* Stopping the thread.  The post of rtw_stop_cmd_thread reaches a thread  *)
(* that has not yet noticed bDriverStopped; it is still there as long as   *)
(* the thread is in its loop, and whoever takes it sees the flag.          *)
(***************************************************************************)
InLoop ==
  \/ thread.pc \in {"sema", "next", "run"}
  \/ thread.pc \in {"complete", "free"} /\ running

StopInv ==
  /\ ctl = "start" <=> thread.pc = "start"
  /\ ctl \in {"up", "join"} => stopped
  /\ thread.pc = "drain" => ~running
  /\ thread.pc \in {"sema", "test", "next", "run"} => running
  /\ ctl = "join" /\ InLoop => sema > 0

\* While someone waits for the thread to end, it does not sleep without a post.
StopWakes == ctl = "join" /\ thread.pc = "sema" => sema > 0

LEMMA StopCaller == TypeOK /\ StopInv /\ (\E p \in Callers : CallerStep(p)) => StopInv'
<1> SUFFICES ASSUME TypeOK, StopInv, NEW p \in Callers, CallerStep(p) PROVE StopInv'
  OBVIOUS
<1>1. UNCHANGED <<ctl, stopped, running, thread>> /\ (sema' = sema \/ sema' = sema + 1)
  <2>1. ASSUME NEW c \in Cmds, NEW wait \in BOOLEAN, NEW pc \in {"filter", "enqueue"},
               Issues(p, c, wait, pc)
        PROVE  UNCHANGED <<ctl, stopped, running, thread, sema>>
    BY <2>1 DEF Issues
  <2>2. CASE FilterFails(p) \/ FilterPasses(p) \/ Enqueue(p) \/ Detach(p)
    BY <2>2 DEF FilterFails, FilterPasses, Enqueue, Detach
  <2>3. CASE RaiseSema(p)
    BY <2>3 DEF RaiseSema, Raised
  <2> QED BY <2>1, <2>2, <2>3, CallerIssues DEF CallerStep
<1>2. sema \in Nat BY DEF TypeOK
<1> QED BY <1>1, <1>2 DEF StopInv, InLoop

LEMMA StopNext == TypeOK /\ StopInv /\ [Next]_vars => StopInv'
<1> SUFFICES ASSUME TypeOK, StopInv, [Next]_vars PROVE StopInv'
  OBVIOUS
<1> USE DEF StopInv, InLoop, ThreadAt
<1>1. CASE ThreadStarts BY <1>1 DEF ThreadStarts
<1>2. CASE ThreadDown BY <1>2 DEF ThreadDown
<1>3. CASE ThreadTest BY <1>3 DEF ThreadTest
<1>4. CASE ThreadNext BY <1>4 DEF ThreadNext
<1>5. CASE ThreadTake BY <1>5 DEF ThreadTake
<1>6. ASSUME NEW res \in {"success", "cmd_error"}, ThreadRun(res) PROVE StopInv'
  <2>1. thread'.pc = "complete" BY <1>6 DEF ThreadRun, TypeOK
  <2> QED BY <1>6, <2>1 DEF ThreadRun
<1>7. CASE ThreadComplete
  <2>1. thread'.pc = "free" BY <1>7 DEF ThreadComplete, TypeOK
  <2> QED BY <1>7, <2>1 DEF ThreadComplete
<1>8. CASE ThreadFree BY <1>8 DEF ThreadFree
<1>9. CASE ThreadLeaves BY <1>9 DEF ThreadLeaves
<1>10. CASE ThreadParks BY <1>10 DEF ThreadParks
<1>11. CASE ThreadInterrupted BY <1>11 DEF ThreadInterrupted
<1>12. CASE ThreadPutBack
  <2>1. thread'.pc = "sema" BY <1>12 DEF ThreadPutBack, TypeOK
  <2> QED BY <1>12, <2>1 DEF ThreadPutBack
<1>13. CASE StartThread BY <1>13 DEF StartThread
<1>14. CASE StopBegins BY <1>14 DEF StopBegins
<1>15. CASE StopRaises BY <1>15 DEF StopRaises, TypeOK
<1>16. CASE StopReturns BY <1>16 DEF StopReturns
<1>17. CASE DeviceGone BY <1>17 DEF DeviceGone
<1>18. CASE UNCHANGED vars BY <1>18 DEF vars
<1>19. CASE CpwmInterrupt BY <1>19 DEF CpwmInterrupt, TypeOK
<1> QED BY <1>1, <1>2, <1>3, <1>4, <1>5, <1>6, <1>7, <1>8, <1>9, <1>10, <1>11, <1>12,
           <1>13, <1>14, <1>15, <1>16, <1>17, <1>18, <1>19, StopCaller DEF Next, ThreadStep

(***************************************************************************)
(* StopWakes, of rtw_stop_cmd_thread: kthread_stop is never called for a   *)
(* thread that sleeps without a post, even when it swallowed posts, put a  *)
(* command back or was interrupted at that moment.  StopEnds, which also   *)
(* needs the scheduler's fairness, rests on this.                          *)
(***************************************************************************)
THEOREM StopNeverBlocks == Spec => []StopWakes
<1>1. Init => TypeOK /\ PointersInv /\ StopInv
  BY PointersInit DEF Init, StopInv, InLoop, ThreadAt
<1>2. TypeOK /\ PointersInv /\ StopInv /\ [Next]_vars => (TypeOK /\ PointersInv /\ StopInv)'
  BY TypeNext, PointersNext, StopNext
<1>3. StopInv => StopWakes
  BY DEF StopInv, StopWakes, InLoop
<1> QED BY <1>1, <1>2, <1>3, PTL DEF Spec
============================================================================
