---------------------------- MODULE RecvReorder ----------------------------
(***************************************************************************)
(* Receive reordering in the WiFi driver (core/rtw_recv.c): the frames one *)
(* station sends in one traffic class under a block-ack agreement arrive   *)
(* in any order; the driver holds back those that came early and hands     *)
(* them up in order, or after REORDER_WAIT_TIME without the missing one.   *)
(*                                                                         *)
(* Four contexts share one recv_reorder_ctrl: the receive tasklet (data,   *)
(* BAR, ADDBA and DELBA frames), the reordering timer, the command thread  *)
(* that answers an ADDBA request, and the other threads that end an        *)
(* agreement.  A section under the queue's lock is one step, except where  *)
(* a context that takes no lock can reach into it.                         *)
(*                                                                         *)
(* A frame is its number in the order the station sent them; on the air it *)
(* is SeqNum(n).  One lifetime of the station's entry is modelled, with    *)
(* the driver running: what RTW_CANNOT_RUN cuts short once the driver is   *)
(* stopped or the adapter gone is left out.                                *)
(***************************************************************************)
EXTENDS Integers, Sequences, SequencesExt

CONSTANTS
  SeqSpace,     \* sequence numbers: 4096
  WinSize,    \* wsize_b: 64
  WaitTime,   \* REORDER_WAIT_TIME, in ticks
  MaxLoss,    \* most frames in a row that the station gives up on
  FirstFrame, \* the frames the station sends (bound)
  LastFrame,
  None

VARIABLES
  enable,           \* a block-ack agreement is in force
  indicate_seq,     \* start of the window, None for 0xffff
  pending,          \* pending_recvframe_queue
  bReorderWaiting,
  rec_abba_rsp_ack, \* its bit RTW_RECV_ACK_OR_TIMEOUT
  timer,            \* ticks until the reordering timer expires, or None
  tid_rxseq,        \* the last sequence number seen, None for its initial value
  rx,               \* the receive tasklet, [pc, reg]: reg holds indicate_seq
                    \* between the load and the store of an increment
  handler,          \* the timer's handler, [pc, reg]
  cmd,              \* the command thread: "idle", "accept", "reject",
                    \* or "enable", "disable" once the bit is set
  base,             \* the oldest frame the station still sends
  heard,            \* history: the newest frame received
  up,               \* history: the last frame handed up since the window was
                    \* last moved back, or None
  late,             \* history: some frame was handed up after a newer one
  headAge           \* history: ticks the oldest frame held has been the oldest,
                    \* since the window last moved under the timer's handler

window  == <<indicate_seq, pending, up, late, headAge>>
timing  == <<bReorderWaiting, timer, handler>>
session == <<enable, rec_abba_rsp_ack, cmd>>
air     == <<tid_rxseq, base, heard>>
vars    == <<window, timing, session, air, rx>>

ASSUME SizesAssumption ==
  /\ SeqSpace \in Nat /\ SeqSpace % 2 = 0
  /\ WinSize \in Nat \ {0} /\ WaitTime \in Nat \ {0} /\ MaxLoss \in Nat
  /\ FirstFrame \in Nat /\ LastFrame \in Nat /\ FirstFrame <= LastFrame
  /\ None \notin Int

(***************************************************************************)
(* Half of the number space separates newer from older: the comparison is  *)
(* exact as long as the station neither sends nor gives up more than that. *)
(***************************************************************************)
ASSUME HalfSpaceAssumption == 2 * WinSize + MaxLoss <= SeqSpace \div 2

Frames  == FirstFrame..LastFrame
SeqNums == 0..(SeqSpace - 1)

SeqNum(n) == n % SeqSpace
Succ(s)   == (s + 1) % SeqSpace

-----------------------------------------------------------------------------
\* Fault: plain comparison, wrong once the numbers wrap.
SN_LESSPlain(a, b) == a < b

SN_LESS(a, b) == ((a - b) % SeqSpace) >= SeqSpace \div 2

(***************************************************************************)
(* check_indicate_seq for a frame that is not behind the window.           *)
(***************************************************************************)
\* Fault: the window starts, not ends, at a frame beyond it.
ShiftWindowTooFar(start, s) ==
  IF s = start THEN Succ(start)
  ELSE IF SN_LESS((start + WinSize - 1) % SeqSpace, s) THEN s
  ELSE start

ShiftWindow(start, s) ==
  IF s = start THEN Succ(start)
  ELSE IF SN_LESS((start + WinSize - 1) % SeqSpace, s)
       THEN IF s >= WinSize - 1 THEN s + 1 - WinSize
            ELSE SeqSpace - 1 - (WinSize - (s + 1)) + 1
  ELSE start

\* enqueue_reorder_recvframe: how many frames of q go before frame n.
Before(q, n) ==
  CHOOSE k \in 0..Len(q) :
    /\ \A i \in 1..k : SN_LESS(SeqNum(q[i]), SeqNum(n))
    /\ k < Len(q) => ~SN_LESS(SeqNum(q[k + 1]), SeqNum(n))

IsDuplicate(q, n) ==
  LET k == Before(q, n) IN k < Len(q) /\ SeqNum(q[k + 1]) = SeqNum(n)

\* Fault: appended, not sorted in.
InsertSortedAtTail(q, n) == Append(q, n)

InsertSorted(q, n) == InsertAt(q, Before(q, n) + 1, n)

(***************************************************************************)
(* recv_indicatepkts_in_order, not forced: the window start after each     *)
(* frame of q, and how many frames are handed up.                          *)
(***************************************************************************)
WinAfter(q, start) ==
  LET f[i \in 0..Len(q)] ==
        IF i = 0 THEN start
        ELSE IF f[i - 1] = SeqNum(q[i]) THEN Succ(f[i - 1]) ELSE f[i - 1]
  IN  f

InOrderCount(q, start) ==
  CHOOSE k \in 0..Len(q) :
    /\ \A i \in 1..k : ~SN_LESS(WinAfter(q, start)[i - 1], SeqNum(q[i]))
    /\ k < Len(q) => SN_LESS(WinAfter(q, start)[k], SeqNum(q[k + 1]))

-----------------------------------------------------------------------------
\* History: the frames of `out`, in this order, go up to the network stack.
HandUp(out, u) ==
  /\ up' = IF out = << >> THEN u ELSE Last(out)
  /\ late' = (late \/ \E i \in 1..Len(out) :
                        LET before == IF i = 1 THEN u ELSE out[i - 1]
                        IN  before # None /\ out[i] <= before)

\* History: the queue becomes q.
Hold(q) ==
  /\ pending' = q
  /\ headAge' = IF q # << >> /\ pending # << >> /\ Head(q) = Head(pending)
                THEN headAge ELSE 0

\* History: the station or the driver puts the window at number w.
WindowMoved(w) ==
  up' = IF up # None /\ w <= up THEN None ELSE up

TypeOK ==
  /\ enable \in BOOLEAN
  /\ indicate_seq \in SeqNums \cup {None}
  /\ pending \in Seq(Frames)
  /\ bReorderWaiting \in BOOLEAN /\ rec_abba_rsp_ack \in BOOLEAN
  /\ timer \in 0..WaitTime \cup {None}
  /\ tid_rxseq \in SeqNums \cup {None}
  /\ rx \in [pc : {"idle", "cancel", "load", "store"}, reg : SeqNums \cup {None}]
  /\ handler \in [pc : {"idle", "fired", "loop", "load", "store"},
                   reg : SeqNums \cup {None}]
  /\ cmd \in {"idle", "accept", "reject", "enable", "disable"}
  /\ base \in Frames
  /\ heard \in Frames \cup {FirstFrame - 1}
  /\ up \in Frames \cup {None} /\ late \in BOOLEAN
  /\ headAge \in Nat

\* rtw_alloc_stainfo
Init ==
  /\ enable = FALSE /\ indicate_seq = None /\ pending = << >>
  /\ bReorderWaiting = FALSE /\ rec_abba_rsp_ack = FALSE /\ timer = None
  /\ tid_rxseq = None /\ rx = [pc |-> "idle", reg |-> None]
  /\ handler = [pc |-> "idle", reg |-> None] /\ cmd = "idle"
  /\ base = FirstFrame /\ heard = FirstFrame - 1
  /\ up = None /\ late = FALSE /\ headAge = 0

-----------------------------------------------------------------------------
(***************************************************************************)
(* The station (external).  It sends and repeats the frames base, ...,     *)
(* base + WinSize - 1 in any order, and moves on when the oldest one was   *)
(* acknowledged or given up.  It does not get through half of the number   *)
(* space within REORDER_WAIT_TIME.                                         *)
(***************************************************************************)
SendWindow == {n \in Frames : n \in base..(base + WinSize - 1)}

StationAdvance ==
  /\ base < LastFrame
  /\ base <= heard + MaxLoss
  /\ \A i \in 1..Len(pending) : base + WinSize + 1 - pending[i] < SeqSpace \div 2
  /\ base' = base + 1
  /\ UNCHANGED <<window, timing, session, rx, tid_rxseq, heard>>

-----------------------------------------------------------------------------
(***************************************************************************)
(* The receive tasklet.  recv_decache drops a frame whose number is the    *)
(* last one seen; without an agreement the frame passes by the queue.      *)
(***************************************************************************)
LockFree == handler.pc \in {"idle", "fired"}

Received(n) ==
  /\ rx.pc = "idle"
  /\ n \in SendWindow
  /\ SeqNum(n) # tid_rxseq
  /\ tid_rxseq' = SeqNum(n)
  /\ heard' = IF n > heard THEN n ELSE heard
  /\ UNCHANGED base

\* An unlocked store of w.  A handler that holds the lock finds its window
\* moved, and the gap to wait for a new one.
UnlockedStore(w) ==
  /\ indicate_seq' = w
  /\ headAge' = IF LockFree THEN headAge ELSE 0

\* recv_set_iseq_before_mpdu_process, then the frame goes up
RecvBypass(n) ==
  /\ Received(n) /\ ~enable
  /\ UnlockedStore(SeqNum(n))
  /\ rx' = [rx EXCEPT !.pc = "load"]
  /\ up' = None
  /\ UNCHANGED <<pending, late, timing, session>>

\* recv_set_iseq_after_mpdu_process increments what it finds by then.
RecvBypassLoad ==
  /\ rx.pc = "load"
  /\ rx' = [pc |-> "store", reg |-> indicate_seq]
  /\ UNCHANGED <<window, timing, session, air>>

RecvBypassStore ==
  /\ rx.pc = "store"
  /\ UnlockedStore(Succ(rx.reg))
  /\ up' = None
  /\ rx' = [pc |-> "idle", reg |-> None]
  /\ UNCHANGED <<pending, late, timing, session, air>>

\* Where the window starts once a session's first frame has been seen.
StartFor(n) ==
  IF rec_abba_rsp_ack \/ indicate_seq = None THEN SeqNum(n) ELSE indicate_seq

(***************************************************************************)
(* recv_indicatepkt_reorder.  A frame behind the window is dropped; so is  *)
(* a duplicate of a held one, after the window was checked.  Otherwise it  *)
(* is sorted in and the frames in order go up.  If frames remain the timer *)
(* runs; if none does it is cancelled once the lock is released.           *)
(***************************************************************************)
RecvDropped(n) ==
  LET start == StartFor(n) IN
  /\ Received(n) /\ enable /\ LockFree
  /\ rec_abba_rsp_ack' = FALSE
  /\ \/ SN_LESS(SeqNum(n), start) /\ indicate_seq' = start
     \/ /\ ~SN_LESS(SeqNum(n), start) /\ IsDuplicate(pending, n)
        /\ indicate_seq' = ShiftWindow(start, SeqNum(n))
  /\ up' = IF rec_abba_rsp_ack THEN None ELSE up
  /\ UNCHANGED <<pending, late, headAge, timing, rx, enable, cmd>>

\* Fault: the flag survives, so the next early frame starts no timer.
WaitingAfterKept(rest) == bReorderWaiting \/ rest # << >>

WaitingAfter(rest) == rest # << >>

\* Fault: every early frame puts the timer off.
TimerAfterAnew(rest) == IF rest # << >> THEN WaitTime ELSE timer

TimerAfter(rest) == IF rest # << >> /\ ~bReorderWaiting THEN WaitTime ELSE timer

RecvQueued(n) ==
  LET start == StartFor(n)
      first == ShiftWindow(start, SeqNum(n))
      q     == InsertSorted(pending, n)
      k     == InOrderCount(q, first)
      rest  == SubSeq(q, k + 1, Len(q))
  IN
  /\ Received(n) /\ enable /\ LockFree
  /\ ~SN_LESS(SeqNum(n), start) /\ ~IsDuplicate(pending, n)
  /\ rec_abba_rsp_ack' = FALSE
  /\ indicate_seq' = WinAfter(q, first)[k]
  /\ Hold(rest)
  /\ HandUp(SubSeq(q, 1, k), IF rec_abba_rsp_ack THEN None ELSE up)
  /\ bReorderWaiting' = WaitingAfter(rest)
  /\ timer' = TimerAfter(rest)
  /\ rx' = [rx EXCEPT !.pc = IF rest = << >> THEN "cancel" ELSE "idle"]
  /\ UNCHANGED <<enable, cmd, handler>>

\* _cancel_timer_ex is del_timer_sync: it waits for a running handler and
\* takes back what that handler armed.
CancelTimer ==
  /\ rx.pc = "cancel"
  /\ handler.pc = "idle"
  /\ timer' = None
  /\ rx' = [rx EXCEPT !.pc = "idle"]
  /\ UNCHANGED <<window, session, air, bReorderWaiting, handler>>

(***************************************************************************)
(* rtw_process_bar_frame: the station's BAR carries the oldest frame it    *)
(* still sends.  The start of the window is stored without the lock, and   *)
(* without asking whether that moves it back.                              *)
(***************************************************************************)
RecvBar ==
  /\ rx.pc = "idle"
  /\ UnlockedStore(SeqNum(base))
  /\ WindowMoved(base)
  /\ UNCHANGED <<pending, late, timing, session, air, rx>>

\* process_addba_req queues the answer for the command thread.
RecvAddbaReq ==
  /\ rx.pc = "idle" /\ cmd = "idle"
  /\ cmd' \in {"accept", "reject"}
  /\ UNCHANGED <<window, timing, air, rx, enable, rec_abba_rsp_ack>>

\* OnAction_back, DELBA; _send_delba_sta_tid
EndAgreement ==
  /\ enable
  /\ enable' = FALSE
  /\ UNCHANGED <<window, timing, air, rx, rec_abba_rsp_ack, cmd>>

\* add_ba_rsp_hdl, after the response went out: the bit first, then enable.
AddBaRspSetBit ==
  /\ cmd \in {"accept", "reject"}
  /\ rec_abba_rsp_ack' = TRUE
  /\ cmd' = IF cmd = "accept" THEN "enable" ELSE "disable"
  /\ UNCHANGED <<window, timing, air, rx, enable>>

AddBaRspEnable ==
  /\ cmd \in {"enable", "disable"}
  /\ enable' = (cmd = "enable")
  /\ cmd' = "idle"
  /\ UNCHANGED <<window, timing, air, rx, rec_abba_rsp_ack>>

-----------------------------------------------------------------------------
\* Time passes only when the soft interrupts have been served.
Tick ==
  /\ rx.pc = "idle" /\ handler.pc = "idle" /\ timer # 0
  /\ timer # None
  /\ timer' = timer - 1
  /\ headAge' = IF pending = << >> THEN 0 ELSE headAge + 1
  /\ UNCHANGED <<indicate_seq, pending, up, late, bReorderWaiting, handler,
                 session, air, rx>>

TimerExpires ==
  /\ timer = 0 /\ handler.pc = "idle"
  /\ timer' = None
  /\ handler' = [handler EXCEPT !.pc = "fired"]
  /\ UNCHANGED <<window, bReorderWaiting, session, air, rx>>

(***************************************************************************)
(* rtw_reordering_ctrl_timeout_handler and the forced part of              *)
(* recv_indicatepkts_in_order.  On an empty queue that returns _TRUE, so   *)
(* the timer is armed again.  The handler's own early return, on           *)
(* RTW_CANNOT_RUN, is that of a stopped driver and outside this model.     *)
(***************************************************************************)
HandlerEmpty ==
  /\ handler.pc = "fired" /\ pending = << >>
  /\ bReorderWaiting' = FALSE
  /\ timer' = WaitTime
  /\ handler' = [handler EXCEPT !.pc = "idle"]
  /\ UNCHANGED <<window, session, air, rx>>

HandlerForce ==
  /\ handler.pc = "fired" /\ pending # << >>
  /\ bReorderWaiting' = FALSE
  /\ indicate_seq' = SeqNum(Head(pending))
  /\ handler' = [handler EXCEPT !.pc = "loop"]
  /\ UNCHANGED <<pending, up, late, headAge, timer, session, air, rx>>

HandlerTake ==
  /\ handler.pc = "loop" /\ pending # << >>
  /\ ~SN_LESS(indicate_seq, SeqNum(Head(pending)))
  /\ pending' = Tail(pending) /\ headAge' = 0
  /\ HandUp(<<Head(pending)>>, up)
  /\ handler' = IF indicate_seq = SeqNum(Head(pending))
                THEN [handler EXCEPT !.pc = "load"] ELSE handler
  /\ UNCHANGED <<indicate_seq, timer, bReorderWaiting, session, air, rx>>

HandlerLoad ==
  /\ handler.pc = "load"
  /\ handler' = [pc |-> "store", reg |-> indicate_seq]
  /\ UNCHANGED <<window, timer, bReorderWaiting, session, air, rx>>

HandlerStore ==
  /\ handler.pc = "store"
  /\ indicate_seq' = Succ(handler.reg)
  /\ handler' = [pc |-> "loop", reg |-> None]
  /\ UNCHANGED <<pending, up, late, headAge, timer, bReorderWaiting, session, air, rx>>

\* Fault: the timer is not armed for the frames behind the next gap.
HandlerDoneNoRearm ==
  /\ handler.pc = "loop"
  /\ pending # << >> => SN_LESS(indicate_seq, SeqNum(Head(pending)))
  /\ handler' = [handler EXCEPT !.pc = "idle"]
  /\ UNCHANGED <<window, timer, bReorderWaiting, session, air, rx>>

HandlerDone ==
  /\ handler.pc = "loop"
  /\ pending # << >> => SN_LESS(indicate_seq, SeqNum(Head(pending)))
  /\ timer' = IF pending # << >> THEN WaitTime ELSE timer
  /\ handler' = [handler EXCEPT !.pc = "idle"]
  /\ UNCHANGED <<window, bReorderWaiting, session, air, rx>>

-----------------------------------------------------------------------------
RecvTasklet ==
  \/ \E n \in Frames : RecvBypass(n) \/ RecvDropped(n) \/ RecvQueued(n)
  \/ RecvBypassLoad \/ RecvBypassStore \/ CancelTimer \/ RecvBar \/ RecvAddbaReq

TimerHandler == \/ HandlerEmpty \/ HandlerForce \/ HandlerTake
                \/ HandlerLoad \/ HandlerStore \/ HandlerDone

CmdThread == AddBaRspSetBit \/ AddBaRspEnable

Next == \/ RecvTasklet \/ TimerExpires \/ TimerHandler \/ CmdThread
        \/ EndAgreement \/ StationAdvance \/ Tick

Spec == Init /\ [][Next]_vars

(***************************************************************************)
(* The kernel runs a timer that expired and lets its handler finish; a     *)
(* tasklet that waits for the handler goes on after it.  Time passes       *)
(* however often the tasklet runs; frames do not come in the few           *)
(* instructions of every handler; a station repeats a frame a limited      *)
(* number of times.                                                        *)
(***************************************************************************)
FairSpec == Spec /\ SF_vars(Tick) /\ WF_vars(TimerExpires)
                 /\ WF_vars(TimerHandler) /\ SF_vars(HandlerTake)
                 /\ WF_vars(CancelTimer) /\ WF_vars(StationAdvance)
                 /\ WF_vars(RecvBypassLoad \/ RecvBypassStore)

-----------------------------------------------------------------------------
(***************************************************************************)
(* The specification it implements.  The start of the window is the one    *)
(* number within half of the space around the station's own window that    *)
(* indicate_seq stands for; a pending increment counts as done.            *)
(***************************************************************************)
AbsoluteWindow ==
  LET s == IF handler.pc = "load" THEN Succ(indicate_seq)
           ELSE IF handler.pc = "store" THEN Succ(handler.reg)
           ELSE indicate_seq
      low == base - SeqSpace \div 2
  IN  IF indicate_seq = None THEN None ELSE low + ((s - low) % SeqSpace)

Buffer == INSTANCE ReorderBuffer WITH
            win <- AbsoluteWindow, buf <- Range(pending), fresh <- rec_abba_rsp_ack

\* The driver's 12-bit window over a sorted list, with its unlocked stores, is
\* a reorder buffer over numbers that never wrap (rtw_recv.c:3441-3830).
ImplementsReorderBuffer == Buffer!ReorderSpec

\* Every frame goes up after the frames sent before it, and none goes up twice,
\* as long as nothing moves the window back (recv_indicatepkts_in_order).
InOrder == ~late

\* A frame held back never waits without a timer: it runs, or its handler does
\* (the two places that set it, rtw_recv.c:3779 and 3826).
NoStrandedFrame == pending # << >> => timer # None \/ handler.pc # "idle"

\* The state is well typed, the window's start a 12-bit number (check_indicate_seq)
\* among the rest; the queue is sorted, without duplicates, and shorter than the
\* window (enqueue_reorder_recvframe).
BufferOK ==
  /\ TypeOK
  /\ \A i, j \in 1..Len(pending) : i < j => pending[i] < pending[j]
  /\ Len(pending) < WinSize

\* A gap delays the frames behind it for at most two waiting times: the timer
\* of a handler can be extended once (bReorderWaiting), never again and again.
GapWaitBounded == headAge <= 2 * WaitTime

\* Every frame held back is handed up in the end, even if nothing more arrives.
HeldFramesGoUp ==
  \A n \in Frames : n \in Range(pending) ~> n \notin Range(pending)
============================================================================
