---------------------------- MODULE ApPowerSave ----------------------------
(***************************************************************************)
(* How the WiFi driver, as the drone's access point, holds frames for a    *)
(* station that dozes (core/rtw_xmit.c, rtw_recv.c, rtw_ap.c): it queues   *)
(* them, announces them in the beacon's TIM, and releases them when the    *)
(* station polls, triggers (U-APSD) or wakes.                              *)
(*                                                                         *)
(* Three contexts share the station's entry: the transmit path, the        *)
(* receive tasklet, and the aging loop of the command thread.  A section   *)
(* under xmitpriv->lock is one step.  All three run with soft interrupts   *)
(* disabled, so on one processor each runs to its end; on several (smp)    *)
(* the others come between any two of its steps.  psta->state is one word, *)
(* changed without a common lock by load, change and store: a store brings *)
(* back the bits it loaded, and a store of another context in between is   *)
(* lost.                                                                   *)
(*                                                                         *)
(* One station during one association.  Two access categories stand for    *)
(* the four; frames are told apart only by their category.                 *)
(***************************************************************************)
EXTENDS Integers, Sequences, Filter

CONSTANTS
  UintMod,  \* the counters are unsigned: 2^32
  FrameMax, \* NR_XMITFRAME, data frames the driver can hold for the station
  MgmtMax,  \* NR_XMIT_EXTBUFF, management frames
  PollMax   \* delivery-enabled frames fetched by polls in an association (bound)

ASSUME BoundsAssumption ==
  /\ FrameMax \in Nat \ {0} /\ MgmtMax \in Nat \ {0} /\ PollMax \in Nat
  /\ UintMod \in Nat /\ UintMod > FrameMax + PollMax /\ UintMod > MgmtMax

VARIABLES
  smp,       \* more than one processor
  uapsd,     \* the delivery-enabled categories, from the association (qos_info)
  dozing,    \* what the station last said of itself (power management bit)
  sleep,     \* psta->state & WIFI_SLEEP_STATE
  dz,        \* its bit in sta_dz_bitmap
  tim,       \* its bit in tim_bitmap, and in the beacon
  alive_chk, \* psta->state & WIFI_STA_ALIVE_CHK_STATE
  sleep_q, sleepq_len, sleepq_ac_len,
  mgmt_sleep_q,     \* the number of frames in it
  mgmt_sleepq_len,
  pend,      \* frames per queue that wait for the transmit tasklet
  tx,        \* the transmit path: "idle" or the category found not to be held
  rx,        \* the receive tasklet: [pc, ac, empty]
  aging,     \* the aging loop: "idle"; "store", the sleep bit loaded; "tim", stored
  spOpen     \* history: a trigger was accepted and no EOSP has ended its period

station == <<smp, uapsd, dozing>>
flags   == <<sleep, dz, tim, alive_chk>>
queues  == <<sleep_q, sleepq_len, sleepq_ac_len, mgmt_sleep_q, mgmt_sleepq_len, pend>>
vars    == <<station, flags, queues, tx, rx, aging, spOpen>>

Acs == {"be", "vo"}

has_legacy_ac == uapsd # Acs

RxStates == [pc : {"idle", "wmmps", "deliver", "poll_alive", "poll_take", "poll_check",
                   "poll_test", "poll_clear"},
             ac : Acs, empty : BOOLEAN]

Idle == [pc |-> "idle", ac |-> "be", empty |-> FALSE]

\* Fault: released frames stay counted.
MinusNothing(a, b) == a

Minus(a, b) == (a - b) % UintMod

\* Fault: held frames are not counted.
PlusNothing(a, b) == a

Plus(a, b) == (a + b) % UintMod

TypeOK ==
  /\ smp \in BOOLEAN /\ uapsd \subseteq Acs /\ dozing \in BOOLEAN
  /\ sleep \in BOOLEAN /\ dz \in BOOLEAN /\ tim \in BOOLEAN /\ alive_chk \in BOOLEAN
  /\ sleep_q \in Seq(Acs) /\ mgmt_sleep_q \in Nat
  /\ sleepq_len \in 0..(UintMod - 1) /\ sleepq_ac_len \in 0..(UintMod - 1)
  /\ mgmt_sleepq_len \in 0..(UintMod - 1)
  /\ pend \in [Acs \cup {"mgmt"} -> Nat]
  /\ tx \in Acs \cup {"idle"}
  /\ rx \in RxStates
  /\ aging \in {"idle", "store", "tim"}
  /\ spOpen \in BOOLEAN

\* rtw_ap_parse_sta_wmm_ie at association
Init ==
  /\ smp \in BOOLEAN /\ uapsd \in SUBSET Acs /\ dozing = FALSE
  /\ sleep = FALSE /\ dz = FALSE /\ tim = FALSE /\ alive_chk = FALSE
  /\ sleep_q = << >> /\ sleepq_len = 0 /\ sleepq_ac_len = 0
  /\ mgmt_sleep_q = 0 /\ mgmt_sleepq_len = 0
  /\ pend = [q \in Acs \cup {"mgmt"} |-> 0]
  /\ tx = "idle" /\ rx = Idle /\ aging = "idle" /\ spOpen = FALSE

\* On one processor a context starts only when no other one is under way.
MayRun == smp \/ (tx = "idle" /\ rx = Idle /\ aging = "idle")

-----------------------------------------------------------------------------
\* The frames of q in the categories A.
OfCategories(q, A) == Keep(q, A)

Count(q, A) == Len(OfCategories(q, A))

\* Does a held frame of this category set the station's TIM bit?
Announced(ac) == \/ has_legacy_ac /\ ac \notin uapsd
                 \/ ~has_legacy_ac /\ ac \in uapsd

(***************************************************************************)
(* xmitframe_enqueue_for_sleeping_sta for the frames of s, and             *)
(* mgmt_xmitframe_enqueue_for_sleeping_sta for n management frames.        *)
(***************************************************************************)
Hold(s, n) ==
  /\ sleep_q' = sleep_q \o s
  /\ sleepq_len' = Plus(sleepq_len, Len(s))
  /\ sleepq_ac_len' = Plus(sleepq_ac_len, Count(s, uapsd))
  /\ mgmt_sleep_q' = mgmt_sleep_q + n
  /\ mgmt_sleepq_len' = Plus(mgmt_sleepq_len, n)
  /\ tim' = (tim \/ n > 0 \/ \E i \in 1..Len(s) : Announced(s[i]))

\* The frames of s and n management frames join those that wait to go out.
Release(s, n) ==
  pend' = [q \in Acs \cup {"mgmt"} |->
             pend[q] + IF q = "mgmt" THEN n ELSE Count(s, {q})]

\* Fault: the bitmap is not asked.
HeldBySleepBit == sleep

Held == sleep /\ dz

-----------------------------------------------------------------------------
(***************************************************************************)
(* The transmit path.  rtw_xmit_posthandle asks under the lock whether to  *)
(* hold the frame; if not, it is queued for transmission after the lock    *)
(* was released and taken again, or goes out directly.                     *)
(***************************************************************************)
TxData(ac) ==
  /\ MayRun /\ tx = "idle"
  /\ Len(sleep_q) + pend["be"] + pend["vo"] < FrameMax
  /\ IF Held
     THEN /\ Hold(<<ac>>, 0)
          /\ UNCHANGED tx
     ELSE /\ tx' = ac
          /\ UNCHANGED <<sleep_q, sleepq_len, sleepq_ac_len, mgmt_sleep_q,
                         mgmt_sleepq_len, tim>>
  /\ UNCHANGED <<station, sleep, dz, alive_chk, pend, rx, aging, spOpen>>

TxPass ==
  /\ tx # "idle"
  /\ \/ UNCHANGED pend
     \/ pend' = [pend EXCEPT ![tx] = @ + 1]
  /\ tx' = "idle"
  /\ UNCHANGED <<station, flags, sleep_q, sleepq_len, sleepq_ac_len,
                 mgmt_sleep_q, mgmt_sleepq_len, rx, aging, spOpen>>

\* rtw_hal_mgnt_xmit: a management frame is held, or goes out directly.
TxMgmt ==
  /\ MayRun
  /\ Held /\ mgmt_sleep_q + pend["mgmt"] < MgmtMax
  /\ Hold(<< >>, 1)
  /\ UNCHANGED <<station, sleep, dz, alive_chk, pend, tx, rx, aging, spOpen>>

\* rtl8822cu_xmit_tasklet: a released frame goes to the device.
XmitTasklet ==
  /\ MayRun
  /\ \E q \in DOMAIN pend : /\ pend[q] > 0
                            /\ pend' = [pend EXCEPT ![q] = @ - 1]
  /\ UNCHANGED <<station, flags, sleep_q, sleepq_len, sleepq_ac_len,
                 mgmt_sleep_q, mgmt_sleepq_len, tx, rx, aging, spOpen>>

-----------------------------------------------------------------------------
(***************************************************************************)
(* The receive tasklet: a data frame with the power management bit.        *)
(***************************************************************************)
Repeat(ac, n) == [i \in 1..n |-> ac]

\* A section under the lock leaves s and a in the state word.  The store of the
\* aging loop may fall into it: it is overwritten, or only its sleep bit stays,
\* when it comes between the section's two changes.
StoreWord(s, a) ==
  /\ alive_chk' = a
  /\ \/ sleep' = s /\ UNCHANGED aging
     \/ aging = "store" /\ aging' = "tim" /\ sleep' \in {s, TRUE}

\* stop_sta_xmit: frames that wait to go out are held from now on.
StopStaXmit ==
  /\ StoreWord(TRUE, alive_chk) /\ dz' = TRUE
  /\ Hold(Repeat("vo", pend["vo"]) \o Repeat("be", pend["be"]), pend["mgmt"])
  /\ pend' = [q \in DOMAIN pend |-> 0]
  /\ UNCHANGED spOpen

\* Fault: a management frame left behind does not keep the station asleep.
EmptyIgnoringMgmt(len, mgmtLen) == len = 0

Empty(len, mgmtLen) == len = 0 /\ mgmtLen = 0

\* The last of n delivery-enabled frames that go out has the EOSP bit, if the
\* counter then is zero.
Eosp(n, acLen) == n > 0 /\ acLen = 0

\* wakeup_sta_to_xmit(ALL_FRAME)
WakeupSta ==
  /\ Release(sleep_q, mgmt_sleep_q)
  /\ sleep_q' = << >> /\ mgmt_sleep_q' = 0
  /\ sleepq_len' = Minus(sleepq_len, Len(sleep_q))
  /\ sleepq_ac_len' = Minus(sleepq_ac_len, Count(sleep_q, uapsd))
  /\ mgmt_sleepq_len' = Minus(mgmt_sleepq_len, mgmt_sleep_q)
  /\ IF Empty(sleepq_len', mgmt_sleepq_len')
     THEN StoreWord(FALSE, FALSE) /\ dz' = FALSE /\ tim' = FALSE
     ELSE UNCHANGED <<flags, aging>>
  /\ spOpen' = (spOpen /\ ~Eosp(Count(sleep_q, uapsd), sleepq_ac_len'))

\* process_pwrbit_data; a QoS frame goes on to process_wmmps_data.
RxData(doze, qos, ac) ==
  /\ MayRun /\ rx = Idle
  /\ dozing' = doze
  /\ IF doze = sleep THEN UNCHANGED <<flags, queues, aging, spOpen>>
     ELSE IF doze THEN StopStaXmit ELSE WakeupSta
  /\ rx' = IF qos /\ uapsd # {} THEN [Idle EXCEPT !.pc = "wmmps", !.ac = ac] ELSE Idle
  /\ UNCHANGED <<smp, uapsd, tx>>

(***************************************************************************)
(* process_wmmps_data.  A trigger opens a service period and releases the  *)
(* delivery-enabled frames; without such frames it is answered by a QoS    *)
(* null frame with EOSP.                                                   *)
(***************************************************************************)
\* Fault: the counter is not taken down with the frames.
AcLenAfterKept(n) == sleepq_ac_len

AcLenAfter(n) == Minus(sleepq_ac_len, n)

RxWmmps ==
  LET trigger == sleep /\ rx.ac \in uapsd IN
  /\ rx.pc = "wmmps"
  /\ rx' = IF trigger /\ sleepq_ac_len > 0 THEN [rx EXCEPT !.pc = "deliver"] ELSE Idle
  /\ spOpen' = IF trigger THEN sleepq_ac_len > 0 ELSE spOpen
  /\ UNCHANGED <<station, flags, queues, tx, aging>>

\* xmit_delivery_enabled_frames
RxDeliver ==
  LET out == Count(sleep_q, uapsd) IN
  /\ rx.pc = "deliver"
  /\ rx' = Idle
  /\ Release(OfCategories(sleep_q, uapsd), 0)
  /\ sleep_q' = OfCategories(sleep_q, Acs \ uapsd)
  /\ sleepq_len' = Minus(sleepq_len, out)
  /\ sleepq_ac_len' = AcLenAfter(out)
  /\ tim' = (tim /\ ~(Eosp(out, sleepq_ac_len') /\ ~has_legacy_ac))
  /\ spOpen' = (spOpen /\ ~Eosp(out, sleepq_ac_len'))
  /\ UNCHANGED <<station, sleep, dz, alive_chk, mgmt_sleep_q, mgmt_sleepq_len,
                 tx, aging>>

(***************************************************************************)
(* A PS-Poll (validate_recv_ctrl_frame), which has the priority of best    *)
(* effort.  It ends the aging loop's check without the lock; one           *)
(* management frame and one data frame are released under it; what follows *)
(* runs without it.                                                        *)
(***************************************************************************)
RxPsPoll ==
  /\ MayRun /\ rx = Idle
  /\ dozing /\ "be" \notin uapsd
  /\ sleepq_ac_len - Count(sleep_q, uapsd) < PollMax
  /\ rx' = [Idle EXCEPT !.pc = IF alive_chk THEN "poll_alive" ELSE "poll_take"]
  /\ UNCHANGED <<station, flags, queues, tx, aging, spOpen>>

\* The station slept when the word was loaded: only then is alive_chk set.
PollAlive ==
  /\ rx.pc = "poll_alive"
  /\ sleep' = TRUE /\ alive_chk' = FALSE
  /\ rx' = [rx EXCEPT !.pc = "poll_take"]
  /\ UNCHANGED <<station, dz, tim, queues, tx, aging, spOpen>>

PollTake ==
  /\ rx.pc = "poll_take"
  /\ IF Held
     THEN LET n == IF mgmt_sleep_q > 0 THEN 1 ELSE 0
              s == IF sleep_q # << >> THEN <<Head(sleep_q)>> ELSE << >>
          IN  /\ Release(s, n)
              /\ mgmt_sleep_q' = mgmt_sleep_q - n
              /\ mgmt_sleepq_len' = Minus(mgmt_sleepq_len, n)
              /\ sleep_q' = SubSeq(sleep_q, Len(s) + 1, Len(sleep_q))
              /\ sleepq_len' = Minus(sleepq_len, Len(s))
              /\ rx' = [Idle EXCEPT !.pc = "poll_check", !.empty = (n = 0 /\ s = << >>)]
     ELSE /\ rx' = Idle
          /\ UNCHANGED <<pend, mgmt_sleep_q, mgmt_sleepq_len, sleep_q, sleepq_len>>
  /\ UNCHANGED <<station, flags, sleepq_ac_len, tx, aging, spOpen>>

\* "Error handler : TIM is setted, but data queue and management queue is
\* empty": a null frame if the counters agree, else they are reset.
PollError == rx.empty /\ tim

PollCheck ==
  /\ rx.pc = "poll_check"
  /\ IF PollError THEN sleepq_len' = 0 /\ mgmt_sleepq_len' = 0
                  ELSE UNCHANGED <<sleepq_len, mgmt_sleepq_len>>
  /\ rx' = [rx EXCEPT !.pc = "poll_test"]
  /\ UNCHANGED <<station, flags, sleep_q, sleepq_ac_len, mgmt_sleep_q, pend,
                 tx, aging, spOpen>>

PollTest ==
  /\ rx.pc = "poll_test"
  /\ rx' = IF Empty(sleepq_len, mgmt_sleepq_len)
           THEN [rx EXCEPT !.pc = "poll_clear"] ELSE Idle
  /\ UNCHANGED <<station, flags, queues, tx, aging, spOpen>>

PollClear ==
  /\ rx.pc = "poll_clear"
  /\ tim' = FALSE
  /\ rx' = Idle
  /\ UNCHANGED <<station, sleep, dz, alive_chk, queues, tx, aging, spOpen>>

-----------------------------------------------------------------------------
(***************************************************************************)
(* expire_timeout_chk, with the station's entry in the association list.   *)
(* A station that has been silent and dozes is called by its TIM bit; its  *)
(* state word is loaded and stored without the lock.  When frames run out, *)
(* for this station or one before it in the list, the queues are flushed   *)
(* as if it had woken.                                                     *)
(***************************************************************************)
AgingLoad ==
  /\ MayRun /\ aging = "idle"
  /\ sleep /\ ~alive_chk
  /\ aging' = "store"
  /\ UNCHANGED <<station, flags, queues, tx, rx, spOpen>>

AgingStore ==
  /\ aging = "store"
  /\ sleep' = TRUE /\ alive_chk' = TRUE
  /\ tim' = TRUE
  /\ aging' = "idle"
  /\ UNCHANGED <<station, dz, queues, tx, rx, spOpen>>

\* Its store was lost; the bit in the bitmap is not.
AgingTim ==
  /\ aging = "tim"
  /\ tim' = TRUE
  /\ aging' = "idle"
  /\ UNCHANGED <<station, sleep, dz, alive_chk, queues, tx, rx, spOpen>>

AgingFlush ==
  /\ MayRun /\ aging = "idle"
  /\ WakeupSta
  /\ UNCHANGED <<station, tx, rx>>

-----------------------------------------------------------------------------
Next ==
  \/ \E ac \in Acs : TxData(ac)
  \/ TxPass \/ TxMgmt \/ XmitTasklet
  \/ \E doze, qos \in BOOLEAN, ac \in Acs : RxData(doze, qos, ac)
  \/ RxWmmps \/ RxDeliver
  \/ RxPsPoll \/ PollAlive \/ PollTake \/ PollCheck \/ PollTest \/ PollClear
  \/ AgingLoad \/ AgingStore \/ AgingTim \/ AgingFlush

Spec == Init /\ [][Next]_vars

-----------------------------------------------------------------------------
\* The state is well typed, and on one processor the counters tell the length of
\* the queues they stand for: every decision to wake the station or to clear its
\* TIM bit is taken on them.  On several, ErrorHandlerOnEmpty is how they go wrong.
CountersExact ==
  /\ TypeOK
  /\ ~smp => sleepq_len = Len(sleep_q) /\ mgmt_sleepq_len = mgmt_sleep_q

\* On one processor, a station that has said it is awake is treated so, and none of
\* its frames is held back: it would not ask for them (process_pwrbit_data).
AwakeServed ==
  ~smp /\ ~dozing => ~sleep /\ ~dz /\ sleep_q = << >> /\ mgmt_sleep_q = 0

\* On any number of processors, whichever stores to the state word are lost, frames
\* are held only for a station that is marked asleep in both places, so that its
\* next frame without the power management bit releases them (wakeup_sta_to_xmit
\* runs only then).
HeldWhileAsleep == sleep_q # << >> \/ mgmt_sleep_q > 0 => sleep /\ dz

\* On one processor, a dozing station is told of the frames it has to fetch: its
\* TIM bit is set while a frame of a category it polls for is held, or any frame if
\* it polls for none (the management frames of such a station excepted, see
\* xmit_delivery_enabled_frames).
HeldIsAnnounced ==
  ~smp /\ rx = Idle /\ ~tim =>
    /\ \A i \in 1..Len(sleep_q) : sleep_q[i] \in uapsd /\ has_legacy_ac
    /\ has_legacy_ac => mgmt_sleep_q = 0

\* On any number of processors, a trigger finds the delivery-enabled frames that
\* are held: the counter it tests first (rtw_recv.c:1018) never falls behind.
TriggerReachesFrames == sleepq_ac_len >= Count(sleep_q, uapsd)

\* On any number of processors, a service period that a trigger opens is closed by
\* the time the trigger has been handled, for a station that does not also fetch
\* frames by polls: by the EOSP of the last frame or of a null frame, or, when the
\* aging loop takes the frames between the test and the delivery (rtw_recv.c:1018,
\* 1020), by that of the last frame it flushes (rtw_xmit.c:5912-5921).
PeriodClosed == "be" \in uapsd /\ rx.pc # "deliver" => ~spOpen

\* The comment at rtw_recv.c:1783: the error handler acts on empty queues.
ErrorHandlerOnEmpty ==
  rx.pc = "poll_check" /\ PollError => sleep_q = << >> /\ mgmt_sleep_q = 0
============================================================================
