------------------------- MODULE RecvReorderProofs -------------------------
(***************************************************************************)
(* Theorems about RecvReorder, for every number space, window, waiting     *)
(* time and set of frames.                                                 *)
(***************************************************************************)
EXTENDS RecvReorder, FiniteSetTheorems, SequenceTheorems, NaturalsInduction,
        WellFoundedInduction, TLAPS

-----------------------------------------------------------------------------
(***************************************************************************)
(* The driver's arithmetic.  Frames are numbered without end; the driver   *)
(* sees the remainder of that number.                                      *)
(***************************************************************************)
LEMMA Quotient ==
  ASSUME NEW S \in Nat \ {0}, NEW a \in Int
  PROVE  \E q \in Int, r \in 0..(S - 1) : a = S * q + r /\ r = a % S
<1>1. a \div S \in Int
  BY SMT
<1>2. a = S * (a \div S) + (a % S)
  BY SMT
<1>3. a % S \in 0..(S - 1)
  OBVIOUS
<1> QED
  BY <1>1, <1>2, <1>3

\* A remainder is what is left of a multiple, and nothing else is.
LEMMA RemainderIs ==
  ASSUME NEW S \in Nat \ {0}, NEW a \in Int, NEW q \in Int, NEW r \in 0..(S - 1), a = S * q + r
  PROVE  a % S = r
<1>1. PICK p \in Int, t \in 0..(S - 1) : a = S * p + t /\ t = a % S
  BY Quotient
<1>2. S * p + t = S * q + r
  BY <1>1
<1>3. p = q /\ t = r
  BY <1>2, SMT
<1> QED
  BY <1>1, <1>3

LEMMA RemainderOfSum ==
  ASSUME NEW S \in Nat \ {0}, NEW a \in Int, NEW b \in Int
  PROVE  ((a % S) + b) % S = (a + b) % S
<1>1. PICK p \in Int, t \in 0..(S - 1) : a = S * p + t /\ t = a % S
  BY Quotient
<1>2. t + b \in Int /\ a + b \in Int /\ p \in Int
  OBVIOUS
<1>3. PICK q \in Int, u \in 0..(S - 1) : t + b = S * q + u /\ u = (t + b) % S
  BY <1>2, Quotient
<1>4. a + b = S * (p + q) + u
  <2>1. S * (p + q) = S * p + S * q
    OBVIOUS
  <2> QED BY <1>1, <1>3, <2>1
<1>5. (a + b) % S = u
  <2>1. p + q \in Int
    OBVIOUS
  <2> QED BY <1>2, <1>4, <2>1, RemainderIs
<1> QED
  BY <1>1, <1>3, <1>5

LEMMA RemainderOfDifference ==
  ASSUME NEW S \in Nat \ {0}, NEW a \in Int, NEW b \in Int
  PROVE  ((a % S) - (b % S)) % S = (a - b) % S
<1>1. PICK p \in Int, t \in 0..(S - 1) : b = S * p + t /\ t = b % S
  BY Quotient
<1>2. -t \in Int /\ a - t \in Int /\ a - b \in Int /\ a % S \in Int
  OBVIOUS
<1>3. ((a % S) + (-t)) % S = (a + (-t)) % S
  BY <1>2, RemainderOfSum
<1>4. (a % S) + (-t) = (a % S) - (b % S) /\ a + (-t) = a - t
  BY <1>1, <1>2
<1>5. PICK q \in Int, u \in 0..(S - 1) : a - b = S * q + u /\ u = (a - b) % S
  BY <1>2, Quotient
<1>6. a - t = S * (p + q) + u
  <2>1. PICK x \in Int, y \in Int : x = S * p /\ y = S * q
    OBVIOUS
  <2>2. S * (p + q) = x + y
    BY <2>1
  <2>3. b = x + t /\ a - b = y + u
    BY <1>1, <1>5, <2>1
  <2>4. a - t = x + y + u
    BY <2>3
  <2> QED BY <2>2, <2>4
<1>7. (a - t) % S = u
  <2>1. p + q \in Int
    OBVIOUS
  <2> QED BY <1>2, <1>6, <2>1, RemainderIs
<1> QED
  BY <1>3, <1>4, <1>5, <1>7

\* Numbers at most half of the space either way are their own remainder, or miss
\* it by one turn.
LEMMA RemainderNear ==
  ASSUME NEW S \in Nat \ {0}, NEW d \in Int, -S <= d, d < S
  PROVE  d % S = IF d < 0 THEN d + S ELSE d
<1>1. CASE d < 0
  BY <1>1, SMT
<1>2. CASE d >= 0
  BY <1>2, SMT
<1> QED
  BY <1>1, <1>2

\* Half of the space is a whole number, and holds two windows and a loss.
LEMMA HalfIs ==
  \E h \in Nat : /\ h = SeqSpace \div 2 /\ SeqSpace = 2 * h
                 /\ 2 * WinSize + MaxLoss <= h /\ 2 <= h
                 /\ SeqSpace \in Nat \ {0} /\ WinSize \in Nat \ {0} /\ MaxLoss \in Nat
<1>1. SeqSpace \in Nat /\ SeqSpace % 2 = 0 /\ WinSize \in Nat \ {0} /\ MaxLoss \in Nat
  BY SizesAssumption
<1>2. PICK h \in Nat : h = SeqSpace \div 2 /\ SeqSpace = 2 * h
  BY <1>1
<1>3. 2 * WinSize + MaxLoss <= h
  BY <1>2, HalfSpaceAssumption
<1>4. 2 <= h /\ SeqSpace # 0
  BY <1>1, <1>2, <1>3
<1> QED
  BY <1>1, <1>2, <1>3, <1>4

\* SN_LESS on the air numbers of two frames that are at most half of the space
\* apart tells which was sent first, wherever the numbers wrap (rtw_recv.h:221).
THEOREM ComparisonExact ==
  ASSUME NEW a \in Int, NEW b \in Int, -(SeqSpace \div 2) <= a - b, a - b < SeqSpace \div 2
  PROVE  SN_LESS(SeqNum(a), SeqNum(b)) <=> a < b
<1>1. PICK h \in Nat : /\ h = SeqSpace \div 2 /\ SeqSpace = 2 * h /\ 2 <= h
                       /\ SeqSpace \in Nat \ {0}
  BY HalfIs
<1>2. ((a % SeqSpace) - (b % SeqSpace)) % SeqSpace = (a - b) % SeqSpace
  BY <1>1, RemainderOfDifference
<1>3. PICK d \in Int : d = a - b
  OBVIOUS
<1>4. -h <= d /\ d < h
  BY <1>1, <1>3
<1>5. d % SeqSpace = IF d < 0 THEN d + SeqSpace ELSE d
  <2>1. -SeqSpace <= d /\ d < SeqSpace
    BY <1>1, <1>4
  <2> QED BY <1>1, <2>1, RemainderNear
<1>6. SN_LESS(SeqNum(a), SeqNum(b)) <=> d % SeqSpace >= h
  BY <1>1, <1>2, <1>3 DEF SN_LESS, SeqNum
<1>7. d % SeqSpace >= h <=> d < 0
  BY <1>1, <1>4, <1>5
<1> QED
  BY <1>3, <1>6, <1>7

\* Different frames less than a turn apart have different numbers.
LEMMA SameNumber ==
  ASSUME NEW a \in Int, NEW b \in Int, -SeqSpace < a - b, a - b < SeqSpace
  PROVE  SeqNum(a) = SeqNum(b) <=> a = b
<1>1. SeqSpace \in Nat \ {0}
  BY HalfIs
<1>2. ((a % SeqSpace) - (b % SeqSpace)) % SeqSpace = (a - b) % SeqSpace
  BY <1>1, RemainderOfDifference
<1>3. PICK d \in Int : d = a - b
  OBVIOUS
<1>4. d % SeqSpace = IF d < 0 THEN d + SeqSpace ELSE d
  <2>1. -SeqSpace <= d /\ d < SeqSpace
    BY <1>1, <1>3
  <2> QED BY <1>1, <2>1, RemainderNear
<1>5. ASSUME SeqNum(a) = SeqNum(b) PROVE a = b
  <2>1. PICK r \in Int : r = a % SeqSpace /\ r = b % SeqSpace
    BY <1>1, <1>5 DEF SeqNum
  <2>2. d % SeqSpace = (r - r) % SeqSpace
    BY <1>2, <1>3, <2>1
  <2>3. (r - r) % SeqSpace = 0
    BY <1>1
  <2> QED BY <1>1, <1>3, <1>4, <2>2, <2>3
<1> QED
  BY <1>5

\* check_indicate_seq moves the window as it would move one over numbers that never
\* wrap: on by one, or so far that a frame beyond its end becomes its end.
THEOREM WindowShiftExact ==
  ASSUME NEW w \in Int, NEW n \in Int, w <= n, n - w < SeqSpace \div 2
  PROVE  ShiftWindow(SeqNum(w), SeqNum(n)) =
           SeqNum(IF n = w THEN w + 1
                  ELSE IF n > w + WinSize - 1 THEN n + 1 - WinSize ELSE w)
<1>0. PICK h \in Nat : /\ h = SeqSpace \div 2 /\ SeqSpace = 2 * h
                       /\ 2 * WinSize + MaxLoss <= h /\ 2 <= h
                       /\ SeqSpace \in Nat \ {0} /\ WinSize \in Nat \ {0} /\ MaxLoss \in Nat
  BY HalfIs
<1>1. (SeqNum(w) + WinSize - 1) % SeqSpace = SeqNum(w + (WinSize - 1))
  <2>0. WinSize - 1 \in Int
    BY <1>0
  <2>1. ((w % SeqSpace) + (WinSize - 1)) % SeqSpace = (w + (WinSize - 1)) % SeqSpace
    BY <1>0, <2>0, RemainderOfSum, Zenon
  <2>2. w % SeqSpace \in Int
    BY <1>0
  <2>3. (w % SeqSpace) + WinSize - 1 = (w % SeqSpace) + (WinSize - 1)
    BY <1>0, <2>2
  <2> QED BY <2>1, <2>3 DEF SeqNum
<1>2. SN_LESS(SeqNum(w + (WinSize - 1)), SeqNum(n)) <=> w + (WinSize - 1) < n
  <2>1. PICK e \in Int : e = w + (WinSize - 1)
    BY <1>0
  <2>2. -h <= e - n /\ e - n < h
    BY <1>0, <2>1
  <2> QED BY <1>0, <2>1, <2>2, ComparisonExact
<1>3. SeqNum(n) = SeqNum(w) <=> n = w
  <2>1. -SeqSpace < n - w /\ n - w < SeqSpace
    BY <1>0
  <2> QED BY <2>1, SameNumber
<1>4. CASE n = w
  <2>0. 1 \in Int
    OBVIOUS
  <2>1. ((w % SeqSpace) + 1) % SeqSpace = (w + 1) % SeqSpace
    BY <1>0, <2>0, RemainderOfSum, Zenon
  <2> QED BY <1>4, <2>1 DEF ShiftWindow, Succ, SeqNum
<1>5. CASE n # w /\ n > w + WinSize - 1
  <2>1. w + (WinSize - 1) < n
    BY <1>0, <1>5
  <2>2. ShiftWindow(SeqNum(w), SeqNum(n)) =
          IF SeqNum(n) >= WinSize - 1 THEN SeqNum(n) + 1 - WinSize
          ELSE SeqSpace - 1 - (WinSize - (SeqNum(n) + 1)) + 1
    BY <1>1, <1>2, <1>3, <1>5, <2>1 DEF ShiftWindow
  <2>3. PICK s \in 0..(SeqSpace - 1) : s = SeqNum(n)
    BY <1>0 DEF SeqNum
  <2>4. (s + (1 - WinSize)) % SeqSpace = (n + (1 - WinSize)) % SeqSpace
    <3>0. 1 - WinSize \in Int
      BY <1>0
    <3>1. ((n % SeqSpace) + (1 - WinSize)) % SeqSpace = (n + (1 - WinSize)) % SeqSpace
      BY <1>0, <3>0, RemainderOfSum, Zenon
    <3> QED BY <2>3, <3>1 DEF SeqNum
  <2>5. PICK d \in Int : d = s + (1 - WinSize)
    BY <1>0, <2>3
  <2>6. -SeqSpace <= d /\ d < SeqSpace
    BY <1>0, <2>3, <2>5
  <2>7. d % SeqSpace = IF d < 0 THEN d + SeqSpace ELSE d
    BY <1>0, <2>6, RemainderNear
  <2>8. ShiftWindow(SeqNum(w), SeqNum(n)) = IF d < 0 THEN d + SeqSpace ELSE d
    BY <1>0, <2>2, <2>3, <2>5
  <2>9. n + 1 - WinSize = n + (1 - WinSize)
    BY <1>0
  <2>10. SeqNum(n + 1 - WinSize) = d % SeqSpace
    BY <2>4, <2>5, <2>9 DEF SeqNum
  <2> QED BY <1>5, <2>7, <2>8, <2>10
<1>6. CASE n # w /\ ~(n > w + WinSize - 1)
  <2>1. ~(w + (WinSize - 1) < n)
    BY <1>0, <1>6
  <2> QED BY <1>1, <1>2, <1>3, <1>6, <2>1 DEF ShiftWindow
<1> QED BY <1>4, <1>5, <1>6

-----------------------------------------------------------------------------
TimerOK == timer \in 0..WaitTime \cup {None}

\* The flag stands for a timer that runs or a handler about to run, and the
\* receive path cancels the timer only with nothing held and the flag down.
ReorderTimerInv ==
  /\ TimerOK
  /\ NoStrandedFrame
  /\ bReorderWaiting => timer # None \/ handler.pc = "fired"
  /\ rx.pc = "cancel" => pending = << >> /\ ~bReorderWaiting

LEMMA TimerInvInit == Init => ReorderTimerInv
  BY SizesAssumption DEF Init, ReorderTimerInv, TimerOK, NoStrandedFrame

\* The receive tasklet's steps.
LEMMA TimerInvRecv ==
  ASSUME ReorderTimerInv, RecvTasklet
  PROVE  ReorderTimerInv'
<1> USE SizesAssumption DEF ReorderTimerInv, TimerOK, NoStrandedFrame
<1>1. ASSUME NEW n \in Frames, RecvBypass(n) PROVE ReorderTimerInv'
  BY <1>1 DEF RecvBypass, Received, UnlockedStore, timing, session
<1>2. ASSUME NEW n \in Frames, RecvDropped(n) PROVE ReorderTimerInv'
  BY <1>2 DEF RecvDropped, Received, timing
<1>3. ASSUME NEW n \in Frames, RecvQueued(n) PROVE ReorderTimerInv'
  <2> DEFINE first == ShiftWindow(StartFor(n), SeqNum(n))
             q     == InsertSorted(pending, n)
             rest  == SubSeq(q, InOrderCount(q, first) + 1, Len(q))
  <2>1. /\ pending' = rest /\ bReorderWaiting' = (rest # << >>)
        /\ timer' = IF rest # << >> /\ ~bReorderWaiting THEN WaitTime ELSE timer
        /\ rx' = [rx EXCEPT !.pc = IF rest = << >> THEN "cancel" ELSE "idle"]
        /\ handler' = handler
    BY <1>3 DEF RecvQueued, Hold, WaitingAfter, TimerAfter
  <2>2. handler.pc \in {"idle", "fired"}
    BY <1>3 DEF RecvQueued, LockFree
  <2> HIDE DEF rest
  <2>3. rx'.pc = "cancel" => rest = << >>
    BY <2>1
  <2>4. bReorderWaiting' <=> rest # << >>
    BY <2>1
  <2>5. TimerOK'
    BY <2>1
  <2>6. rest # << >> => timer' # None \/ handler.pc = "fired"
    <3>1. CASE bReorderWaiting
      BY <2>1, <3>1
    <3>2. CASE ~bReorderWaiting
      BY <2>1, <3>2
    <3> QED BY <3>1, <3>2
  <2>7. pending' = rest /\ handler' = handler
    BY <2>1
  <2> QED BY <2>3, <2>4, <2>5, <2>6, <2>7
<1>4. CASE RecvBypassLoad
  BY <1>4 DEF RecvBypassLoad, window, timing, session, air
<1>5. CASE RecvBypassStore
  BY <1>5 DEF RecvBypassStore, timing, session, air
<1>6. CASE CancelTimer
  BY <1>6 DEF CancelTimer, window, session, air
<1>7. CASE RecvBar
  BY <1>7 DEF RecvBar, timing, session, air
<1>8. CASE RecvAddbaReq
  BY <1>8 DEF RecvAddbaReq, window, timing, air
<1> QED BY <1>1, <1>2, <1>3, <1>4, <1>5, <1>6, <1>7, <1>8 DEF RecvTasklet

\* The timer's steps.
LEMMA TimerInvHandler ==
  ASSUME ReorderTimerInv, TimerExpires \/ TimerHandler \/ Tick
  PROVE  ReorderTimerInv'
<1> USE SizesAssumption DEF ReorderTimerInv, TimerOK, NoStrandedFrame
<1>1. CASE TimerExpires
  BY <1>1 DEF TimerExpires, window, session, air
<1>2. CASE Tick
  BY <1>2 DEF Tick, session, air
<1>3. CASE HandlerEmpty
  BY <1>3 DEF HandlerEmpty, window, session, air
<1>4. CASE HandlerForce
  BY <1>4 DEF HandlerForce, session, air
<1>5. CASE HandlerTake
  BY <1>5 DEF HandlerTake, session, air
<1>6. CASE HandlerLoad
  BY <1>6 DEF HandlerLoad, window, session, air
<1>7. CASE HandlerStore
  BY <1>7 DEF HandlerStore, session, air
<1>8. CASE HandlerDone
  BY <1>8 DEF HandlerDone, window, session, air
<1> QED BY <1>1, <1>2, <1>3, <1>4, <1>5, <1>6, <1>7, <1>8 DEF TimerHandler

LEMMA TimerInvNext == ReorderTimerInv /\ [Next]_vars => ReorderTimerInv'
<1> SUFFICES ASSUME ReorderTimerInv, [Next]_vars PROVE ReorderTimerInv'
  OBVIOUS
<1> USE DEF ReorderTimerInv, TimerOK, NoStrandedFrame
<1>1. CASE RecvTasklet
  BY <1>1, TimerInvRecv
<1>2. CASE TimerExpires \/ TimerHandler \/ Tick
  BY <1>2, TimerInvHandler
<1>3. CASE CmdThread
  BY <1>3 DEF CmdThread, AddBaRspSetBit, AddBaRspEnable, window, timing, air
<1>4. CASE EndAgreement
  BY <1>4 DEF EndAgreement, window, timing, air
<1>5. CASE StationAdvance
  BY <1>5 DEF StationAdvance, window, timing, session
<1>6. CASE UNCHANGED vars
  BY <1>6 DEF vars, window, timing, session
<1> QED BY <1>1, <1>2, <1>3, <1>4, <1>5, <1>6 DEF Next

\* No frame is held back without a timer or its handler to end the wait, for
\* every window, waiting time and order of frames (rtw_recv.c:3695-3830).
THEOREM FrameNeverStranded == Spec => []NoStrandedFrame
<1>1. ReorderTimerInv => NoStrandedFrame
  BY DEF ReorderTimerInv
<1> QED BY <1>1, TimerInvInit, TimerInvNext, PTL DEF Spec

-----------------------------------------------------------------------------
(***************************************************************************)
(* The queue.  A walk over it stops somewhere: at the first position that  *)
(* is not in Go, or at the end.                                            *)
(***************************************************************************)
\* A set of numbers that is not empty has a least one.
LEMMA LeastElement ==
  ASSUME NEW T \in SUBSET Nat, T # {}
  PROVE  \E x \in T : \A y \in T : x <= y
<1>1. \E x \in T : \A y \in T : ~(<<y, x>> \in OpToRel(<, Nat))
  BY NatLessThanWellFounded, WFMin, Zenon
<1>2. PICK x \in T : \A y \in T : ~(<<y, x>> \in OpToRel(<, Nat))
  BY <1>1
<1>3. \A y \in T : ~(y < x)
  BY <1>2 DEF OpToRel
<1> QED
  BY <1>3

LEMMA WalkStops ==
  ASSUME NEW n \in Nat, NEW Go \in SUBSET (1..n)
  PROVE  \E k \in 0..n : (\A i \in 1..k : i \in Go) /\ (k < n => k + 1 \notin Go)
<1> DEFINE Stops == {k \in 0..n : k = n \/ k + 1 \notin Go}
<1>1. Stops \in SUBSET Nat /\ Stops # {}
  <2>1. n \in Stops
    OBVIOUS
  <2> QED BY <2>1
<1>2. PICK k \in Stops : \A j \in Stops : k <= j
  <2> HIDE DEF Stops
  <2> QED BY <1>1, LeastElement
<1>3. ASSUME NEW i \in 1..k PROVE i \in Go
  <2>1. i - 1 \in 0..n /\ i - 1 < k /\ ~(k <= i - 1) /\ i - 1 # n /\ (i - 1) + 1 = i
    OBVIOUS
  <2>2. i - 1 \notin Stops
    <3> HIDE DEF Stops
    <3> QED BY <1>2, <2>1
  <2> QED BY <2>1, <2>2
<1>4. k \in 0..n /\ (k < n => k + 1 \notin Go)
  OBVIOUS
<1> QED
  BY <1>3, <1>4

\* Where a frame is sorted in, and how many go up, are positions of the queue.
LEMMA BeforeIs ==
  ASSUME NEW q \in Seq(Frames), NEW n
  PROVE  /\ Before(q, n) \in 0..Len(q)
         /\ \A i \in 1..Before(q, n) : SN_LESS(SeqNum(q[i]), SeqNum(n))
         /\ Before(q, n) < Len(q) => ~SN_LESS(SeqNum(q[Before(q, n) + 1]), SeqNum(n))
<1> DEFINE P(k) == /\ \A i \in 1..k : SN_LESS(SeqNum(q[i]), SeqNum(n))
                   /\ k < Len(q) => ~SN_LESS(SeqNum(q[k + 1]), SeqNum(n))
           Go == {i \in 1..Len(q) : SN_LESS(SeqNum(q[i]), SeqNum(n))}
<1>0. Len(q) \in Nat /\ Go \in SUBSET (1..Len(q))
  OBVIOUS
<1>1. PICK k \in 0..Len(q) : (\A i \in 1..k : i \in Go) /\ (k < Len(q) => k + 1 \notin Go)
  <2> HIDE DEF Go
  <2> QED BY <1>0, WalkStops
<1>2. k < Len(q) => k + 1 \in 1..Len(q)
  BY <1>0
<1>3. P(k)
  BY <1>1, <1>2
<1>4. Before(q, n) = CHOOSE j \in 0..Len(q) : P(j)
  BY DEF Before
<1>5. Before(q, n) \in 0..Len(q) /\ P(Before(q, n))
  <2> HIDE DEF P
  <2> QED BY <1>3, <1>4
<1> QED
  BY <1>5

LEMMA InOrderCountIs ==
  ASSUME NEW q \in Seq(Frames), NEW s
  PROVE  /\ InOrderCount(q, s) \in 0..Len(q)
         /\ \A i \in 1..InOrderCount(q, s) : ~SN_LESS(WinAfter(q, s)[i - 1], SeqNum(q[i]))
         /\ InOrderCount(q, s) < Len(q) =>
              SN_LESS(WinAfter(q, s)[InOrderCount(q, s)], SeqNum(q[InOrderCount(q, s) + 1]))
<1> DEFINE W == WinAfter(q, s)
           P(k) == /\ \A i \in 1..k : ~SN_LESS(W[i - 1], SeqNum(q[i]))
                   /\ k < Len(q) => SN_LESS(W[k], SeqNum(q[k + 1]))
           Go == {i \in 1..Len(q) : ~SN_LESS(W[i - 1], SeqNum(q[i]))}
<1>4. InOrderCount(q, s) = CHOOSE j \in 0..Len(q) : P(j)
  BY DEF InOrderCount
<1>6. \A k : P(k) => /\ \A i \in 1..k : ~SN_LESS(WinAfter(q, s)[i - 1], SeqNum(q[i]))
                     /\ k < Len(q) => SN_LESS(WinAfter(q, s)[k], SeqNum(q[k + 1]))
  OBVIOUS
<1> HIDE DEF W
<1>0. Len(q) \in Nat /\ Go \in SUBSET (1..Len(q))
  OBVIOUS
<1>1. PICK k \in 0..Len(q) : (\A i \in 1..k : i \in Go) /\ (k < Len(q) => k + 1 \notin Go)
  <2> HIDE DEF Go
  <2> QED BY <1>0, WalkStops
<1>2. (k < Len(q) => k + 1 \in 1..Len(q) /\ (k + 1) - 1 = k) /\ \A i \in 1..k : i \in 1..Len(q)
  BY <1>0
<1>3. P(k)
  BY <1>1, <1>2
<1>5. InOrderCount(q, s) \in 0..Len(q) /\ P(InOrderCount(q, s))
  <2> HIDE DEF P
  <2> QED BY <1>3, <1>4
<1> HIDE DEF P
<1> QED
  BY <1>5, <1>6

\* Sorting a frame in, and what is left of the queue, keep it a queue of frames.
LEMMA InsertType ==
  ASSUME NEW q \in Seq(Frames), NEW n \in Frames
  PROVE  InsertSorted(q, n) \in Seq(Frames)
<1>1. PICK k \in Nat : k = Before(q, n) /\ k <= Len(q) /\ Len(q) \in Nat
  BY BeforeIs
<1>2. PICK front, back : front = SubSeq(q, 1, k) /\ back = SubSeq(q, k + 1, Len(q))
  OBVIOUS
<1>3. \A i \in 1..Len(q) : q[i] \in Frames
  OBVIOUS
<1>4. (\A i \in 1..k : q[i] \in Frames) /\ (\A i \in (k + 1)..Len(q) : q[i] \in Frames)
  BY <1>1, <1>3
<1>5. front \in Seq(Frames) /\ back \in Seq(Frames)
  BY <1>1, <1>2, <1>4, SubSeqProperties
<1>6. InsertSorted(q, n) = front \o <<n>> \o back
  <2>1. (k + 1) - 1 = k
    BY <1>1
  <2> QED BY <1>1, <1>2, <2>1 DEF InsertSorted, InsertAt
<1>7. <<n>> \in Seq(Frames)
  OBVIOUS
<1>8. front \o <<n>> \in Seq(Frames)
  BY <1>5, <1>7
<1> QED
  BY <1>5, <1>6, <1>8

LEMMA RestType ==
  ASSUME NEW q \in Seq(Frames), NEW k \in 0..Len(q)
  PROVE  SubSeq(q, k + 1, Len(q)) \in Seq(Frames)
<1>1. \A i \in (k + 1)..Len(q) : q[i] \in Frames
  OBVIOUS
<1> QED
  BY <1>1, SubSeqProperties

-----------------------------------------------------------------------------
(***************************************************************************)
(* The wait for a gap.                                                     *)
(***************************************************************************)
\* What the timer still runs.
TimerLeft == IF timer = None THEN 0 ELSE timer

\* With the flag down the timer was armed by a handler, after the frame before
\* the gap went up; with the flag up it may have been armed anew once.  While
\* the handler works, either the gap is new or the oldest frame is about to go.
GapInv ==
  /\ pending \in Seq(Frames)
  /\ headAge \in Nat
  /\ pending = << >> => headAge = 0
  /\ headAge <= 2 * WaitTime
  /\ LockFree => headAge + TimerLeft <= (IF bReorderWaiting THEN 2 * WaitTime ELSE WaitTime)
  /\ ~LockFree => \/ headAge = 0
                  \/ /\ handler.pc = "loop" /\ pending # << >>
                     /\ indicate_seq = SeqNum(Head(pending))

\* A number is not before itself.
LEMMA NotBeforeItself ==
  ASSUME NEW n \in Frames
  PROVE  ~SN_LESS(SeqNum(n), SeqNum(n))
<1>1. SeqSpace \in Nat /\ 2 <= SeqSpace \div 2 /\ n \in Nat /\ SeqSpace # 0
  <2>1. SeqSpace \in Nat /\ WinSize \in Nat \ {0} /\ MaxLoss \in Nat /\ FirstFrame \in Nat /\ LastFrame \in Nat
    BY SizesAssumption
  <2>2. PICK h \in Int : h = SeqSpace \div 2
    BY <2>1
  <2>3. 2 * WinSize + MaxLoss <= h
    BY <2>2, HalfSpaceAssumption
  <2>4. 2 <= h
    BY <2>1, <2>2, <2>3
  <2>5. SeqSpace # 0
    BY <2>1, <2>2, <2>4
  <2> QED BY <2>1, <2>2, <2>4, <2>5 DEF Frames
<1>2. PICK s \in Int : s = SeqNum(n)
  BY <1>1 DEF SeqNum
<1>3. (s - s) % SeqSpace = 0
  BY <1>1
<1> QED
  BY <1>1, <1>2, <1>3 DEF SN_LESS

LEMMA GapInit == Init => GapInv
<1> SUFFICES ASSUME Init PROVE GapInv
  OBVIOUS
<1>1. WaitTime \in Nat
  BY SizesAssumption
<1>2. /\ pending = << >> /\ headAge = 0 /\ timer = None /\ handler.pc = "idle"
      /\ bReorderWaiting = FALSE
  BY DEF Init
<1>3. << >> \in Seq(Frames)
  OBVIOUS
<1> QED
  BY <1>1, <1>2, <1>3 DEF GapInv, LockFree, TimerLeft

\* What remains of the wait when frames stay behind after one was sorted in.
LEMMA GapQueued ==
  ASSUME GapInv, TimerOK, NEW n \in Frames, RecvQueued(n)
  PROVE  GapInv'
<1>1. PICK q \in Seq(Frames) : q = InsertSorted(pending, n)
  BY InsertType DEF GapInv
<1>2. PICK k \in 0..Len(q) : k = InOrderCount(q, ShiftWindow(StartFor(n), SeqNum(n)))
  BY InOrderCountIs
<1>3. PICK rest \in Seq(Frames) : rest = SubSeq(q, k + 1, Len(q))
  BY RestType
<1>4. /\ pending' = rest /\ bReorderWaiting' = (rest # << >>)
      /\ headAge' = IF rest # << >> /\ pending # << >> /\ Head(rest) = Head(pending)
                    THEN headAge ELSE 0
      /\ timer' = IF rest # << >> /\ ~bReorderWaiting THEN WaitTime ELSE timer
      /\ handler' = handler /\ LockFree
  BY <1>1, <1>2, <1>3, Zenon DEF RecvQueued, Hold, WaitingAfter, TimerAfter
<1>5. /\ WaitTime \in Nat /\ None \notin Int
  BY SizesAssumption
<1>6. TimerLeft \in 0..WaitTime /\ (timer = None => TimerLeft = 0) /\ (timer # None => TimerLeft = timer)
  BY <1>5 DEF TimerOK, TimerLeft
<1>7. /\ headAge \in Nat /\ headAge <= 2 * WaitTime
      /\ headAge + TimerLeft <= (IF bReorderWaiting THEN 2 * WaitTime ELSE WaitTime)
  BY <1>4 DEF GapInv
<1>8. LockFree'
  BY <1>4 DEF LockFree
<1>9. headAge' \in Nat /\ headAge' <= headAge /\ headAge' <= 2 * WaitTime
  BY <1>4, <1>5, <1>7
<1>10. CASE rest = << >>
  <2>1. headAge' = 0 /\ ~bReorderWaiting' /\ timer' = timer
    BY <1>4, <1>10
  <2>2. TimerLeft' = TimerLeft
    BY <2>1 DEF TimerLeft
  <2> QED BY <1>4, <1>5, <1>6, <1>8, <2>1, <2>2 DEF GapInv
<1>11. CASE rest # << >> /\ bReorderWaiting
  <2>1. bReorderWaiting' /\ timer' = timer
    BY <1>4, <1>11
  <2>2. TimerLeft' = TimerLeft
    BY <2>1 DEF TimerLeft
  <2> QED BY <1>4, <1>5, <1>6, <1>7, <1>8, <1>9, <1>11, <2>1, <2>2 DEF GapInv
<1>12. CASE rest # << >> /\ ~bReorderWaiting
  <2>1. bReorderWaiting' /\ timer' = WaitTime
    BY <1>4, <1>12
  <2>2. TimerLeft' = WaitTime
    BY <1>5, <2>1 DEF TimerLeft
  <2> QED BY <1>4, <1>5, <1>6, <1>7, <1>8, <1>9, <1>12, <2>1, <2>2 DEF GapInv
<1> QED
  BY <1>10, <1>11, <1>12

\* Steps that leave queue, timer and handler alone: an unlocked store makes the
\* gap a new one for a handler at work.
LEMMA GapKept ==
  ASSUME GapInv, UNCHANGED <<pending, timer, handler, bReorderWaiting>>,
         \/ UNCHANGED <<indicate_seq, headAge>>
         \/ headAge' = IF LockFree THEN headAge ELSE 0
  PROVE  GapInv'
<1>1. LockFree' = LockFree /\ TimerLeft' = TimerLeft
  BY DEF LockFree, TimerLeft
<1>2. WaitTime \in Nat
  BY SizesAssumption
<1>3. CASE UNCHANGED <<indicate_seq, headAge>>
  BY <1>1, <1>3 DEF GapInv
<1>4. CASE headAge' = IF LockFree THEN headAge ELSE 0
  BY <1>1, <1>2, <1>4 DEF GapInv
<1> QED
  BY <1>3, <1>4

LEMMA GapNext == GapInv /\ TimerOK /\ [Next]_vars => GapInv'
<1> SUFFICES ASSUME GapInv, TimerOK, [Next]_vars PROVE GapInv'
  OBVIOUS
<1>0. WaitTime \in Nat /\ None \notin Int
  BY SizesAssumption
<1>a. TimerLeft \in 0..WaitTime
  BY <1>0 DEF TimerOK, TimerLeft
<1>1. ASSUME NEW n \in Frames, RecvBypass(n) PROVE GapInv'
  BY <1>1, GapKept DEF RecvBypass, UnlockedStore, timing
<1>2. ASSUME NEW n \in Frames, RecvDropped(n) PROVE GapInv'
  <2>1. LockFree /\ UNCHANGED <<pending, headAge, timer, handler, bReorderWaiting>>
    BY <1>2 DEF RecvDropped, timing
  <2> QED BY <2>1, GapKept
<1>3. ASSUME NEW n \in Frames, RecvQueued(n) PROVE GapInv'
  BY <1>3, GapQueued
<1>4. CASE RecvBypassLoad \/ RecvAddbaReq \/ CmdThread \/ EndAgreement \/ StationAdvance
           \/ UNCHANGED vars
  BY <1>4, GapKept DEF RecvBypassLoad, RecvAddbaReq, CmdThread, AddBaRspSetBit, AddBaRspEnable,
                       EndAgreement, StationAdvance, vars, window, timing
<1>5. CASE RecvBypassStore \/ RecvBar
  BY <1>5, GapKept DEF RecvBypassStore, RecvBar, UnlockedStore, timing
<1>6. CASE CancelTimer
  <2>1. /\ UNCHANGED <<pending, headAge, handler, bReorderWaiting, indicate_seq>>
        /\ TimerLeft' = 0 /\ LockFree' = LockFree
    BY <1>6 DEF CancelTimer, window, TimerLeft, LockFree
  <2> QED BY <1>0, <1>a, <2>1 DEF GapInv
<1>7. CASE Tick
  <2>1. /\ UNCHANGED <<pending, handler, bReorderWaiting>> /\ LockFree /\ LockFree'
        /\ headAge' = IF pending = << >> THEN 0 ELSE headAge + 1
        /\ timer # None /\ timer # 0 /\ timer' = timer - 1
    BY <1>7 DEF Tick, LockFree
  <2>2. timer \in 1..WaitTime /\ TimerLeft = timer
    BY <1>0, <2>1 DEF TimerOK, TimerLeft
  <2>3. TimerLeft' = timer - 1
    BY <1>0, <2>1, <2>2 DEF TimerLeft
  <2> QED BY <1>0, <2>1, <2>2, <2>3 DEF GapInv
<1>8. CASE TimerExpires
  <2>1. /\ UNCHANGED <<pending, headAge, bReorderWaiting, indicate_seq>>
        /\ timer = 0 /\ timer' = None /\ handler.pc = "idle"
        /\ handler' = [handler EXCEPT !.pc = "fired"]
    BY <1>8 DEF TimerExpires, window
  <2>2. LockFree /\ TimerLeft = 0 /\ TimerLeft' = 0
    BY <1>0, <2>1 DEF LockFree, TimerLeft
  <2>3. LockFree'
    BY <2>1 DEF LockFree
  <2> QED BY <2>1, <2>2, <2>3 DEF GapInv
<1>9. CASE HandlerEmpty
  <2>1. /\ pending = << >> /\ UNCHANGED <<pending, headAge>> /\ ~bReorderWaiting'
        /\ timer' = WaitTime /\ handler' = [handler EXCEPT !.pc = "idle"]
    BY <1>9 DEF HandlerEmpty, window
  <2>2. headAge = 0 /\ TimerLeft' = WaitTime
    BY <1>0, <2>1 DEF GapInv, TimerLeft
  <2>3. LockFree'
    BY <2>1 DEF LockFree
  <2> QED BY <1>0, <2>1, <2>2, <2>3 DEF GapInv
<1>10. CASE HandlerForce
  <2>1. /\ pending # << >> /\ UNCHANGED <<pending, headAge>>
        /\ indicate_seq' = SeqNum(Head(pending))
        /\ handler.pc = "fired" /\ handler' = [handler EXCEPT !.pc = "loop"]
    BY <1>10 DEF HandlerForce
  <2>2. handler'.pc = "loop"
    BY <2>1
  <2>3. ~LockFree'
    BY <2>2 DEF LockFree
  <2> QED BY <1>0, <2>1, <2>2, <2>3 DEF GapInv
<1>11. CASE HandlerTake
  <2>1. /\ handler.pc = "loop" /\ pending # << >> /\ pending' = Tail(pending) /\ headAge' = 0
        /\ handler' = IF indicate_seq = SeqNum(Head(pending))
                      THEN [handler EXCEPT !.pc = "load"] ELSE handler
    BY <1>11 DEF HandlerTake
  <2>2. ~LockFree'
    BY <2>1 DEF LockFree
  <2>3. pending' \in Seq(Frames)
    BY <2>1, HeadTailProperties DEF GapInv
  <2> QED BY <1>0, <2>1, <2>2, <2>3 DEF GapInv
<1>12. CASE HandlerLoad \/ HandlerStore
  <2>1. /\ UNCHANGED <<pending, headAge>>
        /\ handler.pc \in {"load", "store"} /\ handler'.pc \in {"store", "loop"}
    BY <1>12 DEF HandlerLoad, HandlerStore, window
  <2>2. ~LockFree /\ ~LockFree'
    BY <2>1 DEF LockFree
  <2>3. headAge = 0
    BY <2>1, <2>2 DEF GapInv
  <2> QED BY <1>0, <2>1, <2>2, <2>3 DEF GapInv
<1>13. CASE HandlerDone
  <2>1. /\ UNCHANGED <<pending, headAge, bReorderWaiting>> /\ handler.pc = "loop"
        /\ pending # << >> => SN_LESS(indicate_seq, SeqNum(Head(pending)))
        /\ timer' = IF pending # << >> THEN WaitTime ELSE timer
        /\ handler' = [handler EXCEPT !.pc = "idle"]
    BY <1>13 DEF HandlerDone, window
  <2>2. ~LockFree
    BY <2>1 DEF LockFree
  <2>3. LockFree'
    BY <2>1 DEF LockFree
  <2>4. headAge = 0
    <3> SUFFICES ASSUME headAge # 0 PROVE FALSE
      OBVIOUS
    <3>1. pending # << >> /\ pending \in Seq(Frames) /\ indicate_seq = SeqNum(Head(pending))
      BY <2>2 DEF GapInv
    <3>2. Head(pending) \in Frames
      BY <3>1, HeadTailProperties
    <3> QED BY <2>1, <3>1, <3>2, NotBeforeItself
  <2>5. TimerLeft' \in 0..WaitTime
    <3>1. timer' \in 0..WaitTime \/ timer' = None
      BY <1>0, <2>1 DEF TimerOK
    <3> QED BY <1>0, <3>1 DEF TimerLeft
  <2> QED BY <1>0, <2>1, <2>3, <2>4, <2>5 DEF GapInv
<1> QED
  BY <1>1, <1>2, <1>3, <1>4, <1>5, <1>6, <1>7, <1>8, <1>9, <1>10, <1>11, <1>12, <1>13
     DEF Next, RecvTasklet, TimerHandler

\* For every number space, window and waiting time: a gap holds the frames behind
\* it back for at most twice REORDER_WAIT_TIME, although frames that come in the
\* meantime arm the timer as well (rtw_recv.c:3779 and 3826).
THEOREM GapWaitIsBounded == Spec => []GapWaitBounded
<1>1. GapInv => GapWaitBounded
  BY DEF GapInv, GapWaitBounded
<1>2. ReorderTimerInv => TimerOK
  BY DEF ReorderTimerInv
<1>3. Spec => []ReorderTimerInv
  BY TimerInvInit, TimerInvNext, PTL DEF Spec
<1>4. Spec => []TimerOK
  BY <1>2, <1>3, PTL
<1>5. Spec => []GapInv
  BY <1>4, GapInit, GapNext, PTL DEF Spec
<1> QED
  BY <1>1, <1>5, PTL

-----------------------------------------------------------------------------
(***************************************************************************)
(* The window.  A frame n of the queue is compared with numbers around the *)
(* station's own window, whose end EndOfSend has not been sent yet.        *)
(***************************************************************************)
Half == SeqSpace \div 2

EndOfSend == base + WinSize

\* A sorted queue q of frames, less than a window apart, within half of the
\* space below e, and newer than what went up last.
Held(q, e, u) ==
  /\ \A i \in 1..Len(q) : q[i] < e /\ e - q[i] < Half /\ (u # None => u < q[i])
  /\ \A i, j \in 1..Len(q) : i < j => q[i] < q[j] /\ q[j] - q[i] < WinSize - 1

QueueInv ==
  /\ pending \in Seq(Frames) /\ base \in Frames
  /\ up \in Frames \cup {None} /\ late = FALSE
  /\ pending # << >> => 1 < WinSize
  /\ Held(pending, EndOfSend, up)

\* A window that starts at x reaches as far as the frames of q.
Reaches(x, q) == \A i \in 1..Len(q) : q[i] < x + WinSize

\* The timer's handler works, or may begin to before the receive tasklet ends.
HandlerNear == handler.pc \in {"fired", "load", "store"} \/ (handler.pc = "idle" /\ timer = 0)

(***************************************************************************)
(* The window starts at g; r and h are the starts that the receive tasklet *)
(* and the handler have loaded.  The increments that race with each other  *)
(* carry it at most two numbers beyond the frames the station sends.       *)
(***************************************************************************)
Numbers(g, r, h) ==
  /\ indicate_seq = SeqNum(g)
  /\ rx.pc = "store" => rx.reg = SeqNum(r)
  /\ handler.pc = "store" => handler.reg = SeqNum(h)

Reach(g, r, h) ==
  /\ Reaches(g, pending)
  /\ rx.pc = "store" => Reaches(r, pending)
  /\ handler.pc = "store" => Reaches(h, pending)

\* What went up last is behind the window, once the handler's increment is done.
BehindWindow(g, h) ==
  up # None => \/ handler.pc = "store" /\ up <= h
               \/ handler.pc = "load" /\ up <= g
               \/ handler.pc \notin {"load", "store"} /\ up < g

Bounded(g, r, h, e) ==
  /\ g <= e + 2 /\ (WinSize = 1 => g <= e)
  /\ handler.pc \in {"load", "store"} => g <= e
  /\ handler.pc = "store" => h <= e
  /\ rx.pc = "load" => g <= e + 1 /\ (HandlerNear \/ WinSize = 1 => g < e)
  /\ rx.pc = "store" => /\ r <= e + 1 /\ (HandlerNear \/ WinSize = 1 => r < e)
                        /\ handler.pc = "loop" => r < e \/ g = r

WindowAt(g, r, h) ==
  Numbers(g, r, h) /\ Reach(g, r, h) /\ BehindWindow(g, h) /\ Bounded(g, r, h, EndOfSend)

NoWindow == /\ indicate_seq = None /\ pending = << >> /\ up = None
            /\ rx.pc \notin {"load", "store"} /\ LockFree

WindowInv ==
  /\ handler.pc # "idle" => timer # 0
  /\ ~LockFree => WinSize > 1
  /\ NoWindow \/ \E g, r, h \in Int : WindowAt(g, r, h)
-----------------------------------------------------------------------------
(***************************************************************************)
(* The walk of recv_indicatepkts_in_order over the queue.                  *)
(***************************************************************************)
\* Where the window starts after the walk took frame n at a window start x.
StepOver(x, n) == IF x = SeqNum(n) THEN Succ(x) ELSE x

\* g follows the walk over the first m frames of q.
Follows(g, q, s, m) ==
  g = [i \in 0..m |-> IF i = 0 THEN s
                      ELSE IF g[i - 1] = SeqNum(q[i]) THEN Succ(g[i - 1]) ELSE g[i - 1]]

LEMMA FollowsExists ==
  ASSUME NEW q, NEW s, NEW m \in Nat
  PROVE  \E g : Follows(g, q, s, m)
<1> DEFINE Bad == {j \in Nat : ~\E g : Follows(g, q, s, j)}
<1> SUFFICES ASSUME m \in Bad PROVE FALSE
  OBVIOUS
<1>1. PICK j \in Bad : \A i \in Bad : j <= i
  <2>1. Bad \in SUBSET Nat /\ Bad # {}
    OBVIOUS
  <2> HIDE DEF Bad
  <2> QED BY <2>1, LeastElement
<1>2. j \in Nat /\ ~\E g : Follows(g, q, s, j)
  OBVIOUS
<1>3. CASE j = 0
  <2>1. Follows([i \in 0..0 |-> s], q, s, 0)
    BY DEF Follows
  <2> QED BY <1>2, <1>3, <2>1
<1>4. CASE j # 0
  <2>1. PICK p \in Nat : j = p + 1 /\ ~(j <= p)
    <3>1. j - 1 \in Nat /\ j = (j - 1) + 1 /\ ~(j <= j - 1)
      BY <1>2, <1>4
    <3> QED BY <3>1
  <2>2. p \notin Bad
    BY <1>1, <2>1
  <2>3. PICK g : Follows(g, q, s, p)
    BY <2>2
  <2> DEFINE h == [i \in 0..(p + 1) |-> IF i \in 0..p THEN g[i] ELSE StepOver(g[p], q[p + 1])]
  <2>4. \A i \in 1..(p + 1) : i - 1 \in 0..p
    BY <2>1
  <2>5. \A i \in 0..p : h[i] = g[i]
    BY <2>1
  <2>6. \A i \in 0..(p + 1) :
           h[i] = IF i = 0 THEN s
                  ELSE IF h[i - 1] = SeqNum(q[i]) THEN Succ(h[i - 1]) ELSE h[i - 1]
    <3> SUFFICES ASSUME NEW i \in 0..(p + 1)
                 PROVE  h[i] = IF i = 0 THEN s
                               ELSE IF h[i - 1] = SeqNum(q[i]) THEN Succ(h[i - 1]) ELSE h[i - 1]
      OBVIOUS
    <3>1. CASE i \in 0..p
      <4>1. h[i] = g[i]
        BY <2>5, <3>1
      <4>2. i # 0 => i - 1 \in 0..p /\ h[i - 1] = g[i - 1]
        BY <2>5, <3>1
      <4>3. g[i] = IF i = 0 THEN s
                   ELSE IF g[i - 1] = SeqNum(q[i]) THEN Succ(g[i - 1]) ELSE g[i - 1]
        BY <2>3, <3>1 DEF Follows
      <4> HIDE DEF h
      <4> QED BY <4>1, <4>2, <4>3
    <3>2. CASE i = p + 1
      <4>1. h[i] = StepOver(g[p], q[p + 1]) /\ i # 0 /\ i - 1 = p /\ p \in 0..p
        BY <2>1, <3>2
      <4>2. h[i - 1] = g[p]
        BY <2>5, <4>1
      <4> HIDE DEF h
      <4> QED BY <3>2, <4>1, <4>2 DEF StepOver
    <3> QED BY <2>1, <3>1, <3>2
  <2>7. Follows(h, q, s, p + 1)
    <3>1. h = [i \in 0..(p + 1) |-> h[i]]
      OBVIOUS
    <3> HIDE DEF h
    <3> QED BY <2>6, <3>1 DEF Follows
  <2> QED BY <1>2, <2>1, <2>7
<1> QED
  BY <1>3, <1>4

LEMMA WinAfterIs ==
  ASSUME NEW q \in Seq(Frames), NEW s
  PROVE  /\ WinAfter(q, s)[0] = s
         /\ \A i \in 1..Len(q) : WinAfter(q, s)[i] = StepOver(WinAfter(q, s)[i - 1], q[i])
<1>1. Len(q) \in Nat
  OBVIOUS
<1>2. WinAfter(q, s) = CHOOSE g : Follows(g, q, s, Len(q))
  BY DEF WinAfter, Follows
<1>3. PICK W : W = WinAfter(q, s)
  OBVIOUS
<1>4. Follows(W, q, s, Len(q))
  BY <1>1, <1>2, <1>3, FollowsExists
<1>5. /\ W[0] = s
      /\ \A i \in 1..Len(q) : W[i] = StepOver(W[i - 1], q[i])
  <2>1. \A i \in 0..Len(q) :
           W[i] = IF i = 0 THEN s
                  ELSE IF W[i - 1] = SeqNum(q[i]) THEN Succ(W[i - 1]) ELSE W[i - 1]
    BY <1>4 DEF Follows
  <2>2. 0 \in 0..Len(q) /\ \A i \in 1..Len(q) : i \in 0..Len(q) /\ i # 0
    BY <1>1
  <2> QED BY <2>1, <2>2 DEF StepOver
<1> QED
  BY <1>3, <1>5

\* What is where once frame n was sorted into q.
LEMMA InsertIs ==
  ASSUME NEW q \in Seq(Frames), NEW n \in Frames
  PROVE  \E k \in 0..Len(q) :
           /\ k = Before(q, n)
           /\ Len(InsertSorted(q, n)) = Len(q) + 1
           /\ \A i \in 1..(Len(q) + 1) :
                InsertSorted(q, n)[i] = IF i <= k THEN q[i] ELSE IF i = k + 1 THEN n ELSE q[i - 1]
<1>1. PICK k \in Nat : k = Before(q, n) /\ k <= Len(q) /\ Len(q) \in Nat
  BY BeforeIs
<1>2. PICK front, back : front = SubSeq(q, 1, k) /\ back = SubSeq(q, k + 1, Len(q))
  OBVIOUS
<1>3. \A i \in 1..Len(q) : q[i] \in Frames
  OBVIOUS
<1>4. (\A i \in 1..k : q[i] \in Frames) /\ (\A i \in (k + 1)..Len(q) : q[i] \in Frames)
  BY <1>1, <1>3
<1>5. /\ front \in Seq(Frames) /\ Len(front) = k
      /\ \A i \in 1..k : front[i] = q[i]
  BY <1>1, <1>2, <1>4, SubSeqProperties
<1>6. /\ back \in Seq(Frames) /\ Len(back) = Len(q) - k
      /\ \A i \in 1..(Len(q) - k) : back[i] = q[k + i]
  <2>1. /\ back \in Seq(Frames)
        /\ Len(back) = IF k + 1 <= Len(q) THEN Len(q) - (k + 1) + 1 ELSE 0
        /\ \A i \in 1..(Len(q) - (k + 1) + 1) : back[i] = q[(k + 1) + i - 1]
    BY <1>1, <1>2, <1>4, SubSeqProperties
  <2>2. Len(q) - (k + 1) + 1 = Len(q) - k /\ \A i \in 1..(Len(q) - k) : (k + 1) + i - 1 = k + i
    BY <1>1
  <2>3. Len(back) = Len(q) - k
    BY <1>1, <2>1
  <2> QED BY <2>1, <2>2, <2>3
<1>7. InsertSorted(q, n) = front \o <<n>> \o back
  <2>1. (k + 1) - 1 = k
    BY <1>1
  <2> QED BY <1>1, <1>2, <2>1 DEF InsertSorted, InsertAt
<1>8. PICK m : m = front \o <<n>>
  OBVIOUS
<1>9. /\ m \in Seq(Frames) /\ Len(m) = k + 1
      /\ \A i \in 1..(k + 1) : m[i] = IF i <= k THEN q[i] ELSE n
  <2>1. <<n>> \in Seq(Frames) /\ Len(<<n>>) = 1 /\ <<n>>[1] = n
    OBVIOUS
  <2>2. m \in Seq(Frames) /\ Len(m) = k + 1
    BY <1>1, <1>5, <1>8, <2>1
  <2>3. ASSUME NEW i \in 1..(k + 1) PROVE m[i] = IF i <= k THEN q[i] ELSE n
    BY <1>1, <1>5, <1>8, <2>1, <2>3
  <2> QED BY <2>2, <2>3
<1>10. PICK Q : Q = m \o back /\ Q = InsertSorted(q, n)
  BY <1>7, <1>8
<1>11. /\ Len(Q) = Len(q) + 1
       /\ \A i \in 1..(Len(q) + 1) : Q[i] = IF i <= k + 1 THEN m[i] ELSE back[i - (k + 1)]
  <2>1. /\ Len(Q) = Len(m) + Len(back)
        /\ \A i \in 1..(Len(m) + Len(back)) :
             Q[i] = IF i <= Len(m) THEN m[i] ELSE back[i - Len(m)]
    <3>1. /\ Len(m \o back) = Len(m) + Len(back)
          /\ \A i \in 1..(Len(m) + Len(back)) :
               (m \o back)[i] = IF i <= Len(m) THEN m[i] ELSE back[i - Len(m)]
      BY <1>6, <1>9, ConcatProperties
    <3> QED BY <1>10, <3>1
  <2>2. Len(m) = k + 1 /\ Len(m) + Len(back) = Len(q) + 1
    BY <1>1, <1>6, <1>9
  <2> QED BY <2>1, <2>2
<1>12. ASSUME NEW i \in 1..(Len(q) + 1)
       PROVE  Q[i] = IF i <= k THEN q[i] ELSE IF i = k + 1 THEN n ELSE q[i - 1]
  <2>1. CASE i <= k + 1
    <3>1. Q[i] = m[i] /\ i \in 1..(k + 1)
      BY <1>1, <1>11, <2>1
    <3> QED BY <1>1, <1>9, <2>1, <3>1
  <2>2. CASE ~(i <= k + 1)
    <3>1. Q[i] = back[i - (k + 1)]
      BY <1>1, <1>11, <2>2
    <3>2. i - (k + 1) \in 1..(Len(q) - k) /\ k + (i - (k + 1)) = i - 1
      BY <1>1, <2>2
    <3>3. back[i - (k + 1)] = q[i - 1]
      BY <1>6, <3>2
    <3> QED BY <1>1, <2>2, <3>1, <3>3
  <2> QED BY <2>1, <2>2
<1> QED
  BY <1>1, <1>10, <1>11, <1>12

\* A queue of frames in order, within half of the space below e.
InRange(q, e) ==
  /\ \A i \in 1..Len(q) : q[i] < e /\ e - q[i] < Half
  /\ \A i, j \in 1..Len(q) : i < j => q[i] < q[j]

\* enqueue_reorder_recvframe keeps the order, wherever the numbers wrap.
LEMMA InsertInRange ==
  ASSUME NEW q \in Seq(Frames), NEW n \in Frames, NEW e \in Int,
         InRange(q, e), n < e, e - n <= WinSize, ~IsDuplicate(q, n)
  PROVE  /\ InRange(InsertSorted(q, n), e)
         /\ \A i \in 1..Len(InsertSorted(q, n)) :
              InsertSorted(q, n)[i] = n \/ \E j \in 1..Len(q) : InsertSorted(q, n)[i] = q[j]
         /\ \E i \in 1..Len(InsertSorted(q, n)) : InsertSorted(q, n)[i] = n
<1>0. PICK h \in Nat : /\ h = Half /\ SeqSpace = 2 * h /\ 2 * WinSize + MaxLoss <= h
                       /\ WinSize \in Nat \ {0} /\ MaxLoss \in Nat
  BY HalfIs DEF Half
<1>1. /\ Len(q) \in Nat /\ \A i \in 1..Len(q) : q[i] \in Int
      /\ n \in Int
  <2>1. FirstFrame \in Nat /\ LastFrame \in Nat
    BY SizesAssumption
  <2>2. Len(q) \in Nat /\ \A i \in 1..Len(q) : q[i] \in Frames
    OBVIOUS
  <2> QED BY <2>1, <2>2 DEF Frames
<1>2. \A i \in 1..Len(q) : SN_LESS(SeqNum(q[i]), SeqNum(n)) <=> q[i] < n
  <2> SUFFICES ASSUME NEW i \in 1..Len(q)
               PROVE  SN_LESS(SeqNum(q[i]), SeqNum(n)) <=> q[i] < n
    OBVIOUS
  <2>1. PICK x \in Int : x = q[i]
    BY <1>1
  <2>2. x < e /\ e - x < h
    BY <1>0, <2>1 DEF InRange
  <2>3. -h <= x - n /\ x - n < h
    BY <1>0, <1>1, <2>2
  <2> QED BY <1>0, <1>1, <2>1, <2>3, ComparisonExact DEF Half
<1>a. PICK k \in 0..Len(q) :
        /\ k = Before(q, n)
        /\ Len(InsertSorted(q, n)) = Len(q) + 1
        /\ \A i \in 1..(Len(q) + 1) :
             InsertSorted(q, n)[i] = IF i <= k THEN q[i] ELSE IF i = k + 1 THEN n ELSE q[i - 1]
  BY InsertIs
<1>b. PICK Q : Q = InsertSorted(q, n)
  OBVIOUS
<1>3. /\ Q = InsertSorted(q, n) /\ k = Before(q, n) /\ Len(Q) = Len(q) + 1
      /\ \A i \in 1..(Len(q) + 1) :
           Q[i] = IF i <= k THEN q[i] ELSE IF i = k + 1 THEN n ELSE q[i - 1]
  BY <1>a, <1>b
<1>4. /\ \A i \in 1..k : SN_LESS(SeqNum(q[i]), SeqNum(n))
      /\ k < Len(q) => ~SN_LESS(SeqNum(q[k + 1]), SeqNum(n))
  BY <1>3, BeforeIs
<1>5. \A i \in 1..k : q[i] < n
  <2>1. \A i \in 1..k : i \in 1..Len(q)
    BY <1>1
  <2> QED BY <1>2, <1>4, <2>1
<1>6. k < Len(q) => n < q[k + 1]
  <2> SUFFICES ASSUME k < Len(q) PROVE n < q[k + 1]
    OBVIOUS
  <2>1. k + 1 \in 1..Len(q)
    BY <1>1
  <2>2. ~(q[k + 1] < n) /\ q[k + 1] \in Int
    BY <1>1, <1>2, <1>4, <2>1
  <2>3. q[k + 1] # n
    BY <1>3 DEF IsDuplicate
  <2> QED BY <1>1, <2>2, <2>3
<1>7. \A i \in (k + 1)..Len(q) : n < q[i]
  <2> SUFFICES ASSUME NEW i \in (k + 1)..Len(q) PROVE n < q[i]
    OBVIOUS
  <2>1. k < Len(q) /\ k + 1 \in 1..Len(q) /\ i \in 1..Len(q) /\ (i = k + 1 \/ k + 1 < i)
    BY <1>1
  <2>2. i = k + 1 \/ q[k + 1] < q[i]
    BY <2>1 DEF InRange
  <2> QED BY <1>1, <1>6, <2>1, <2>2
<1>8. \A i \in 1..Len(Q) : /\ i <= k => i \in 1..Len(q) /\ Q[i] = q[i] /\ q[i] < n
                           /\ i = k + 1 => Q[i] = n
                           /\ i > k + 1 => i - 1 \in 1..Len(q) /\ Q[i] = q[i - 1] /\ n < q[i - 1]
  <2> SUFFICES ASSUME NEW i \in 1..Len(Q)
               PROVE  /\ i <= k => i \in 1..Len(q) /\ Q[i] = q[i] /\ q[i] < n
                      /\ i = k + 1 => Q[i] = n
                      /\ i > k + 1 => i - 1 \in 1..Len(q) /\ Q[i] = q[i - 1] /\ n < q[i - 1]
    OBVIOUS
  <2>1. i \in 1..(Len(q) + 1)
    BY <1>3
  <2>2. CASE i <= k
    BY <1>1, <1>3, <1>5, <2>1, <2>2
  <2>3. CASE i = k + 1
    BY <1>1, <1>3, <2>1, <2>3
  <2>4. CASE i > k + 1
    <3>1. i - 1 \in (k + 1)..Len(q) /\ i - 1 \in 1..Len(q)
      BY <1>1, <2>1, <2>4
    <3>2. Q[i] = q[i - 1]
      BY <1>1, <1>3, <2>1, <2>4
    <3> QED BY <1>7, <2>4, <3>1, <3>2
  <2> QED BY <1>1, <2>1, <2>2, <2>3, <2>4
<1>9. \A i \in 1..Len(Q) : Q[i] = n \/ \E j \in 1..Len(q) : Q[i] = q[j]
  <2> SUFFICES ASSUME NEW i \in 1..Len(Q) PROVE Q[i] = n \/ \E j \in 1..Len(q) : Q[i] = q[j]
    OBVIOUS
  <2>1. i <= k \/ i = k + 1 \/ i > k + 1
    BY <1>1
  <2> QED BY <1>8, <2>1
<1>10. \A i \in 1..Len(Q) : Q[i] < e /\ e - Q[i] < Half
  <2>1. n < e /\ e - n < Half
    BY <1>0, <1>1
  <2> QED BY <1>9, <2>1 DEF InRange
<1>11. \A i, j \in 1..Len(Q) : i < j => Q[i] < Q[j]
  <2> SUFFICES ASSUME NEW i \in 1..Len(Q), NEW j \in 1..Len(Q), i < j PROVE Q[i] < Q[j]
    OBVIOUS
  <2>0. i \in Int /\ j \in Int /\ k \in Int /\ Len(Q) \in Int
    BY <1>1, <1>3
  <2>1. CASE j <= k
    <3>1. i \in 1..Len(q) /\ j \in 1..Len(q) /\ Q[i] = q[i] /\ Q[j] = q[j]
      BY <1>8, <2>0, <2>1
    <3> QED BY <3>1 DEF InRange
  <2>2. CASE i <= k /\ j = k + 1
    BY <1>8, <2>2
  <2>3. CASE i <= k /\ j > k + 1
    <3>1. i \in 1..Len(q) /\ j - 1 \in 1..Len(q) /\ Q[i] = q[i] /\ Q[j] = q[j - 1] /\ q[i] < n /\ n < q[j - 1]
      BY <1>8, <2>3
    <3>2. PICK x \in Int, y \in Int : x = q[i] /\ y = q[j - 1]
      BY <1>1, <3>1
    <3>3. x < n /\ n < y
      BY <3>1, <3>2
    <3> QED BY <1>1, <3>1, <3>2, <3>3
  <2>4. CASE i = k + 1
    BY <1>8, <2>0, <2>4
  <2>5. CASE i > k + 1
    <3>1. i - 1 \in 1..Len(q) /\ j - 1 \in 1..Len(q) /\ Q[i] = q[i - 1] /\ Q[j] = q[j - 1] /\ i - 1 < j - 1
      BY <1>8, <2>0, <2>5
    <3> QED BY <3>1 DEF InRange
  <2> QED BY <2>0, <2>1, <2>2, <2>3, <2>4, <2>5
<1>12. k + 1 \in 1..Len(Q) /\ Q[k + 1] = n
  <2>1. k + 1 \in 1..Len(Q)
    BY <1>1, <1>3
  <2> QED BY <1>8, <2>1
<1> QED
  BY <1>3, <1>9, <1>10, <1>11, <1>12 DEF InRange

\* After j frames of q the walk from f has the window at a, beyond those frames,
\* and has found every frame between f and a.
WalkedTo(a, q, f, e, j) ==
  /\ WinAfter(q, SeqNum(f))[j] = SeqNum(a)
  /\ f <= a /\ a <= e
  /\ \A i \in 1..j : q[i] < a
  /\ \A x \in f..(a - 1) : \E i \in 1..j : q[i] = x

LEMMA SuccIs ==
  ASSUME NEW a \in Int
  PROVE  Succ(SeqNum(a)) = SeqNum(a + 1)
<1>1. SeqSpace \in Nat \ {0} /\ 1 \in Int
  BY HalfIs
<1> QED
  BY <1>1, RemainderOfSum DEF Succ, SeqNum

\* One step of the walk.
LEMMA WalkStep ==
  ASSUME NEW q \in Seq(Frames), NEW e \in Int, NEW f \in Int, InRange(q, e), e - f <= Half + 1,
         NEW j \in 1..Len(q), NEW a \in Int, WalkedTo(a, q, f, e, j - 1)
  PROVE  /\ SN_LESS(WinAfter(q, SeqNum(f))[j - 1], SeqNum(q[j])) <=> a < q[j]
         /\ ~(a < q[j]) => \E b \in Int : WalkedTo(b, q, f, e, j)
<1>0. PICK h \in Nat : /\ h = Half /\ SeqSpace = 2 * h /\ 2 <= h
  BY HalfIs DEF Half
<1>1. PICK x \in Int : x = q[j]
  <2>1. FirstFrame \in Nat /\ LastFrame \in Nat /\ q[j] \in Frames
    BY SizesAssumption
  <2> QED BY <2>1 DEF Frames
<1>2. x < e /\ e - x < h
  BY <1>0, <1>1 DEF InRange
<1>3. f <= a /\ a <= e
  BY DEF WalkedTo
<1>4. -h <= a - x /\ a - x < h
  BY <1>0, <1>2, <1>3
<1>5. PICK W : W = WinAfter(q, SeqNum(f))
  OBVIOUS
<1>6. W[j - 1] = SeqNum(a)
  BY <1>5 DEF WalkedTo
<1>7. SN_LESS(W[j - 1], SeqNum(q[j])) <=> a < x
  BY <1>0, <1>1, <1>4, <1>6, ComparisonExact DEF Half
<1>8. ASSUME ~(a < x) PROVE \E b \in Int : WalkedTo(b, q, f, e, j)
  <2>1. W[j] = StepOver(W[j - 1], q[j])
    BY <1>5, WinAfterIs
  <2>2. SeqNum(a) = SeqNum(x) <=> a = x
    <3>1. -SeqSpace < a - x /\ a - x < SeqSpace
      BY <1>0, <1>4
    <3> QED BY <3>1, SameNumber
  <2>3. \A i \in 1..j : i \in 1..(j - 1) \/ i = j
    OBVIOUS
  <2>4. /\ \A i \in 1..(j - 1) : q[i] < a
        /\ \A y \in f..(a - 1) : \E i \in 1..(j - 1) : q[i] = y
    BY DEF WalkedTo
  <2>5. \A i \in 1..(j - 1) : i \in 1..j
    OBVIOUS
  <2>6. CASE a = x
    <3>1. W[j] = SeqNum(a + 1)
      BY <1>1, <1>6, <2>1, <2>2, <2>6, SuccIs DEF StepOver
    <3>2. f <= a + 1 /\ a + 1 <= e /\ a + 1 \in Int
      BY <1>2, <1>3, <2>6
    <3>3. \A i \in 1..(j - 1) : q[i] < a + 1
      <4> SUFFICES ASSUME NEW i \in 1..(j - 1) PROVE q[i] < a + 1
        OBVIOUS
      <4>1. PICK y \in Int : y = q[i]
        <5>1. i \in 1..Len(q) /\ FirstFrame \in Nat /\ LastFrame \in Nat
          BY SizesAssumption
        <5>2. q[i] \in Frames
          BY <5>1
        <5> QED BY <5>1, <5>2 DEF Frames
      <4>2. y < a
        BY <2>4, <4>1
      <4> QED BY <4>1, <4>2
    <3>4. \A i \in 1..j : q[i] < a + 1
      BY <1>1, <2>3, <2>6, <3>3
    <3>5. \A y \in f..((a + 1) - 1) : \E i \in 1..j : q[i] = y
      <4> SUFFICES ASSUME NEW y \in f..((a + 1) - 1) PROVE \E i \in 1..j : q[i] = y
        OBVIOUS
      <4>1. CASE y = a
        BY <1>1, <2>6, <4>1
      <4>2. CASE y # a
        <5>1. y \in f..(a - 1)
          BY <4>2
        <5> QED BY <2>4, <2>5, <5>1
      <4> QED BY <4>1, <4>2
    <3> QED BY <1>5, <3>1, <3>2, <3>4, <3>5 DEF WalkedTo
  <2>7. CASE a # x
    <3>1. W[j] = SeqNum(a)
      BY <1>1, <1>6, <2>1, <2>2, <2>7 DEF StepOver
    <3>2. x < a
      BY <1>8, <2>7
    <3>3. \A i \in 1..j : q[i] < a
      BY <1>1, <2>3, <2>4, <3>2
    <3>4. \A y \in f..(a - 1) : \E i \in 1..j : q[i] = y
      BY <2>4, <2>5
    <3> QED BY <1>3, <1>5, <3>1, <3>3, <3>4 DEF WalkedTo
  <2> QED BY <2>6, <2>7
<1> QED
  BY <1>1, <1>5, <1>7, <1>8

\* Where recv_indicatepkts_in_order ends: what it hands up is behind the window
\* it leaves, what it keeps is beyond.
LEMMA WalkIs ==
  ASSUME NEW q \in Seq(Frames), NEW e \in Int, NEW f \in Int, InRange(q, e),
         f <= e, e - f <= Half + 1
  PROVE  \E a \in Int :
           /\ WalkedTo(a, q, f, e, InOrderCount(q, SeqNum(f)))
           /\ \A i \in (InOrderCount(q, SeqNum(f)) + 1)..Len(q) : a < q[i]
<1>1. PICK k \in 0..Len(q) : k = InOrderCount(q, SeqNum(f))
  BY InOrderCountIs
<1>2. /\ \A i \in 1..k : ~SN_LESS(WinAfter(q, SeqNum(f))[i - 1], SeqNum(q[i]))
      /\ k < Len(q) => SN_LESS(WinAfter(q, SeqNum(f))[k], SeqNum(q[k + 1]))
  BY <1>1, InOrderCountIs
<1>3. Len(q) \in Nat
  OBVIOUS
<1>4. \A j \in 0..k : \E a \in Int : WalkedTo(a, q, f, e, j)
  <2> DEFINE Bad == {j \in 0..k : ~\E a \in Int : WalkedTo(a, q, f, e, j)}
  <2> SUFFICES Bad = {}
    OBVIOUS
  <2>1. SUFFICES ASSUME Bad # {} PROVE FALSE
    OBVIOUS
  <2>2. PICK j \in Bad : \A i \in Bad : j <= i
    <3>1. Bad \in SUBSET Nat
      BY <1>3
    <3> HIDE DEF Bad
    <3> QED BY <2>1, <3>1, LeastElement
  <2>3. j \in 0..k /\ ~\E a \in Int : WalkedTo(a, q, f, e, j)
    OBVIOUS
  <2>4. CASE j = 0
    <3>1. WinAfter(q, SeqNum(f))[0] = SeqNum(f)
      BY WinAfterIs
    <3>2. WalkedTo(f, q, f, e, 0)
      BY <3>1 DEF WalkedTo
    <3> QED BY <2>3, <2>4, <3>2
  <2>5. CASE j # 0
    <3>1. j - 1 \in 0..k /\ ~(j <= j - 1) /\ j \in 1..k /\ j \in 1..Len(q)
      BY <1>3, <2>3, <2>5
    <3>2. j - 1 \notin Bad
      <4> HIDE DEF Bad
      <4> QED BY <2>2, <3>1
    <3>3. PICK a \in Int : WalkedTo(a, q, f, e, j - 1)
      BY <3>1, <3>2
    <3>4. ~SN_LESS(WinAfter(q, SeqNum(f))[j - 1], SeqNum(q[j]))
      BY <1>2, <3>1
    <3>5. \E b \in Int : WalkedTo(b, q, f, e, j)
      BY <3>1, <3>3, <3>4, WalkStep
    <3> QED BY <2>3, <3>5
  <2> QED BY <2>4, <2>5
<1>5. PICK a \in Int : WalkedTo(a, q, f, e, k)
  <2>1. k \in 0..k
    BY <1>3
  <2> QED BY <1>4, <2>1
<1>6. \A i \in (k + 1)..Len(q) : a < q[i]
  <2> SUFFICES ASSUME NEW i \in (k + 1)..Len(q) PROVE a < q[i]
    OBVIOUS
  <2>1. k < Len(q) /\ k + 1 \in 1..Len(q) /\ (k + 1) - 1 = k /\ i \in 1..Len(q) /\ (i = k + 1 \/ k + 1 < i)
    BY <1>3
  <2>2. a < q[k + 1]
    <3>1. PICK j \in 1..Len(q) : j = k + 1 /\ j - 1 = k
      BY <2>1
    <3>2. SN_LESS(WinAfter(q, SeqNum(f))[j - 1], SeqNum(q[j])) <=> a < q[j]
      BY <1>5, <3>1, WalkStep
    <3> QED BY <1>2, <2>1, <3>1, <3>2
  <2>3. i = k + 1 \/ q[k + 1] < q[i]
    BY <2>1 DEF InRange
  <2>4. PICK x \in Int, y \in Int : x = q[k + 1] /\ y = q[i]
    <3>1. FirstFrame \in Nat /\ LastFrame \in Nat /\ q[k + 1] \in Frames /\ q[i] \in Frames
      BY <2>1, SizesAssumption
    <3> QED BY <3>1 DEF Frames
  <2>5. a < x /\ (i = k + 1 \/ x < y)
    BY <2>2, <2>3, <2>4
  <2> QED BY <2>4, <2>5
<1> QED
  BY <1>1, <1>5, <1>6

-----------------------------------------------------------------------------
(***************************************************************************)
(* A frame arrives.                                                        *)
(***************************************************************************)
LEMMA FramesAreInt ==
  /\ FirstFrame \in Nat /\ LastFrame \in Nat
  /\ \A n \in Frames : n \in Int /\ FirstFrame <= n /\ n <= LastFrame
  /\ \A q \in Seq(Frames) : Len(q) \in Nat /\ \A i \in 1..Len(q) : q[i] \in Frames /\ q[i] \in Int
<1>1. FirstFrame \in Nat /\ LastFrame \in Nat
  BY SizesAssumption
<1>2. \A n \in Frames : n \in Int /\ FirstFrame <= n /\ n <= LastFrame
  BY <1>1 DEF Frames
<1>3. \A q \in Seq(Frames) : Len(q) \in Nat /\ \A i \in 1..Len(q) : q[i] \in Frames
  OBVIOUS
<1> QED
  BY <1>1, <1>2, <1>3

\* Of the numbers that a window's start may stand for, the one that is less than
\* half of the space behind frame n.
LEMMA StartBehind ==
  ASSUME NEW n \in Int, NEW g \in Int, ~SN_LESS(SeqNum(n), SeqNum(g)), g <= n + Half
  PROVE  \E w \in Int : SeqNum(w) = SeqNum(g) /\ g <= w /\ w <= n /\ n - w < Half
<1>0. PICK h \in Nat : /\ h = Half /\ SeqSpace = 2 * h /\ 2 <= h /\ SeqSpace \in Nat \ {0}
  BY HalfIs DEF Half
<1>1. PICK d \in Int : d = n - g
  OBVIOUS
<1>2. ((n % SeqSpace) - (g % SeqSpace)) % SeqSpace = d % SeqSpace
  BY <1>0, <1>1, RemainderOfDifference
<1>3. PICK t \in Int, r \in 0..(SeqSpace - 1) : d = SeqSpace * t + r /\ r = d % SeqSpace
  BY <1>0, Quotient
<1>4. r < h
  BY <1>0, <1>2, <1>3 DEF SN_LESS, SeqNum, Half
<1>5. -h <= d
  BY <1>0, <1>1
<1>6. t >= 0
  <2> SUFFICES ASSUME t < 0 PROVE FALSE
    BY <1>3
  <2>1. SeqSpace * t <= -SeqSpace
    <3>1. t + 1 <= 0
      BY <1>3
    <3>2. SeqSpace * (t + 1) <= 0
      BY <1>0, <3>1
    <3>3. SeqSpace * (t + 1) = SeqSpace * t + SeqSpace
      BY <1>0
    <3>4. PICK x \in Int : x = SeqSpace * t
      BY <1>0
    <3> QED BY <1>0, <3>2, <3>3, <3>4
  <2>2. PICK x \in Int : x = SeqSpace * t
    BY <1>0
  <2> QED BY <1>0, <1>3, <1>4, <1>5, <2>1, <2>2
<1>7. PICK x \in Nat : x = SeqSpace * t
  BY <1>0, <1>6
<1>8. PICK w \in Int : w = n - r
  OBVIOUS
<1>9. w = g + x
  BY <1>1, <1>3, <1>7, <1>8
<1>10. w % SeqSpace = g % SeqSpace
  <2>1. PICK p \in Int, u \in 0..(SeqSpace - 1) : g = SeqSpace * p + u /\ u = g % SeqSpace
    BY <1>0, Quotient
  <2>2. p + t \in Int
    OBVIOUS
  <2>3. w = SeqSpace * (p + t) + u
    <3>1. PICK y \in Int : y = SeqSpace * p
      BY <1>0
    <3>2. SeqSpace * (p + t) = y + x
      BY <1>0, <1>7, <3>1
    <3> QED BY <1>9, <2>1, <3>1, <3>2
  <2>4. w % SeqSpace = u
    BY <1>0, <2>2, <2>3, RemainderIs
  <2> QED BY <2>1, <2>4
<1>11. g <= w /\ w <= n /\ n - w < h
  BY <1>0, <1>3, <1>4, <1>7, <1>8, <1>9
<1> QED
  BY <1>0, <1>10, <1>11 DEF SeqNum

LEMMA SeqNumType ==
  ASSUME NEW g \in Int
  PROVE  SeqNum(g) \in SeqNums /\ SeqNum(g) # None
<1>1. SeqSpace \in Nat \ {0}
  BY HalfIs
<1>2. None \notin Int
  BY SizesAssumption
<1> QED
  BY <1>1, <1>2 DEF SeqNum, SeqNums

\* What went up last, as far as frame n has to come after it.
UpFor == IF rec_abba_rsp_ack THEN None ELSE up

LEMMA StartIs ==
  ASSUME QueueInv, WindowInv, LockFree, NEW n \in SendWindow, ~SN_LESS(SeqNum(n), StartFor(n))
  PROVE  \E w \in Int : /\ StartFor(n) = SeqNum(w) /\ w <= n /\ n - w < Half
                        /\ Reaches(w, pending)
                        /\ UpFor # None => UpFor < w
<1>0. PICK h \in Nat : /\ h = Half /\ 2 * WinSize + MaxLoss <= h /\ 2 <= h
                       /\ WinSize \in Nat \ {0} /\ MaxLoss \in Nat
  BY HalfIs DEF Half
<1>1. /\ n \in Int /\ base \in Int /\ base <= n /\ n < EndOfSend /\ EndOfSend = base + WinSize
      /\ EndOfSend \in Int /\ n + WinSize >= EndOfSend
  BY <1>0, FramesAreInt DEF SendWindow, QueueInv, EndOfSend
<1>2. /\ Len(pending) \in Nat
      /\ \A i \in 1..Len(pending) : pending[i] \in Int /\ pending[i] < EndOfSend
  BY FramesAreInt DEF QueueInv, Held
<1>3. CASE rec_abba_rsp_ack \/ indicate_seq = None
  <2>a. ASSUME indicate_seq = None PROVE up = None
    <3>1. ASSUME NEW g \in Int PROVE indicate_seq # SeqNum(g)
      BY <2>a, SeqNumType
    <3>2. NoWindow
      BY <3>1 DEF WindowInv, WindowAt, Numbers
    <3> QED BY <3>2 DEF NoWindow
  <2>1. StartFor(n) = SeqNum(n) /\ UpFor = None
    BY <1>3, <2>a DEF StartFor, UpFor
  <2>2. Reaches(n, pending)
    <3> SUFFICES ASSUME NEW i \in 1..Len(pending) PROVE pending[i] < n + WinSize
      BY DEF Reaches
    <3>1. PICK x \in Int : x = pending[i] /\ x < EndOfSend
      BY <1>2
    <3> QED BY <1>0, <1>1, <3>1
  <2>3. n <= n /\ n - n < Half
    BY <1>0, <1>1
  <2> QED BY <1>1, <2>1, <2>2, <2>3
<1>4. CASE ~(rec_abba_rsp_ack \/ indicate_seq = None)
  <2>1. StartFor(n) = indicate_seq /\ UpFor = up
    BY <1>4 DEF StartFor, UpFor
  <2>2. PICK g \in Int, r \in Int, t \in Int : WindowAt(g, r, t)
    BY <1>4 DEF WindowInv, NoWindow
  <2>3. /\ indicate_seq = SeqNum(g) /\ Reaches(g, pending) /\ (up # None => up < g)
        /\ g <= EndOfSend + 2 /\ (WinSize = 1 => g <= EndOfSend)
    BY <2>2 DEF WindowAt, Numbers, Reach, BehindWindow, Bounded, LockFree
  <2>4. g <= n + h
    BY <1>0, <1>1, <2>3
  <2>5. PICK w \in Int : SeqNum(w) = SeqNum(g) /\ g <= w /\ w <= n /\ n - w < Half
    BY <1>0, <1>1, <2>1, <2>3, <2>4, StartBehind
  <2>6. Reaches(w, pending)
    <3> SUFFICES ASSUME NEW i \in 1..Len(pending) PROVE pending[i] < w + WinSize
      BY DEF Reaches
    <3>1. PICK x \in Int : x = pending[i] /\ x < g + WinSize
      BY <1>2, <2>3 DEF Reaches
    <3> QED BY <1>0, <2>5, <3>1
  <2>7. up # None => up < w
    <3> SUFFICES ASSUME up # None PROVE up < w
      OBVIOUS
    <3>1. PICK x \in Int : x = up /\ x < g
      BY <2>3, FramesAreInt DEF QueueInv
    <3> QED BY <2>5, <3>1
  <2> QED BY <2>1, <2>3, <2>5, <2>6, <2>7
<1> QED
  BY <1>3, <1>4

LEMMA LessIsTransitive == \A x, y, z \in Int : x < y /\ y < z => x < z
  OBVIOUS

\* The window start a parts the first k frames of Q from the others, which are
\* less than a window apart; u went up before all of them.
Parts(Q, k, e, u, a) ==
  /\ InRange(Q, e)
  /\ \A i \in 1..k : Q[i] < a
  /\ \A i \in (k + 1)..Len(Q) : a < Q[i]
  /\ u # None => u < a /\ \A i \in 1..Len(Q) : u < Q[i]
  /\ \A i, j \in (k + 1)..Len(Q) : i < j => Q[j] - Q[i] < WinSize - 1

\* Frames out that go up after u come after it and in order.
NotLate(out, u) ==
  ~\E i \in 1..Len(out) : LET before == IF i = 1 THEN u ELSE out[i - 1]
                          IN  before # None /\ out[i] <= before

UpAfter(out, u) == IF out = << >> THEN u ELSE Last(out)

\* The frames out went up in order, and rest is what stays.
Left(Q, k, e, u, a, out, rest) ==
  /\ rest \in Seq(Frames) /\ UpAfter(out, u) \in Frames \cup {None}
  /\ Held(rest, e, UpAfter(out, u)) /\ (UpAfter(out, u) # None => UpAfter(out, u) < a)
  /\ \A i \in 1..Len(rest) : \E j \in (k + 1)..Len(Q) : rest[i] = Q[j]
  /\ NotLate(out, u)

\* The first k frames of Q go up, the others stay.
LEMMA Leaves ==
  ASSUME NEW Q \in Seq(Frames), NEW k \in 0..Len(Q), NEW e \in Int, NEW u \in Frames \cup {None},
         NEW a \in Int, Parts(Q, k, e, u, a),
         NEW out, out = SubSeq(Q, 1, k), NEW rest, rest = SubSeq(Q, k + 1, Len(Q))
  PROVE  Left(Q, k, e, u, a, out, rest)
<1>p. /\ InRange(Q, e)
      /\ \A i \in 1..k : Q[i] < a
      /\ \A i \in (k + 1)..Len(Q) : a < Q[i]
      /\ u # None => u < a /\ \A i \in 1..Len(Q) : u < Q[i]
      /\ \A i, j \in (k + 1)..Len(Q) : i < j => Q[j] - Q[i] < WinSize - 1
  BY DEF Parts
<1>u. PICK u2 : u2 = UpAfter(out, u) /\ u2 = IF out = << >> THEN u ELSE Last(out)
  BY DEF UpAfter
<1>0. Len(Q) \in Nat /\ \A i \in 1..Len(Q) : Q[i] \in Frames /\ Q[i] \in Int
  BY FramesAreInt
<1>1. k \in Nat /\ k <= Len(Q) /\ None \notin Int
  BY <1>0, SizesAssumption
<1>2. (\A i \in 1..k : Q[i] \in Frames) /\ (\A i \in (k + 1)..Len(Q) : Q[i] \in Frames)
  BY <1>0, <1>1
<1>3. /\ out \in Seq(Frames) /\ Len(out) = k
      /\ \A i \in 1..k : out[i] = Q[i]
  BY <1>1, <1>2, SubSeqProperties
<1>4. /\ rest \in Seq(Frames) /\ Len(rest) = Len(Q) - k
      /\ \A i \in 1..(Len(Q) - k) : rest[i] = Q[k + i]
  <2>1. /\ rest \in Seq(Frames)
        /\ Len(rest) = IF k + 1 <= Len(Q) THEN Len(Q) - (k + 1) + 1 ELSE 0
        /\ \A i \in 1..(Len(Q) - (k + 1) + 1) : rest[i] = Q[(k + 1) + i - 1]
    BY <1>0, <1>1, <1>2, SubSeqProperties
  <2>2. Len(Q) - (k + 1) + 1 = Len(Q) - k /\ \A i \in 1..(Len(Q) - k) : (k + 1) + i - 1 = k + i
    BY <1>0, <1>1
  <2>3. Len(rest) = Len(Q) - k
    BY <1>0, <1>1, <2>1
  <2> QED BY <2>1, <2>2, <2>3
<1>5. \A i \in 1..Len(rest) : k + i \in (k + 1)..Len(Q) /\ k + i \in 1..Len(Q) /\ rest[i] = Q[k + i]
  BY <1>0, <1>1, <1>4
<1>6. /\ k = 0 => u2 = u
      /\ k # 0 => u2 = Q[k] /\ k \in 1..k /\ k \in 1..Len(Q)
  <2>1. Len(out) = 0 <=> out = << >>
    BY <1>3, EmptySeq
  <2>2. CASE k = 0
    BY <1>3, <1>u, <2>1, <2>2
  <2>3. CASE k # 0
    <3>1. k \in 1..k /\ k \in 1..Len(Q)
      BY <1>0, <1>1, <2>3
    <3>2. out # << >> /\ out[Len(out)] = Q[k]
      BY <1>3, <2>1, <2>3, <3>1
    <3> QED BY <1>u, <2>3, <3>1, <3>2 DEF Last
  <2> QED BY <2>2, <2>3
<1>7. u2 \in Frames \cup {None} /\ (u2 # None => u2 < a)
  BY <1>0, <1>6, <1>p
<1>8. Held(rest, e, u2)
  <2>1. ASSUME NEW i \in 1..Len(rest)
        PROVE  rest[i] < e /\ e - rest[i] < Half /\ (u2 # None => u2 < rest[i])
    <3>1. PICK x \in Int : x = Q[k + i] /\ x = rest[i] /\ a < x /\ x < e /\ e - x < Half
      BY <1>0, <1>5, <1>p DEF InRange
    <3>2. ASSUME u2 # None PROVE u2 < x
      <4>0. u2 \in Int /\ u2 < a
        BY <1>7, <3>2, FramesAreInt
      <4>1. PICK y \in Int : y = u2 /\ y < a
        BY <4>0
      <4>2. a < x
        BY <3>1
      <4>3. y < x
        BY <4>1, <4>2, LessIsTransitive, Zenon
      <4> QED BY <4>1, <4>3
    <3> QED BY <3>1, <3>2
  <2>2. ASSUME NEW i \in 1..Len(rest), NEW j \in 1..Len(rest), i < j
        PROVE  rest[i] < rest[j] /\ rest[j] - rest[i] < WinSize - 1
    <3>0. k + i < k + j
      BY <1>1, <2>2
    <3>1. /\ k + i \in (k + 1)..Len(Q) /\ k + i \in 1..Len(Q) /\ rest[i] = Q[k + i]
          /\ k + j \in (k + 1)..Len(Q) /\ k + j \in 1..Len(Q) /\ rest[j] = Q[k + j]
          /\ k + i < k + j
      BY <1>5, <3>0
    <3>2. Q[k + i] < Q[k + j]
      BY <1>p, <3>1 DEF InRange
    <3>3. Q[k + j] - Q[k + i] < WinSize - 1
      BY <1>p, <3>1
    <3> QED BY <3>1, <3>2, <3>3
  <2> QED BY <2>1, <2>2 DEF Held
<1>9. ASSUME NEW i \in 1..Len(out), NEW before,
             before = (IF i = 1 THEN u ELSE out[i - 1]), before # None
      PROVE  ~(out[i] <= before)
  <2>1. i \in 1..k /\ i \in 1..Len(Q) /\ out[i] = Q[i] /\ Q[i] \in Int
    BY <1>0, <1>1, <1>3
  <2>2. PICK x \in Int : x = Q[i]
    BY <2>1
  <2>3. PICK y \in Int : y = before /\ y < x
    <3>1. CASE i = 1
      <4>1. before = u /\ u < Q[i]
        BY <1>9, <1>p, <2>1, <3>1
      <4> QED BY <1>9, <2>2, <4>1, FramesAreInt
    <3>2. CASE i # 1
      <4>1. i - 1 \in 1..k /\ i - 1 \in 1..Len(Q) /\ i - 1 < i
        BY <1>0, <1>1, <2>1, <3>2
      <4>2. before = Q[i - 1] /\ Q[i - 1] < Q[i]
        BY <1>3, <1>9, <1>p, <2>1, <3>2, <4>1 DEF InRange
      <4> QED BY <1>0, <2>2, <4>1, <4>2
    <3> QED BY <3>1, <3>2
  <2> QED BY <2>1, <2>2, <2>3
<1>10. \A i \in 1..Len(rest) : \E j \in (k + 1)..Len(Q) : rest[i] = Q[j]
  BY <1>5
<1>11. NotLate(out, u)
  BY <1>9 DEF NotLate
<1> QED
  BY <1>4, <1>7, <1>8, <1>10, <1>11, <1>u DEF Left

\* What recv_indicatepkt_reorder leaves of the queue and the window.
LEMMA QueuedIs ==
  ASSUME QueueInv, WindowInv, NEW n \in Frames, RecvQueued(n)
  PROVE  /\ QueueInv'
         /\ \E a \in Int : /\ indicate_seq' = SeqNum(a) /\ a <= EndOfSend
                           /\ Reaches(a, pending') /\ (up' # None => up' < a)
<1>0. PICK h \in Nat : /\ h = Half /\ 2 * WinSize + MaxLoss <= h /\ 2 <= h
                       /\ WinSize \in Nat \ {0} /\ MaxLoss \in Nat
  BY HalfIs DEF Half
<1>1. LockFree /\ n \in SendWindow /\ ~SN_LESS(SeqNum(n), StartFor(n)) /\ ~IsDuplicate(pending, n) /\ base' = base
  BY DEF RecvQueued, Received
<1>2. PICK w \in Int : /\ StartFor(n) = SeqNum(w) /\ w <= n /\ n - w < Half
                       /\ Reaches(w, pending)
                       /\ UpFor # None => UpFor < w
  BY <1>1, StartIs
<1>3. PICK e \in Int : e = EndOfSend /\ n < e /\ e - n <= WinSize
  <2>1. base \in Int /\ n \in Int /\ base <= n /\ n <= base + WinSize - 1
    BY <1>0, <1>1, FramesAreInt DEF QueueInv, SendWindow
  <2> QED BY <1>0, <2>1 DEF EndOfSend
<1>4. n \in Int
  BY FramesAreInt
<1>5. PICK f \in Int : f = IF n = w THEN w + 1 ELSE IF n > w + WinSize - 1 THEN n + 1 - WinSize ELSE w
  <2>1. w + 1 \in Int /\ n + 1 - WinSize \in Int
    BY <1>0, <1>4
  <2> QED BY <2>1, Zenon
<1>6. ShiftWindow(StartFor(n), SeqNum(n)) = SeqNum(f)
  BY <1>2, <1>4, <1>5, WindowShiftExact DEF Half
<1>7. w <= f /\ n < f + WinSize /\ f <= e /\ e - f <= h + 1
  BY <1>0, <1>2, <1>3, <1>4, <1>5
<1>8. PICK q \in Seq(Frames), u \in Frames \cup {None} : q = pending /\ u = UpFor
  BY DEF QueueInv, UpFor
<1>9. Held(q, e, u) /\ Len(q) \in Nat /\ (\A i \in 1..Len(q) : q[i] \in Int) /\ (u # None => u \in Int /\ u < w)
  <2>1. Held(q, e, u)
    BY <1>3, <1>8 DEF QueueInv, Held, UpFor
  <2> QED BY <1>2, <1>8, <2>1, FramesAreInt
<1>10. InRange(q, e)
  BY <1>9 DEF Held, InRange
<1>11. PICK Q \in Seq(Frames) : Q = InsertSorted(q, n)
  BY InsertType
<1>12. /\ InRange(Q, e)
       /\ \A i \in 1..Len(Q) : Q[i] = n \/ \E j \in 1..Len(q) : Q[i] = q[j]
  BY <1>1, <1>3, <1>8, <1>10, <1>11, InsertInRange
<1>13. PICK k \in 0..Len(Q) : k = InOrderCount(Q, SeqNum(f))
  BY InOrderCountIs
<1>14. PICK a \in Int : WalkedTo(a, Q, f, e, k) /\ \A i \in (k + 1)..Len(Q) : a < Q[i]
  BY <1>0, <1>7, <1>12, <1>13, WalkIs
<1>15. f <= a /\ a <= e /\ (\A i \in 1..k : Q[i] < a) /\ WinAfter(Q, SeqNum(f))[k] = SeqNum(a)
  BY <1>14 DEF WalkedTo
<1>16. PICK out, rest : out = SubSeq(Q, 1, k) /\ rest = SubSeq(Q, k + 1, Len(Q))
  OBVIOUS
<1>17. PICK u2 : u2 = UpAfter(out, u)
  OBVIOUS
<1>18. Len(Q) \in Nat /\ \A i \in 1..Len(Q) : Q[i] \in Int
  BY FramesAreInt
<1>19. u # None => u < a /\ \A i \in 1..Len(Q) : u < Q[i]
  <2> SUFFICES ASSUME u # None PROVE u < a /\ \A i \in 1..Len(Q) : u < Q[i]
    OBVIOUS
  <2>1. u < a /\ u < n
    BY <1>2, <1>4, <1>7, <1>9, <1>15
  <2>2. \A j \in 1..Len(q) : u < q[j]
    BY <1>9 DEF Held
  <2> QED BY <1>12, <2>1, <2>2
<1>20. ASSUME NEW i \in (k + 1)..Len(Q) PROVE Q[i] < a + WinSize
  <2>1. i \in 1..Len(Q)
    BY <1>18
  <2>2. n < a + WinSize
    BY <1>0, <1>4, <1>7, <1>15
  <2>3. ASSUME NEW j \in 1..Len(q) PROVE q[j] < a + WinSize
    <3>1. PICK x \in Int : x = q[j] /\ x < w + WinSize
      BY <1>2, <1>8, <1>9 DEF Reaches
    <3>2. x < a + WinSize
      BY <1>0, <1>7, <1>15, <3>1
    <3> QED BY <3>1, <3>2
  <2> QED BY <1>12, <2>1, <2>2, <2>3
<1>21. ASSUME NEW i \in (k + 1)..Len(Q), NEW j \in (k + 1)..Len(Q), i < j
       PROVE  Q[j] - Q[i] < WinSize - 1
  <2>1. i \in 1..Len(Q) /\ j \in 1..Len(Q)
    BY <1>18
  <2>2. PICK x \in Int, y \in Int : x = Q[i] /\ y = Q[j]
    BY <1>18, <2>1
  <2>3. x < y
    BY <1>12, <1>21, <2>1, <2>2 DEF InRange
  <2>4. a < x /\ a < y
    BY <1>14, <2>2
  <2>5. CASE x = n
    <3>1. y # n
      BY <1>4, <2>3, <2>5
    <3>2. PICK b \in 1..Len(q) : y = q[b]
      BY <1>12, <2>1, <2>2, <3>1
    <3>3. y < w + WinSize
      BY <1>2, <1>8, <3>2 DEF Reaches
    <3>4. y - x < WinSize - 1
      BY <1>0, <1>4, <1>7, <1>15, <2>4, <2>5, <3>3
    <3> QED BY <2>2, <3>4
  <2>6. CASE y = n
    <3>1. y - x < WinSize - 1
      BY <1>0, <1>4, <1>7, <1>15, <2>4, <2>6
    <3> QED BY <2>2, <3>1
  <2>7. CASE x # n /\ y # n
    <3>1. PICK b \in 1..Len(q), c \in 1..Len(q) : x = q[b] /\ y = q[c]
      BY <1>12, <2>1, <2>2, <2>7
    <3>2. b < c
      <4>1. b \in Int /\ c \in Int
        BY <1>9
      <4>2. b # c
        BY <2>3, <3>1
      <4>3. ASSUME c < b PROVE FALSE
        <5>1. q[c] < q[b]
          BY <1>9, <4>3 DEF Held
        <5>2. y < x
          BY <3>1, <5>1
        <5> QED BY <2>3, <5>2
      <4> QED BY <4>1, <4>2, <4>3
    <3>3. q[c] - q[b] < WinSize - 1
      BY <1>9, <3>2 DEF Held
    <3> QED BY <2>2, <3>1, <3>3
  <2> QED BY <2>5, <2>6, <2>7
<1>22. /\ rest \in Seq(Frames) /\ u2 \in Frames \cup {None}
       /\ Held(rest, e, u2) /\ (u2 # None => u2 < a)
       /\ \A i \in 1..Len(rest) : \E j \in (k + 1)..Len(Q) : rest[i] = Q[j]
       /\ NotLate(out, u)
  <2>1. \A i, j \in (k + 1)..Len(Q) : i < j => Q[j] - Q[i] < WinSize - 1
    BY <1>21
  <2>2. Parts(Q, k, e, u, a)
    BY <1>12, <1>14, <1>15, <1>19, <2>1 DEF Parts
  <2>3. Left(Q, k, e, u, a, out, rest)
    BY <1>16, <2>2, Leaves, Zenon
  <2> QED BY <1>17, <2>3 DEF Left
<1>23. Reaches(a, rest)
  BY <1>20, <1>22 DEF Reaches
<1>24. /\ indicate_seq' = SeqNum(a) /\ pending' = rest
  BY <1>6, <1>8, <1>11, <1>13, <1>15, <1>16 DEF RecvQueued, Hold
<1>25. up' = u2 /\ late' = FALSE
  <2>1. HandUp(out, u)
    BY <1>6, <1>8, <1>11, <1>13, <1>16 DEF RecvQueued, UpFor
  <2>2. up' = u2
    BY <1>17, <2>1 DEF HandUp, UpAfter
  <2>3. late' = (late \/ \E i \in 1..Len(out) :
                          LET before == IF i = 1 THEN u ELSE out[i - 1]
                          IN  before # None /\ out[i] <= before)
    BY <2>1 DEF HandUp
  <2>4. late = FALSE
    BY DEF QueueInv
  <2> QED BY <1>22, <2>2, <2>3, <2>4 DEF NotLate
<1>26. EndOfSend' = e /\ base' \in Frames
  BY <1>1, <1>3 DEF EndOfSend, QueueInv
<1>28. rest # << >> => 1 < WinSize
  <2> SUFFICES ASSUME rest # << >> PROVE 1 < WinSize
    OBVIOUS
  <2>1. Len(rest) \in Nat \ {0}
    BY <1>22, EmptySeq
  <2>2. PICK j \in (k + 1)..Len(Q) : rest[1] = Q[j]
    BY <1>22, <2>1
  <2>3. PICK x \in Int : x = Q[j] /\ a < x /\ x < a + WinSize
    <3>1. j \in 1..Len(Q)
      BY <1>18
    <3> QED BY <1>14, <1>18, <1>20, <3>1
  <2> QED BY <1>0, <2>3
<1>27. QueueInv'
  BY <1>22, <1>24, <1>25, <1>26, <1>28 DEF QueueInv, Held
<1> QED
  BY <1>3, <1>15, <1>22, <1>23, <1>24, <1>25, <1>27

-----------------------------------------------------------------------------
(***************************************************************************)
(* The invariant, step by step.                                            *)
(***************************************************************************)
ContextsOK ==
  /\ rx \in [pc : {"idle", "cancel", "load", "store"}, reg : SeqNums \cup {None}]
  /\ handler \in [pc : {"idle", "fired", "loop", "load", "store"}, reg : SeqNums \cup {None}]

LEMMA WindowInit == Init => QueueInv /\ WindowInv
<1> SUFFICES ASSUME Init PROVE QueueInv /\ WindowInv
  OBVIOUS
<1>1. FirstFrame \in Frames
  BY SizesAssumption DEF Frames
<1>2. /\ pending = << >> /\ base = FirstFrame /\ up = None /\ late = FALSE /\ indicate_seq = None
      /\ rx.pc = "idle" /\ handler.pc = "idle" /\ timer = None
  BY DEF Init
<1>3. << >> \in Seq(Frames) /\ Len(<< >>) = 0
  OBVIOUS
<1>4. QueueInv
  BY <1>1, <1>2, <1>3 DEF QueueInv, Held
<1>5. WindowInv
  BY <1>2 DEF WindowInv, NoWindow, LockFree
<1> QED
  BY <1>4, <1>5

\* The bounds hold on as the station moves on and as time passes.
LEMMA BoundedKept ==
  ASSUME NEW g \in Int, NEW r \in Int, NEW h \in Int, NEW e \in Int, NEW e2 \in Int, e <= e2,
         Bounded(g, r, h, e), UNCHANGED <<rx, handler>>, UNCHANGED timer \/ rx.pc = "idle"
  PROVE  Bounded(g, r, h, e2)'
<1>1. rx' = rx /\ handler' = handler
  OBVIOUS
<1>2. rx.pc # "idle" => timer' = timer
  OBVIOUS
<1>3. g <= e2 + 2 /\ (WinSize = 1 => g <= e2)
  BY DEF Bounded
<1>4. handler.pc \in {"load", "store"} => g <= e2
  BY DEF Bounded
<1>5. handler.pc = "store" => h <= e2
  BY DEF Bounded
<1>6. rx.pc = "load" => g <= e2 + 1 /\ (HandlerNear' \/ WinSize = 1 => g < e2)
  BY <1>1, <1>2 DEF Bounded, HandlerNear
<1>7. rx.pc = "store" => /\ r <= e2 + 1 /\ (HandlerNear' \/ WinSize = 1 => r < e2)
                         /\ handler.pc = "loop" => r < e2 \/ g = r
  BY <1>1, <1>2 DEF Bounded, HandlerNear
<1> QED
  BY <1>1, <1>3, <1>4, <1>5, <1>6, <1>7 DEF Bounded

\* Steps of others: time, the station, the command thread.
LEMMA WindowOthers ==
  ASSUME QueueInv, WindowInv,
         UNCHANGED <<indicate_seq, pending, up, late, rx, handler>>,
         \/ UNCHANGED timer
         \/ rx.pc = "idle" /\ handler.pc = "idle",
         \/ UNCHANGED base
         \/ /\ base' \in Frames /\ base' = base + 1
            /\ \A i \in 1..Len(pending) : base + WinSize + 1 - pending[i] < Half
  PROVE  QueueInv' /\ WindowInv'
<1>0. WinSize \in Nat \ {0}
  BY SizesAssumption
<1>1. /\ base \in Int /\ base' \in Int /\ base <= base' /\ base' \in Frames
      /\ EndOfSend \in Int /\ EndOfSend' \in Int /\ EndOfSend <= EndOfSend'
  BY <1>0, FramesAreInt DEF QueueInv, EndOfSend
<1>2. \A i \in 1..Len(pending) : pending[i] \in Int /\ pending[i] < EndOfSend' /\ EndOfSend' - pending[i] < Half
  <2> SUFFICES ASSUME NEW i \in 1..Len(pending)
               PROVE  pending[i] \in Int /\ pending[i] < EndOfSend' /\ EndOfSend' - pending[i] < Half
    OBVIOUS
  <2>1. PICK x \in Int : x = pending[i]
    BY FramesAreInt DEF QueueInv
  <2>2. x < EndOfSend /\ EndOfSend - x < Half
    BY <2>1 DEF QueueInv, Held
  <2>3. EndOfSend' - x < Half
    <3>1. CASE UNCHANGED base
      BY <2>2, <3>1 DEF EndOfSend
    <3>2. CASE /\ base' = base + 1
               /\ \A j \in 1..Len(pending) : base + WinSize + 1 - pending[j] < Half
      <4>1. PICK y \in Int : y = base + WinSize + 1 /\ y = EndOfSend'
        BY <1>0, <1>1, <3>2 DEF EndOfSend
      <4>2. base + WinSize + 1 - pending[i] < Half
        BY <3>2
      <4>3. y - x < Half
        BY <1>0, <1>1, <2>1, <4>1, <4>2
      <4> QED BY <4>1, <4>3
    <3> QED BY <3>1, <3>2
  <2> QED BY <1>1, <2>1, <2>2, <2>3
<1>3. QueueInv'
  BY <1>1, <1>2 DEF QueueInv, Held
<1>4. /\ handler'.pc # "idle" => timer' # 0
      /\ ~LockFree' => WinSize > 1
  BY DEF WindowInv, LockFree
<1>5. CASE NoWindow
  <2>1. NoWindow'
    BY <1>5 DEF NoWindow, LockFree
  <2> QED BY <1>3, <1>4, <2>1 DEF WindowInv
<1>6. CASE ~NoWindow
  <2>1. PICK g \in Int, r \in Int, h \in Int : WindowAt(g, r, h)
    BY <1>6 DEF WindowInv
  <2>3. Numbers(g, r, h)' /\ Reach(g, r, h)' /\ BehindWindow(g, h)'
    BY <2>1 DEF WindowAt, Numbers, Reach, BehindWindow
  <2>4. PICK e \in Int, e2 \in Int : e = EndOfSend /\ e2 = EndOfSend' /\ e <= e2
    BY <1>1
  <2>5. Bounded(g, r, h, e)
    BY <2>1, <2>4 DEF WindowAt
  <2>6. Bounded(g, r, h, e2)'
    BY <2>4, <2>5, BoundedKept
  <2>7. WindowAt(g, r, h)'
    BY <2>3, <2>4, <2>6 DEF WindowAt
  <2> QED BY <1>3, <1>4, <2>7 DEF WindowInv
<1> QED
  BY <1>3, <1>5, <1>6

LEMMA QueueKept ==
  ASSUME QueueInv, UNCHANGED <<pending, base, late>>, up' = up \/ up' = None
  PROVE  QueueInv' /\ EndOfSend' = EndOfSend
<1>1. EndOfSend' = EndOfSend
  BY DEF EndOfSend
<1> QED
  BY <1>1 DEF QueueInv, Held

\* The end of what the station sends is a whole number, beyond the frames held.
LEMMA EndIs ==
  ASSUME QueueInv
  PROVE  \E e \in Int : /\ e = EndOfSend /\ base \in Int /\ e = base + WinSize /\ WinSize \in Nat \ {0}
                        /\ Len(pending) \in Nat
                        /\ \A i \in 1..Len(pending) : pending[i] \in Int /\ pending[i] < e
                        /\ \A n \in SendWindow : n \in Int /\ base <= n /\ n < e
<1>1. WinSize \in Nat \ {0} /\ base \in Int
  BY SizesAssumption, FramesAreInt DEF QueueInv
<1>2. PICK e \in Int : e = EndOfSend /\ e = base + WinSize
  BY <1>1 DEF EndOfSend
<1>3. Len(pending) \in Nat /\ \A i \in 1..Len(pending) : pending[i] \in Int /\ pending[i] < e
  BY <1>2, FramesAreInt DEF QueueInv, Held
<1>4. \A n \in SendWindow : n \in Int /\ base <= n /\ n < e
  BY <1>1, <1>2, FramesAreInt DEF SendWindow
<1> QED
  BY <1>1, <1>2, <1>3, <1>4

\* A window that starts at a frame of the station's own, or beyond its oldest, reaches
\* every frame held.
LEMMA ReachesAll ==
  ASSUME QueueInv, NEW x \in Int, base <= x
  PROVE  Reaches(x, pending)
<1>1. PICK e \in Int : /\ base \in Int /\ e = base + WinSize /\ WinSize \in Nat \ {0}
                       /\ \A i \in 1..Len(pending) : pending[i] \in Int /\ pending[i] < e
  BY EndIs
<1> SUFFICES ASSUME NEW i \in 1..Len(pending) PROVE pending[i] < x + WinSize
  BY DEF Reaches
<1>2. PICK y \in Int : y = pending[i] /\ y < e
  BY <1>1
<1>3. y < x + WinSize
  BY <1>1, <1>2
<1> QED
  BY <1>2, <1>3

\* The window between two steps of the receive tasklet, with the lock free.
LEMMA IdleWindow ==
  ASSUME NEW a \in Int, NEW e \in Int, e = EndOfSend', a <= e, indicate_seq' = SeqNum(a),
         Reaches(a, pending'), up' # None => up' < a,
         rx'.pc \in {"idle", "cancel"}, LockFree', handler'.pc # "idle" => timer' # 0
  PROVE  WindowInv'
<1>1. rx'.pc # "store" /\ rx'.pc # "load" /\ handler'.pc \notin {"load", "store"}
  BY DEF LockFree
<1>2. Numbers(a, a, a)' /\ Reach(a, a, a)' /\ BehindWindow(a, a)'
  BY <1>1 DEF Numbers, Reach, BehindWindow
<1>3. a <= e + 2
  <2>1. \A x, y \in Int : x <= y => x <= y + 2
    OBVIOUS
  <2> QED BY <2>1, Zenon
<1>4. Bounded(a, a, a, e)'
  BY <1>1, <1>3 DEF Bounded
<1>5. WindowAt(a, a, a)'
  BY <1>2, <1>4 DEF WindowAt
<1> QED
  BY <1>5 DEF WindowInv

LEMMA WindowQueued ==
  ASSUME QueueInv, WindowInv, ReorderTimerInv, ContextsOK, NEW n \in Frames, RecvQueued(n)
  PROVE  QueueInv' /\ WindowInv'
<1>1. PICK a \in Int : /\ indicate_seq' = SeqNum(a) /\ a <= EndOfSend
                       /\ Reaches(a, pending') /\ (up' # None => up' < a)
  BY QueuedIs
<1>2. QueueInv'
  BY QueuedIs
<1>3. PICK e \in Int : e = EndOfSend
  BY EndIs
<1>4. EndOfSend' = e
  BY <1>3 DEF EndOfSend, RecvQueued, Received
<1>5. LockFree /\ handler' = handler /\ rx'.pc \in {"idle", "cancel"}
  BY DEF RecvQueued, ContextsOK
<1>6. LockFree'
  BY <1>5 DEF LockFree
<1>7. timer' = timer \/ timer' = WaitTime
  BY DEF RecvQueued, TimerAfter
<1>8. handler'.pc # "idle" => timer' # 0
  <2>1. WaitTime # 0
    BY SizesAssumption
  <2> QED BY <1>5, <1>7, <2>1 DEF WindowInv
<1>9. a <= e
  BY <1>1, <1>3
<1> QED
  BY <1>1, <1>2, <1>4, <1>5, <1>6, <1>8, <1>9, IdleWindow

LEMMA WindowDropped ==
  ASSUME QueueInv, WindowInv, NEW n \in Frames, RecvDropped(n)
  PROVE  QueueInv' /\ WindowInv'
<1>0. PICK e \in Int : /\ e = EndOfSend /\ base \in Int /\ e = base + WinSize /\ WinSize \in Nat \ {0}
                       /\ \A m \in SendWindow : m \in Int /\ base <= m /\ m < e
  BY EndIs
<1>1. /\ UNCHANGED <<pending, late, base, timer, handler, rx>> /\ LockFree /\ rx.pc = "idle"
      /\ n \in SendWindow /\ up' = UpFor /\ (up' = up \/ up' = None)
  BY DEF RecvDropped, Received, UpFor, timing
<1>2. QueueInv' /\ EndOfSend' = e
  BY <1>0, <1>1, QueueKept
<1>3. CASE SN_LESS(SeqNum(n), StartFor(n)) /\ indicate_seq' = StartFor(n)
  <2>1. ~SN_LESS(SeqNum(n), SeqNum(n))
    BY NotBeforeItself
  <2>2. ~rec_abba_rsp_ack /\ indicate_seq # None /\ StartFor(n) = indicate_seq
    BY <1>3, <2>1 DEF StartFor
  <2>3. UNCHANGED <<indicate_seq, pending, up, late, rx, handler>> /\ UNCHANGED timer /\ UNCHANGED base
    BY <1>1, <1>3, <2>2 DEF UpFor
  <2> QED BY <2>3, WindowOthers
<1>4. CASE ~SN_LESS(SeqNum(n), StartFor(n)) /\ indicate_seq' = ShiftWindow(StartFor(n), SeqNum(n))
  <2>1. PICK w \in Int : /\ StartFor(n) = SeqNum(w) /\ w <= n /\ n - w < Half
                         /\ Reaches(w, pending)
                         /\ UpFor # None => UpFor < w
    BY <1>1, <1>4, StartIs
  <2>2. n \in Int /\ n < e
    BY <1>0, <1>1
  <2>3. PICK f \in Int : f = IF n = w THEN w + 1 ELSE IF n > w + WinSize - 1 THEN n + 1 - WinSize ELSE w
    <3>1. w + 1 \in Int /\ n + 1 - WinSize \in Int
      BY <1>0, <2>2
    <3> QED BY <3>1, Zenon
  <2>4. indicate_seq' = SeqNum(f)
    BY <1>4, <2>1, <2>2, <2>3, WindowShiftExact DEF Half
  <2>5. w <= f /\ f <= e
    BY <1>0, <2>1, <2>2, <2>3
  <2>6. Reaches(f, pending')
    <3> SUFFICES ASSUME NEW i \in 1..Len(pending) PROVE pending[i] < f + WinSize
      BY <1>1 DEF Reaches
    <3>1. PICK x \in Int : x = pending[i] /\ x < w + WinSize
      BY <2>1, EndIs DEF Reaches
    <3>2. x < f + WinSize
      BY <1>0, <2>5, <3>1
    <3> QED BY <3>1, <3>2
  <2>7. up' # None => up' < f
    <3> SUFFICES ASSUME up' # None PROVE up' < f
      OBVIOUS
    <3>1. PICK x \in Int : x = up' /\ x < w
      BY <1>1, <2>1, FramesAreInt DEF QueueInv
    <3>2. x < f
      BY <2>5, <3>1
    <3> QED BY <3>1, <3>2
  <2>8. rx'.pc \in {"idle", "cancel"} /\ LockFree' /\ (handler'.pc # "idle" => timer' # 0)
    BY <1>1 DEF LockFree, WindowInv
  <2> QED BY <1>2, <2>4, <2>5, <2>6, <2>7, <2>8, IdleWindow
<1> QED
  BY <1>3, <1>4 DEF RecvDropped

\* The starts that the window stands for; the handler works only once there is one.
LEMMA StartsAre ==
  ASSUME WindowInv, ~NoWindow
  PROVE  \E g, r, h \in Int : WindowAt(g, r, h)
  BY DEF WindowInv

LEMMA HandlerStartIs ==
  ASSUME WindowInv, ContextsOK, QueueInv
  PROVE  \E h \in Int : handler.pc = "store" => /\ handler.reg = SeqNum(h) /\ Reaches(h, pending)
                                                /\ h <= EndOfSend /\ (up # None => up <= h)
<1>1. CASE NoWindow
  <2>1. handler.pc # "store"
    BY <1>1 DEF NoWindow, LockFree
  <2>2. 0 \in Int
    OBVIOUS
  <2> QED BY <2>1, <2>2, Zenon
<1>2. CASE ~NoWindow
  <2>1. PICK g \in Int, r \in Int, h \in Int : WindowAt(g, r, h)
    BY <1>2, StartsAre
  <2> QED BY <2>1 DEF WindowAt, Numbers, Reach, BehindWindow, Bounded
<1> QED
  BY <1>1, <1>2

\* An unlocked store of a frame's number: the bypass, and a BAR.
LEMMA WindowStored ==
  ASSUME QueueInv, WindowInv, ContextsOK, NEW a \in Int, base <= a, a < EndOfSend,
         indicate_seq' = SeqNum(a), UNCHANGED <<pending, late, base, timer, handler>>,
         up' = None \/ (up' = up /\ up < a),
         rx'.pc \in {"idle", "load"}
  PROVE  QueueInv' /\ WindowInv'
<1>1. QueueInv' /\ EndOfSend' = EndOfSend
  BY QueueKept
<1>2. PICK e \in Int : e = EndOfSend /\ e = EndOfSend'
  BY <1>1, EndIs
<1>3. PICK h \in Int : handler.pc = "store" => /\ handler.reg = SeqNum(h) /\ Reaches(h, pending) /\ h <= e
                                              /\ (up # None => up <= h)
  BY <1>2, HandlerStartIs
<1>4. Reaches(a, pending)
  BY ReachesAll
<1>5. rx'.pc # "store" /\ handler' = handler /\ pending' = pending
  OBVIOUS
<1>6. Numbers(a, a, h)' /\ Reach(a, a, h)'
  BY <1>3, <1>4, <1>5 DEF Numbers, Reach
<1>7. BehindWindow(a, h)'
  <2>1. CASE up' = None
    BY <2>1 DEF BehindWindow
  <2>2. CASE up' # None
    <3>1. up' = up /\ up # None /\ up \in Int /\ up < a
      BY <2>2, FramesAreInt DEF QueueInv
    <3>2. up <= a
      BY <3>1
    <3> QED BY <1>3, <1>5, <3>1, <3>2 DEF BehindWindow
  <2> QED BY <2>1, <2>2
<1>8. a < e /\ a <= e /\ a <= e + 1 /\ a <= e + 2
  <2>1. \A x, y \in Int : x < y => x <= y /\ x <= y + 1 /\ x <= y + 2
    OBVIOUS
  <2>2. a < e
    BY <1>2
  <2> QED BY <2>1, <2>2, Zenon
<1>9. Bounded(a, a, h, e)'
  BY <1>3, <1>5, <1>8 DEF Bounded
<1>10. WindowAt(a, a, h)'
  BY <1>2, <1>6, <1>7, <1>9 DEF WindowAt
<1>11. (handler'.pc # "idle" => timer' # 0) /\ (~LockFree' => WinSize > 1)
  BY DEF WindowInv, LockFree
<1> QED
  BY <1>1, <1>10, <1>11 DEF WindowInv

LEMMA WindowUnlocked ==
  ASSUME QueueInv, WindowInv, ContextsOK,
         RecvBar \/ \E n \in Frames : RecvBypass(n)
  PROVE  QueueInv' /\ WindowInv'
<1>0. PICK e \in Int : /\ e = EndOfSend /\ base \in Int /\ e = base + WinSize /\ WinSize \in Nat \ {0}
                       /\ \A m \in SendWindow : m \in Int /\ base <= m /\ m < e
  BY EndIs
<1>1. CASE RecvBar
  <2>1. /\ indicate_seq' = SeqNum(base) /\ UNCHANGED <<pending, late, base, timer, handler>>
        /\ rx' = rx /\ rx.pc = "idle"
        /\ up' = IF up # None /\ base <= up THEN None ELSE up
    BY <1>1 DEF RecvBar, UnlockedStore, WindowMoved, timing, air
  <2>2. PICK a \in Int : a = base /\ base <= a /\ a < EndOfSend
    BY <1>0
  <2>3. up' = None \/ (up' = up /\ up < a)
    <3>1. CASE up = None \/ base <= up
      BY <2>1, <3>1
    <3>2. CASE up # None /\ ~(base <= up)
      <4>1. up \in Int
        BY <3>2, FramesAreInt DEF QueueInv
      <4>2. up < a
        BY <1>0, <2>2, <3>2, <4>1
      <4> QED BY <2>1, <3>2, <4>2
    <3> QED BY <3>1, <3>2
  <2> QED BY <2>1, <2>2, <2>3, WindowStored
<1>2. ASSUME NEW n \in Frames, RecvBypass(n) PROVE QueueInv' /\ WindowInv'
  <2>1. /\ indicate_seq' = SeqNum(n) /\ UNCHANGED <<pending, late, base, timer, handler>>
        /\ up' = None /\ n \in SendWindow
    BY <1>2 DEF RecvBypass, Received, UnlockedStore, timing
  <2>2. rx'.pc = "load"
    BY <1>2 DEF RecvBypass, ContextsOK
  <2>3. n \in Int /\ base <= n /\ n < EndOfSend
    BY <1>0, <2>1
  <2> QED BY <2>1, <2>2, <2>3, WindowStored
<1> QED
  BY <1>1, <1>2

\* recv_set_iseq_after_mpdu_process: the load and the store of its increment.
LEMMA WindowLoad ==
  ASSUME QueueInv, WindowInv, RecvBypassLoad
  PROVE  QueueInv' /\ WindowInv'
<1>1. /\ UNCHANGED <<indicate_seq, pending, up, late, base, timer, handler>>
      /\ rx.pc = "load" /\ rx'.pc = "store" /\ rx'.reg = indicate_seq
  BY DEF RecvBypassLoad, window, timing, air
<1>2. QueueInv' /\ EndOfSend' = EndOfSend
  BY <1>1, QueueKept
<1>3. ~NoWindow
  BY <1>1 DEF NoWindow
<1>4. PICK g \in Int, r \in Int, h \in Int : WindowAt(g, r, h)
  BY <1>3, StartsAre
<1>5. Numbers(g, g, h)' /\ Reach(g, g, h)' /\ BehindWindow(g, h)'
  BY <1>1, <1>4 DEF WindowAt, Numbers, Reach, BehindWindow
<1>6. PICK e \in Int : e = EndOfSend /\ e = EndOfSend'
  BY <1>2, EndIs
<1>7. Bounded(g, r, h, e)
  BY <1>4, <1>6 DEF WindowAt
<1>8. Bounded(g, g, h, e)'
  BY <1>1, <1>7 DEF Bounded, HandlerNear
<1>9. WindowAt(g, g, h)'
  BY <1>5, <1>6, <1>8 DEF WindowAt
<1>10. (handler'.pc # "idle" => timer' # 0) /\ (~LockFree' => WinSize > 1)
  BY <1>1 DEF WindowInv, LockFree
<1> QED
  BY <1>2, <1>9, <1>10 DEF WindowInv

LEMMA WindowStore ==
  ASSUME QueueInv, WindowInv, ContextsOK, RecvBypassStore
  PROVE  QueueInv' /\ WindowInv'
<1>1. /\ UNCHANGED <<pending, late, base, timer, handler>> /\ up' = None
      /\ rx.pc = "store" /\ rx'.pc = "idle" /\ indicate_seq' = Succ(rx.reg)
  BY DEF RecvBypassStore, UnlockedStore, timing, air
<1>2. QueueInv' /\ EndOfSend' = EndOfSend
  BY <1>1, QueueKept
<1>3. ~NoWindow
  BY <1>1 DEF NoWindow
<1>4. PICK g \in Int, r \in Int, h \in Int : WindowAt(g, r, h)
  BY <1>3, StartsAre
<1>5. PICK a \in Int : a = r + 1
  OBVIOUS
<1>6. indicate_seq' = SeqNum(a)
  BY <1>1, <1>4, <1>5, SuccIs DEF WindowAt, Numbers
<1>7. Reaches(a, pending)
  <2> SUFFICES ASSUME NEW i \in 1..Len(pending) PROVE pending[i] < a + WinSize
    BY DEF Reaches
  <2>1. PICK x \in Int : x = pending[i] /\ x < r + WinSize /\ WinSize \in Nat
    BY <1>1, <1>4, EndIs DEF WindowAt, Reach, Reaches
  <2>2. x < a + WinSize
    BY <1>5, <2>1
  <2> QED BY <2>1, <2>2
<1>8. Numbers(a, a, h)' /\ Reach(a, a, h)' /\ BehindWindow(a, h)'
  BY <1>1, <1>4, <1>6, <1>7 DEF WindowAt, Numbers, Reach, BehindWindow
<1>9. PICK e \in Int : e = EndOfSend /\ e = EndOfSend'
  BY <1>2, EndIs
<1>10. Bounded(g, r, h, e)
  BY <1>4, <1>9 DEF WindowAt
<1>11. /\ a <= e + 2 /\ (WinSize = 1 => a <= e)
       /\ handler.pc \in {"load", "store"} => a <= e
  <2>1. r <= e + 1 /\ (HandlerNear \/ WinSize = 1 => r < e)
    BY <1>1, <1>10 DEF Bounded
  <2>2. handler.pc \in {"load", "store"} => r < e
    BY <2>1 DEF HandlerNear
  <2> QED BY <1>5, <2>1, <2>2
<1>12. Bounded(a, a, h, e)'
  BY <1>1, <1>10, <1>11 DEF Bounded
<1>13. WindowAt(a, a, h)'
  BY <1>8, <1>9, <1>12 DEF WindowAt
<1>14. (handler'.pc # "idle" => timer' # 0) /\ (~LockFree' => WinSize > 1)
  BY <1>1 DEF WindowInv, LockFree
<1> QED
  BY <1>2, <1>13, <1>14 DEF WindowInv

LEMMA WindowCancel ==
  ASSUME QueueInv, WindowInv, ContextsOK, CancelTimer
  PROVE  QueueInv' /\ WindowInv'
<1>1. /\ UNCHANGED <<indicate_seq, pending, up, late, base, handler>>
      /\ rx.pc = "cancel" /\ rx'.pc = "idle" /\ handler.pc = "idle"
  BY DEF CancelTimer, ContextsOK, window, air
<1>2. QueueInv' /\ EndOfSend' = EndOfSend
  BY <1>1, QueueKept
<1>3. (handler'.pc # "idle" => timer' # 0) /\ LockFree'
  BY <1>1 DEF LockFree
<1>4. CASE NoWindow
  <2>1. NoWindow'
    BY <1>1, <1>3, <1>4 DEF NoWindow
  <2> QED BY <1>2, <1>3, <2>1 DEF WindowInv
<1>5. CASE ~NoWindow
  <2>1. PICK g \in Int, r \in Int, h \in Int : WindowAt(g, r, h)
    BY <1>5, StartsAre
  <2>2. PICK e \in Int : e = EndOfSend /\ e = EndOfSend'
    BY <1>2, EndIs
  <2>3. Bounded(g, r, h, e)
    BY <2>1, <2>2 DEF WindowAt
  <2>4. Bounded(g, r, h, e)'
    BY <1>1, <2>3 DEF Bounded
  <2>5. Numbers(g, r, h)' /\ Reach(g, r, h)' /\ BehindWindow(g, h)'
    BY <1>1, <2>1 DEF WindowAt, Numbers, Reach, BehindWindow
  <2>6. WindowAt(g, r, h)'
    BY <2>2, <2>4, <2>5 DEF WindowAt
  <2> QED BY <1>2, <1>3, <2>6 DEF WindowInv
<1> QED
  BY <1>4, <1>5

-----------------------------------------------------------------------------
\* The timer expires; its handler finds nothing, or ends.
LEMMA WindowTimer ==
  ASSUME QueueInv, WindowInv, ContextsOK, TimerExpires \/ HandlerEmpty \/ HandlerDone
  PROVE  QueueInv' /\ WindowInv'
<1>0. WaitTime # 0 /\ None # 0
  BY SizesAssumption
<1>1. /\ UNCHANGED <<indicate_seq, pending, up, late, base, rx>>
      /\ \/ handler.pc = "idle" /\ timer = 0 /\ handler'.pc = "fired" /\ timer' # 0
         \/ handler.pc \in {"fired", "loop"} /\ handler'.pc = "idle" /\ timer' # 0
  <2>1. CASE TimerExpires
    BY <1>0, <2>1 DEF TimerExpires, ContextsOK, window, air
  <2>2. CASE HandlerEmpty
    BY <1>0, <2>2 DEF HandlerEmpty, ContextsOK, window, air
  <2>3. CASE HandlerDone
    <3>1. handler.pc = "loop" /\ timer # 0 /\ handler' = [handler EXCEPT !.pc = "idle"]
      BY <2>3 DEF HandlerDone, WindowInv
    <3>2. handler'.pc = "idle"
      BY <3>1 DEF ContextsOK
    <3>3. timer' # 0 /\ UNCHANGED <<indicate_seq, pending, up, late, base, rx>>
      BY <1>0, <2>3, <3>1 DEF HandlerDone, window, air
    <3> QED BY <3>1, <3>2, <3>3
  <2> QED BY <2>1, <2>2, <2>3
<1>2. QueueInv' /\ EndOfSend' = EndOfSend
  BY <1>1, QueueKept
<1>3. (handler'.pc # "idle" => timer' # 0) /\ LockFree'
  BY <1>1 DEF LockFree
<1>4. CASE NoWindow
  <2>1. NoWindow'
    BY <1>1, <1>3, <1>4 DEF NoWindow
  <2> QED BY <1>2, <1>3, <2>1 DEF WindowInv
<1>5. CASE ~NoWindow
  <2>1. PICK g \in Int, r \in Int, h \in Int : WindowAt(g, r, h)
    BY <1>5, StartsAre
  <2>2. PICK e \in Int : e = EndOfSend /\ e = EndOfSend'
    BY <1>2, EndIs
  <2>3. Bounded(g, r, h, e)
    BY <2>1, <2>2 DEF WindowAt
  <2>4. HandlerNear' => HandlerNear
    BY <1>1 DEF HandlerNear
  <2>5. Bounded(g, r, h, e)'
    <3>1. rx' = rx /\ handler'.pc \notin {"load", "store", "loop"}
      BY <1>1
    <3> QED BY <2>3, <2>4, <3>1 DEF Bounded
  <2>6. Numbers(g, r, h)' /\ Reach(g, r, h)' /\ BehindWindow(g, h)'
    BY <1>1, <2>1 DEF WindowAt, Numbers, Reach, BehindWindow
  <2>7. WindowAt(g, r, h)'
    BY <2>2, <2>5, <2>6 DEF WindowAt
  <2> QED BY <1>2, <1>3, <2>7 DEF WindowInv
<1> QED
  BY <1>4, <1>5

\* The oldest frame held, and what is held once it has gone up.
LEMMA OldestIs ==
  ASSUME QueueInv, pending # << >>
  PROVE  \E m \in Int, e \in Int :
           /\ m = Head(pending) /\ m \in Frames /\ e = EndOfSend /\ e \in Int
           /\ m < e /\ e - m < Half /\ (up # None => up < m)
           /\ Reaches(m, pending) /\ 1 < WinSize /\ WinSize \in Nat
           /\ Tail(pending) \in Seq(Frames) /\ Held(Tail(pending), e, m)
           /\ \A x \in Int : Reaches(x, pending) => Reaches(x, Tail(pending)) /\ m < x + WinSize
<1>1. PICK e \in Int : /\ e = EndOfSend /\ WinSize \in Nat \ {0}
                       /\ Len(pending) \in Nat /\ \A i \in 1..Len(pending) : pending[i] \in Int
  BY EndIs
<1>2. PICK q \in Seq(Frames) : q = pending
  BY DEF QueueInv
<1>3. Len(q) \in Nat \ {0} /\ 1 \in 1..Len(q) /\ Head(q) = q[1]
  <2>1. Len(q) \in Nat \ {0}
    BY <1>2, EmptySeq
  <2> QED BY <2>1
<1>4. PICK m \in Int : m = q[1]
  BY <1>1, <1>2, <1>3
<1>5. Held(q, e, up) /\ 1 < WinSize
  BY <1>1, <1>2 DEF QueueInv
<1>6. m \in Frames /\ m < e /\ e - m < Half /\ (up # None => up < m)
  BY <1>3, <1>4, <1>5 DEF Held
<1>7. \A i \in 1..Len(q) : q[i] < m + WinSize
  <2> SUFFICES ASSUME NEW i \in 1..Len(q) PROVE q[i] < m + WinSize
    OBVIOUS
  <2>1. PICK x \in Int : x = q[i]
    BY <1>1, <1>2
  <2>2. CASE i = 1
    BY <1>1, <1>4, <2>1, <2>2
  <2>3. CASE i # 1
    <3>1. 1 < i
      BY <2>3
    <3>2. q[i] - q[1] < WinSize - 1
      BY <1>3, <1>5, <3>1 DEF Held
    <3>3. x - m < WinSize - 1
      BY <1>4, <2>1, <3>2
    <3> QED BY <1>1, <2>1, <3>3
  <2> QED BY <2>2, <2>3
<1>8. PICK t : t = Tail(q)
  OBVIOUS
<1>9. /\ t \in Seq(Frames) /\ Len(t) = Len(q) - 1
      /\ \A i \in 1..Len(t) : t[i] = q[i + 1] /\ i + 1 \in 1..Len(q) /\ 1 < i + 1
  <2>1. t \in Seq(Frames) /\ Len(t) = Len(q) - 1 /\ \A i \in 1..Len(t) : t[i] = q[i + 1]
    BY <1>3, <1>8, HeadTailProperties
  <2> QED BY <1>3, <2>1
<1>10. Held(t, e, m)
  <2>1. ASSUME NEW i \in 1..Len(t) PROVE t[i] < e /\ e - t[i] < Half /\ m < t[i]
    BY <1>3, <1>4, <1>5, <1>9 DEF Held
  <2>2. ASSUME NEW i \in 1..Len(t), NEW j \in 1..Len(t), i < j
        PROVE  t[i] < t[j] /\ t[j] - t[i] < WinSize - 1
    <3>1. i + 1 < j + 1 /\ i + 1 \in 1..Len(q) /\ j + 1 \in 1..Len(q)
      BY <1>9, <2>2
    <3>2. q[i + 1] < q[j + 1] /\ q[j + 1] - q[i + 1] < WinSize - 1
      BY <1>5, <3>1 DEF Held
    <3> QED BY <1>9, <3>2
  <2> QED BY <2>1, <2>2 DEF Held
<1>11. \A x \in Int : Reaches(x, q) => Reaches(x, t) /\ m < x + WinSize
  BY <1>3, <1>4, <1>9 DEF Reaches
<1> QED
  BY <1>1, <1>2, <1>3, <1>4, <1>5, <1>6, <1>7, <1>8, <1>9, <1>10, <1>11 DEF Reaches

LEMMA WindowForce ==
  ASSUME QueueInv, WindowInv, ContextsOK, HandlerForce
  PROVE  QueueInv' /\ WindowInv'
<1>1. /\ UNCHANGED <<pending, up, late, base, rx, timer>> /\ pending # << >>
      /\ handler.pc = "fired" /\ indicate_seq' = SeqNum(Head(pending))
      /\ handler' = [handler EXCEPT !.pc = "loop"]
  BY DEF HandlerForce, air
<1>2. handler'.pc = "loop"
  BY <1>1 DEF ContextsOK
<1>3. QueueInv' /\ EndOfSend' = EndOfSend
  BY <1>1, QueueKept
<1>4. PICK m \in Int, e \in Int :
           /\ m = Head(pending) /\ e = EndOfSend
           /\ m < e /\ (up # None => up < m)
           /\ Reaches(m, pending) /\ 1 < WinSize /\ WinSize \in Nat
  BY <1>1, OldestIs
<1>5. ~NoWindow
  BY <1>1 DEF NoWindow
<1>6. PICK g \in Int, r \in Int, h \in Int : WindowAt(g, r, h)
  BY <1>5, StartsAre
<1>7. HandlerNear /\ Bounded(g, r, h, e)
  BY <1>1, <1>4, <1>6 DEF HandlerNear, WindowAt
<1>8. Numbers(m, r, h)' /\ Reach(m, r, h)' /\ BehindWindow(m, h)'
  BY <1>1, <1>2, <1>4, <1>6 DEF WindowAt, Numbers, Reach, BehindWindow
<1>9. m <= e /\ m <= e + 1 /\ m <= e + 2
  <2>1. \A x, y \in Int : x < y => x <= y /\ x <= y + 1 /\ x <= y + 2
    OBVIOUS
  <2> QED BY <1>4, <2>1, Zenon
<1>10. Bounded(m, r, h, e)'
  BY <1>1, <1>2, <1>4, <1>7, <1>9 DEF Bounded
<1>11. WindowAt(m, r, h)'
  BY <1>3, <1>4, <1>8, <1>10 DEF WindowAt
<1>12. (handler'.pc # "idle" => timer' # 0) /\ (~LockFree' => WinSize > 1)
  BY <1>1, <1>4 DEF WindowInv
<1> QED
  BY <1>3, <1>11, <1>12 DEF WindowInv

\* The forced loop hands up the oldest frame only once the window has come to it.
LEMMA WindowTake ==
  ASSUME QueueInv, WindowInv, ContextsOK, HandlerTake
  PROVE  QueueInv' /\ WindowInv'
<1>0. PICK b \in Nat : /\ b = Half /\ SeqSpace = 2 * b /\ 2 * WinSize + MaxLoss <= b /\ 2 <= b
                       /\ SeqSpace \in Nat \ {0} /\ WinSize \in Nat \ {0} /\ MaxLoss \in Nat
  BY HalfIs DEF Half
<1>1. /\ UNCHANGED <<indicate_seq, base, rx, timer>> /\ pending # << >> /\ pending' = Tail(pending)
      /\ handler.pc = "loop" /\ ~SN_LESS(indicate_seq, SeqNum(Head(pending)))
      /\ handler' = IF indicate_seq = SeqNum(Head(pending))
                    THEN [handler EXCEPT !.pc = "load"] ELSE handler
      /\ HandUp(<<Head(pending)>>, up)
  BY DEF HandlerTake, air
<1>2. PICK m \in Int, e \in Int :
           /\ m = Head(pending) /\ m \in Frames /\ e = EndOfSend
           /\ m < e /\ e - m < Half /\ (up # None => up < m)
           /\ 1 < WinSize
           /\ Tail(pending) \in Seq(Frames) /\ Held(Tail(pending), e, m)
           /\ \A x \in Int : Reaches(x, pending) => Reaches(x, Tail(pending)) /\ m < x + WinSize
  BY <1>1, OldestIs
<1>3. EndOfSend' = e
  BY <1>1, <1>2 DEF EndOfSend
<1>4. up' = m /\ late' = FALSE
  <2>0. PICK s : s = <<m>>
    OBVIOUS
  <2>a. Len(s) = 1 /\ s[1] = m /\ s # << >>
    BY <2>0
  <2>1. s = <<m>> /\ Len(s) = 1 /\ s # << >> /\ s[1] = m /\ Last(s) = m
    BY <2>0, <2>a DEF Last
  <2>2. HandUp(s, up)
    BY <1>1, <1>2, <2>1
  <2>3. up' = m
    BY <2>1, <2>2 DEF HandUp
  <2>4. ~\E i \in 1..Len(s) : LET before == IF i = 1 THEN up ELSE s[i - 1]
                              IN  before # None /\ s[i] <= before
    <3>1. up # None => ~(m <= up)
      <4> SUFFICES ASSUME up # None PROVE ~(m <= up)
        OBVIOUS
      <4>1. PICK x \in Int : x = up /\ x < m
        BY <1>2, FramesAreInt DEF QueueInv
      <4> QED BY <4>1
    <3>2. \A i \in 1..Len(s) : i = 1
      BY <2>1
    <3> QED BY <2>1, <3>1, <3>2
  <2>5. late' = (late \/ \E i \in 1..Len(s) :
                          LET before == IF i = 1 THEN up ELSE s[i - 1]
                          IN  before # None /\ s[i] <= before)
    BY <2>2 DEF HandUp
  <2>6. late = FALSE
    BY DEF QueueInv
  <2> QED BY <2>3, <2>4, <2>5, <2>6
<1>5. QueueInv'
  <2>1. base' \in Frames
    BY <1>1 DEF QueueInv
  <2> QED BY <1>1, <1>2, <1>3, <1>4, <2>1 DEF QueueInv, Held
<1>6. PICK g \in Int, r \in Int, h \in Int : WindowAt(g, r, h)
  <2>1. ~NoWindow
    BY <1>1 DEF NoWindow, LockFree
  <2> QED BY <2>1, StartsAre
<1>7. /\ indicate_seq = SeqNum(g) /\ Reaches(g, pending) /\ Bounded(g, r, h, e)
      /\ rx.pc = "store" => rx.reg = SeqNum(r) /\ Reaches(r, pending)
  BY <1>2, <1>6 DEF WindowAt, Numbers, Reach
<1>8. m < g + WinSize /\ g <= e + 2
  BY <1>2, <1>7 DEF Bounded
<1>9. PICK d \in Int : d = g - m
  OBVIOUS
<1>10. -SeqSpace < d /\ d < SeqSpace /\ -b < d
  <2>1. e - m < b
    BY <1>0, <1>2
  <2> QED BY <1>0, <1>8, <1>9, <2>1
<1>11. d >= 0
  <2>1. ((g % SeqSpace) - (m % SeqSpace)) % SeqSpace = d % SeqSpace
    BY <1>0, <1>9, RemainderOfDifference
  <2>2. d % SeqSpace = IF d < 0 THEN d + SeqSpace ELSE d
    <3>1. -SeqSpace <= d /\ d < SeqSpace
      BY <1>0, <1>10
    <3> QED BY <1>0, <3>1, RemainderNear
  <2>3. ~(d % SeqSpace >= b)
    BY <1>0, <1>1, <1>2, <1>7, <2>1 DEF SN_LESS, SeqNum, Half
  <2> QED BY <1>0, <1>10, <2>2, <2>3
<1>12. SeqNum(g) = SeqNum(m) <=> g = m
  <2>1. -SeqSpace < g - m /\ g - m < SeqSpace
    BY <1>9, <1>10
  <2> QED BY <2>1, SameNumber
<1>13. (handler'.pc # "idle" => timer' # 0) /\ (~LockFree' => WinSize > 1)
  BY <1>0, <1>1, <1>2 DEF WindowInv
<1>14. Reaches(g, pending') /\ (rx.pc = "store" => Reaches(r, pending'))
  BY <1>1, <1>2, <1>7
<1>15. CASE g = m
  <2>1. handler' = [handler EXCEPT !.pc = "load"]
    BY <1>1, <1>2, <1>7, <1>15
  <2>2. handler'.pc = "load"
    BY <2>1 DEF ContextsOK
  <2>3. Numbers(g, r, h)' /\ Reach(g, r, h)'
    BY <1>1, <1>7, <1>14, <2>2 DEF Numbers, Reach
  <2>4. BehindWindow(g, h)'
    <3>1. m <= g
      BY <1>15
    <3> QED BY <1>4, <2>2, <3>1 DEF BehindWindow
  <2>5. g < e /\ g <= e /\ g <= e + 1 /\ g <= e + 2
    <3>1. \A x, y \in Int : x < y => x <= y /\ x <= y + 1 /\ x <= y + 2
      OBVIOUS
    <3>2. g < e
      BY <1>2, <1>15
    <3> QED BY <3>1, <3>2, Zenon
  <2>6. rx.pc = "store" => r < e /\ r <= e + 1
    <3> SUFFICES ASSUME rx.pc = "store" PROVE r < e /\ r <= e + 1
      OBVIOUS
    <3>1. r <= e + 1 /\ (r < e \/ g = r)
      BY <1>1, <1>7 DEF Bounded
    <3> QED BY <2>5, <3>1
  <2>7. Bounded(g, r, h, e)'
    BY <1>1, <1>2, <2>2, <2>5, <2>6 DEF Bounded
  <2>8. WindowAt(g, r, h)'
    BY <1>3, <2>3, <2>4, <2>7 DEF WindowAt
  <2> QED BY <1>5, <1>13, <2>8 DEF WindowInv
<1>16. CASE g # m
  <2>1. handler' = handler /\ handler'.pc = "loop"
    BY <1>1, <1>2, <1>7, <1>12, <1>16
  <2>2. m < g
    BY <1>9, <1>11, <1>16
  <2>3. Numbers(g, r, h)' /\ Reach(g, r, h)'
    BY <1>1, <1>7, <1>14, <2>1 DEF Numbers, Reach
  <2>4. BehindWindow(g, h)'
    BY <1>4, <2>1, <2>2 DEF BehindWindow
  <2>5. Bounded(g, r, h, e)'
    BY <1>1, <1>7, <2>1 DEF Bounded, HandlerNear
  <2>6. WindowAt(g, r, h)'
    BY <1>3, <2>3, <2>4, <2>5 DEF WindowAt
  <2> QED BY <1>5, <1>13, <2>6 DEF WindowInv
<1> QED
  BY <1>15, <1>16

\* The load and the store of the handler's increment.
LEMMA WindowHandlerLoad ==
  ASSUME QueueInv, WindowInv, HandlerLoad
  PROVE  QueueInv' /\ WindowInv'
<1>1. /\ UNCHANGED <<indicate_seq, pending, up, late, base, rx, timer>>
      /\ handler.pc = "load" /\ handler'.pc = "store" /\ handler'.reg = indicate_seq
  BY DEF HandlerLoad, window, air
<1>2. QueueInv' /\ EndOfSend' = EndOfSend
  BY <1>1, QueueKept
<1>3. PICK e \in Int : e = EndOfSend /\ e = EndOfSend'
  BY <1>2, EndIs
<1>4. PICK g \in Int, r \in Int, h \in Int : WindowAt(g, r, h)
  <2>1. ~NoWindow
    BY <1>1 DEF NoWindow, LockFree
  <2> QED BY <2>1, StartsAre
<1>5. Bounded(g, r, h, e)
  BY <1>3, <1>4 DEF WindowAt
<1>6. Numbers(g, r, g)' /\ Reach(g, r, g)' /\ BehindWindow(g, g)'
  BY <1>1, <1>4 DEF WindowAt, Numbers, Reach, BehindWindow
<1>7. Bounded(g, r, g, e)'
  BY <1>1, <1>5 DEF Bounded, HandlerNear
<1>8. WindowAt(g, r, g)'
  BY <1>3, <1>6, <1>7 DEF WindowAt
<1>9. (handler'.pc # "idle" => timer' # 0) /\ (~LockFree' => WinSize > 1)
  BY <1>1 DEF WindowInv, LockFree
<1> QED
  BY <1>2, <1>8, <1>9 DEF WindowInv

LEMMA WindowHandlerStore ==
  ASSUME QueueInv, WindowInv, HandlerStore
  PROVE  QueueInv' /\ WindowInv'
<1>1. /\ UNCHANGED <<pending, up, late, base, rx, timer>>
      /\ handler.pc = "store" /\ handler'.pc = "loop" /\ indicate_seq' = Succ(handler.reg)
  BY DEF HandlerStore, air
<1>2. QueueInv' /\ EndOfSend' = EndOfSend
  BY <1>1, QueueKept
<1>3. PICK e \in Int : e = EndOfSend /\ e = EndOfSend'
  BY <1>2, EndIs
<1>4. PICK g \in Int, r \in Int, h \in Int : WindowAt(g, r, h)
  <2>1. ~NoWindow
    BY <1>1 DEF NoWindow, LockFree
  <2> QED BY <2>1, StartsAre
<1>5. PICK a \in Int : a = h + 1
  OBVIOUS
<1>6. indicate_seq' = SeqNum(a)
  BY <1>1, <1>4, <1>5, SuccIs DEF WindowAt, Numbers
<1>7. Reaches(a, pending)
  <2> SUFFICES ASSUME NEW i \in 1..Len(pending) PROVE pending[i] < a + WinSize
    BY DEF Reaches
  <2>1. PICK x \in Int : x = pending[i] /\ x < h + WinSize /\ WinSize \in Nat
    BY <1>1, <1>4, EndIs DEF WindowAt, Reach, Reaches
  <2>2. x < a + WinSize
    BY <1>5, <2>1
  <2> QED BY <2>1, <2>2
<1>8. Numbers(a, r, h)' /\ Reach(a, r, h)'
  BY <1>1, <1>4, <1>6, <1>7 DEF WindowAt, Numbers, Reach
<1>9. BehindWindow(a, h)'
  <2>1. CASE up = None
    BY <1>1, <2>1 DEF BehindWindow
  <2>2. CASE up # None
    <3>1. PICK x \in Int : x = up /\ x <= h
      BY <1>1, <1>4, <2>2, FramesAreInt DEF QueueInv, WindowAt, BehindWindow
    <3>2. x < a
      BY <1>5, <3>1
    <3> QED BY <1>1, <3>1, <3>2 DEF BehindWindow
  <2> QED BY <2>1, <2>2
<1>10. Bounded(g, r, h, e) /\ WinSize > 1
  BY <1>1, <1>3, <1>4 DEF WindowAt, WindowInv, LockFree
<1>11. a <= e + 1 /\ a <= e + 2 /\ WinSize # 1 /\ h <= e
  <2>1. h <= e /\ WinSize \in Nat
    BY <1>1, <1>10, SizesAssumption DEF Bounded
  <2>2. a <= e + 1 /\ a <= e + 2
    BY <1>5, <2>1
  <2> QED BY <1>10, <2>1, <2>2
<1>12. ~HandlerNear'
  BY <1>1 DEF HandlerNear
<1>13. rx.pc = "store" => r < e /\ r <= e + 1
  BY <1>1, <1>10 DEF Bounded, HandlerNear
<1>14. Bounded(a, r, h, e)'
  BY <1>1, <1>11, <1>12, <1>13 DEF Bounded
<1>15. WindowAt(a, r, h)'
  BY <1>3, <1>8, <1>9, <1>14 DEF WindowAt
<1>16. (handler'.pc # "idle" => timer' # 0) /\ (~LockFree' => WinSize > 1)
  BY <1>1, <1>10 DEF WindowInv, LockFree
<1> QED
  BY <1>2, <1>15, <1>16 DEF WindowInv

-----------------------------------------------------------------------------
(***************************************************************************)
(* The invariants together.                                                *)
(***************************************************************************)
ReorderInv == TypeOK /\ ReorderTimerInv /\ GapInv /\ QueueInv /\ WindowInv

LEMMA ReorderInvInit == Init => ReorderInv
<1> SUFFICES ASSUME Init PROVE ReorderInv
  OBVIOUS
<1>1. FirstFrame \in Frames /\ << >> \in Seq(Frames)
  BY SizesAssumption DEF Frames
<1>2. TypeOK
  BY <1>1 DEF Init, TypeOK
<1> QED
  BY <1>2, TimerInvInit, GapInit, WindowInit DEF ReorderInv

LEMMA WindowNext ==
  ASSUME ReorderInv, [Next]_vars
  PROVE  QueueInv' /\ WindowInv'
<1>1. QueueInv /\ WindowInv /\ ReorderTimerInv /\ ContextsOK
  BY DEF ReorderInv, TypeOK, ContextsOK
<1>2. ASSUME NEW n \in Frames, RecvBypass(n) \/ RecvDropped(n) \/ RecvQueued(n)
      PROVE  QueueInv' /\ WindowInv'
  BY <1>1, <1>2, WindowUnlocked, WindowDropped, WindowQueued
<1>3. CASE RecvBypassLoad \/ RecvBypassStore \/ CancelTimer \/ RecvBar
  BY <1>1, <1>3, WindowUnlocked, WindowLoad, WindowStore, WindowCancel
<1>4. CASE RecvAddbaReq \/ CmdThread \/ EndAgreement \/ UNCHANGED vars
  BY <1>1, <1>4, WindowOthers DEF RecvAddbaReq, CmdThread, AddBaRspSetBit, AddBaRspEnable,
                                  EndAgreement, vars, window, timing, air
<1>5. CASE Tick
  BY <1>1, <1>5, WindowOthers DEF Tick, air
<1>6. CASE StationAdvance
  <2>1. UNCHANGED <<indicate_seq, pending, up, late, rx, handler>> /\ UNCHANGED timer
    BY <1>6 DEF StationAdvance, window, timing
  <2>2. base' \in Frames /\ base' = base + 1
    <3>1. base \in Frames /\ base < LastFrame /\ base' = base + 1
      BY <1>1, <1>6 DEF StationAdvance, QueueInv
    <3>2. FirstFrame \in Nat /\ LastFrame \in Nat
      BY SizesAssumption
    <3> QED BY <3>1, <3>2 DEF Frames
  <2>3. \A i \in 1..Len(pending) : base + WinSize + 1 - pending[i] < Half
    BY <1>6 DEF StationAdvance, Half
  <2> QED BY <1>1, <2>1, <2>2, <2>3, WindowOthers
<1>7. CASE TimerExpires \/ HandlerEmpty \/ HandlerDone
  BY <1>1, <1>7, WindowTimer
<1>8. CASE HandlerForce \/ HandlerTake \/ HandlerLoad \/ HandlerStore
  BY <1>1, <1>8, WindowForce, WindowTake, WindowHandlerLoad, WindowHandlerStore
<1> QED
  BY <1>2, <1>3, <1>4, <1>5, <1>6, <1>7, <1>8 DEF Next, RecvTasklet, TimerHandler

\* The rest of the state keeps its type.
LEMMA TypeNext ==
  ASSUME ReorderInv, [Next]_vars, QueueInv', WindowInv', GapInv', ReorderTimerInv'
  PROVE  TypeOK'
<1> DEFINE Num == SeqNums \cup {None}
           RxType == [pc : {"idle", "cancel", "load", "store"}, reg : Num]
           HandlerType == [pc : {"idle", "fired", "loop", "load", "store"}, reg : Num]
<1>1. indicate_seq' \in Num
  <2>1. CASE NoWindow'
    BY <2>1 DEF NoWindow
  <2>2. CASE \E g, r, h \in Int : WindowAt(g, r, h)'
    BY <2>2, SeqNumType DEF WindowAt, Numbers
  <2> QED BY <2>1, <2>2 DEF WindowInv
<1>2. /\ pending' \in Seq(Frames) /\ base' \in Frames /\ up' \in Frames \cup {None}
      /\ late' \in BOOLEAN /\ headAge' \in Nat /\ timer' \in 0..WaitTime \cup {None}
  BY DEF QueueInv, GapInv, ReorderTimerInv, TimerOK
<1>3. TypeOK
  BY DEF ReorderInv
<1>4. rx' \in RxType /\ handler' \in HandlerType
  <2>1. rx \in RxType /\ handler \in HandlerType /\ indicate_seq \in Num /\ None \in Num
    BY <1>3 DEF TypeOK
  <2> HIDE DEF Num
  <2>2. /\ \A p \in {"idle", "cancel", "load", "store"} : [rx EXCEPT !.pc = p] \in RxType
        /\ \A p \in {"idle", "cancel", "load", "store"}, x \in Num : [pc |-> p, reg |-> x] \in RxType
        /\ \A p \in {"idle", "fired", "loop", "load", "store"} : [handler EXCEPT !.pc = p] \in HandlerType
        /\ \A p \in {"idle", "fired", "loop", "load", "store"}, x \in Num :
             [pc |-> p, reg |-> x] \in HandlerType
    BY <2>1
  <2> HIDE DEF RxType, HandlerType
  <2>3. CASE \E n \in Frames : RecvBypass(n) \/ RecvDropped(n) \/ RecvQueued(n)
    BY <2>1, <2>2, <2>3 DEF RecvBypass, RecvDropped, RecvQueued, timing
  <2>4. CASE RecvBypassLoad \/ RecvBypassStore \/ CancelTimer \/ RecvBar \/ RecvAddbaReq
    BY <2>1, <2>2, <2>4 DEF RecvBypassLoad, RecvBypassStore, CancelTimer, RecvBar, RecvAddbaReq, timing
  <2>5. CASE CmdThread \/ EndAgreement \/ StationAdvance \/ Tick \/ UNCHANGED vars
    BY <2>1, <2>5 DEF CmdThread, AddBaRspSetBit, AddBaRspEnable, EndAgreement, StationAdvance, Tick,
                      vars, timing
  <2>6. CASE TimerExpires \/ HandlerEmpty \/ HandlerForce \/ HandlerDone
    BY <2>1, <2>2, <2>6 DEF TimerExpires, HandlerEmpty, HandlerForce, HandlerDone
  <2>7. CASE HandlerTake \/ HandlerLoad \/ HandlerStore
    BY <2>1, <2>2, <2>7 DEF HandlerTake, HandlerLoad, HandlerStore
  <2> QED BY <2>3, <2>4, <2>5, <2>6, <2>7 DEF Next, RecvTasklet, TimerHandler
<1>5. enable' \in BOOLEAN /\ rec_abba_rsp_ack' \in BOOLEAN /\ cmd' \in {"idle", "accept", "reject", "enable", "disable"}
  <2>1. enable \in BOOLEAN /\ rec_abba_rsp_ack \in BOOLEAN /\ cmd \in {"idle", "accept", "reject", "enable", "disable"}
    BY <1>3 DEF TypeOK
  <2>2. CASE \E n \in Frames : RecvBypass(n) \/ RecvDropped(n) \/ RecvQueued(n)
    BY <2>1, <2>2 DEF RecvBypass, RecvDropped, RecvQueued, session
  <2>3. CASE RecvBypassLoad \/ RecvBypassStore \/ CancelTimer \/ RecvBar \/ RecvAddbaReq
    BY <2>1, <2>3 DEF RecvBypassLoad, RecvBypassStore, CancelTimer, RecvBar, RecvAddbaReq, session
  <2>4. CASE CmdThread \/ EndAgreement \/ StationAdvance \/ Tick \/ UNCHANGED vars
    BY <2>1, <2>4 DEF CmdThread, AddBaRspSetBit, AddBaRspEnable, EndAgreement, StationAdvance, Tick,
                      vars, session
  <2>5. CASE TimerExpires \/ TimerHandler
    BY <2>1, <2>5 DEF TimerExpires, TimerHandler, HandlerEmpty, HandlerForce, HandlerDone,
                      HandlerTake, HandlerLoad, HandlerStore, session
  <2> QED BY <2>2, <2>3, <2>4, <2>5 DEF Next, RecvTasklet
<1>6. bReorderWaiting' \in BOOLEAN
  <2>1. bReorderWaiting \in BOOLEAN
    BY <1>3 DEF TypeOK
  <2>2. CASE \E n \in Frames : RecvBypass(n) \/ RecvDropped(n) \/ RecvQueued(n)
    BY <2>1, <2>2 DEF RecvBypass, RecvDropped, RecvQueued, WaitingAfter, timing
  <2>3. CASE RecvBypassLoad \/ RecvBypassStore \/ CancelTimer \/ RecvBar \/ RecvAddbaReq
    BY <2>1, <2>3 DEF RecvBypassLoad, RecvBypassStore, CancelTimer, RecvBar, RecvAddbaReq, timing
  <2>4. CASE CmdThread \/ EndAgreement \/ StationAdvance \/ Tick \/ UNCHANGED vars
    BY <2>1, <2>4 DEF CmdThread, AddBaRspSetBit, AddBaRspEnable, EndAgreement, StationAdvance, Tick,
                      vars, timing
  <2>5. CASE TimerExpires \/ TimerHandler
    BY <2>1, <2>5 DEF TimerExpires, TimerHandler, HandlerEmpty, HandlerForce, HandlerDone,
                      HandlerTake, HandlerLoad, HandlerStore
  <2> QED BY <2>2, <2>3, <2>4, <2>5 DEF Next, RecvTasklet
<1>7. tid_rxseq' \in Num /\ heard' \in Frames \cup {FirstFrame - 1}
  <2>1. tid_rxseq \in Num /\ heard \in Frames \cup {FirstFrame - 1}
    BY <1>3 DEF TypeOK
  <2>2. ASSUME NEW n \in Frames, Received(n) PROVE tid_rxseq' \in Num /\ heard' \in Frames \cup {FirstFrame - 1}
    <3>1. SeqNum(n) \in SeqNums
      BY FramesAreInt, SeqNumType
    <3> QED BY <2>1, <2>2, <3>1 DEF Received
  <2>3. CASE \E n \in Frames : RecvBypass(n) \/ RecvDropped(n) \/ RecvQueued(n)
    BY <2>2, <2>3 DEF RecvBypass, RecvDropped, RecvQueued
  <2>4. CASE RecvBypassLoad \/ RecvBypassStore \/ CancelTimer \/ RecvBar \/ RecvAddbaReq
    BY <2>1, <2>4 DEF RecvBypassLoad, RecvBypassStore, CancelTimer, RecvBar, RecvAddbaReq, air
  <2>5. CASE CmdThread \/ EndAgreement \/ StationAdvance \/ Tick \/ UNCHANGED vars
    BY <2>1, <2>5 DEF CmdThread, AddBaRspSetBit, AddBaRspEnable, EndAgreement, StationAdvance, Tick,
                      vars, air
  <2>6. CASE TimerExpires \/ TimerHandler
    BY <2>1, <2>6 DEF TimerExpires, TimerHandler, HandlerEmpty, HandlerForce, HandlerDone,
                      HandlerTake, HandlerLoad, HandlerStore, air
  <2> QED BY <2>3, <2>4, <2>5, <2>6 DEF Next, RecvTasklet
<1> QED
  BY <1>1, <1>2, <1>4, <1>5, <1>6, <1>7 DEF TypeOK

LEMMA ReorderInvNext == ReorderInv /\ [Next]_vars => ReorderInv'
<1> SUFFICES ASSUME ReorderInv, [Next]_vars PROVE ReorderInv'
  OBVIOUS
<1>1. QueueInv' /\ WindowInv'
  BY WindowNext
<1>2. ReorderTimerInv' /\ GapInv'
  BY TimerInvNext, GapNext DEF ReorderInv, ReorderTimerInv
<1>3. TypeOK'
  BY <1>1, <1>2, TypeNext
<1> QED
  BY <1>1, <1>2, <1>3 DEF ReorderInv

\* Frames less than a window apart are fewer than the window.
LEMMA FewerThanWindow ==
  ASSUME QueueInv
  PROVE  Len(pending) < WinSize
<1>0. WinSize \in Nat \ {0}
  BY SizesAssumption
<1>1. PICK q \in Seq(Frames) : q = pending
  BY DEF QueueInv
<1>2. PICK n \in Nat : n = Len(q)
  OBVIOUS
<1>3. Held(q, EndOfSend, up) /\ (q # << >> => 1 < WinSize) /\ \A i \in 1..n : q[i] \in Int
  BY <1>1, <1>2, FramesAreInt DEF QueueInv
<1>4. CASE n = 0
  BY <1>0, <1>1, <1>2, <1>4
<1>5. CASE n # 0
  <2>0. q # << >> /\ 1 \in 1..n
    BY <1>2, <1>5
  <2>1. \A i \in 1..n : q[1] + i - 1 <= q[i]
    <3> DEFINE Bad == {i \in 1..n : ~(q[1] + i - 1 <= q[i])}
    <3> SUFFICES ASSUME Bad # {} PROVE FALSE
      OBVIOUS
    <3>1. PICK i \in Bad : \A j \in Bad : i <= j
      <4>1. Bad \in SUBSET Nat
        OBVIOUS
      <4> HIDE DEF Bad
      <4> QED BY <4>1, LeastElement
    <3>2. i \in 1..n /\ ~(q[1] + i - 1 <= q[i])
      OBVIOUS
    <3>3. i # 1
      <4>1. PICK x \in Int : x = q[1]
        BY <1>3, <2>0
      <4> QED BY <3>2, <4>1
    <3>4. PICK j \in 1..n : i = j + 1 /\ ~(i <= j) /\ j < i
      <4>1. i - 1 \in 1..n /\ i = (i - 1) + 1 /\ ~(i <= i - 1) /\ i - 1 < i
        BY <1>2, <3>2, <3>3
      <4> QED BY <4>1
    <3>5. q[1] + j - 1 <= q[j]
      <4>1. j \notin Bad
        <5> HIDE DEF Bad
        <5> QED BY <3>1, <3>4
      <4> QED BY <4>1
    <3>6. q[j] < q[i]
      BY <1>2, <1>3, <3>2, <3>4 DEF Held
    <3>7. PICK x \in Int, y \in Int, z \in Int : x = q[1] /\ y = q[j] /\ z = q[i]
      BY <1>3, <2>0, <3>2, <3>4
    <3>8. x + j - 1 <= y /\ y < z /\ ~(x + i - 1 <= z)
      BY <3>2, <3>5, <3>6, <3>7
    <3> QED BY <3>4, <3>8
  <2>2. CASE n = 1
    BY <1>1, <1>2, <1>3, <2>0, <2>2
  <2>3. CASE n # 1
    <3>1. n \in 1..n /\ 1 < n
      BY <1>2, <1>5, <2>3
    <3>2. q[n] - q[1] < WinSize - 1
      BY <1>2, <1>3, <2>0, <3>1 DEF Held
    <3>3. PICK x \in Int, y \in Int : x = q[1] /\ y = q[n]
      BY <1>3, <2>0, <3>1
    <3>4. x + n - 1 <= y
      BY <2>1, <3>1, <3>3
    <3>5. y - x < WinSize - 1
      BY <3>2, <3>3
    <3>6. n < WinSize
      BY <1>0, <1>2, <3>4, <3>5
    <3> QED BY <1>1, <1>2, <3>6
  <2> QED BY <2>2, <2>3
<1> QED
  BY <1>4, <1>5

\* The window's start is a 12-bit number and the state well typed; the queue is sorted
\* without duplicates and shorter than the window, for every number space and window
\* and whatever the station sends (check_indicate_seq, enqueue_reorder_recvframe).
THEOREM BufferIsOrdered == Spec => []BufferOK
<1>1. ReorderInv => BufferOK
  <2> SUFFICES ASSUME ReorderInv PROVE BufferOK
    OBVIOUS
  <2>1. \A i, j \in 1..Len(pending) : i < j => pending[i] < pending[j]
    BY DEF ReorderInv, QueueInv, Held
  <2>2. TypeOK /\ Len(pending) < WinSize
    BY FewerThanWindow DEF ReorderInv
  <2> QED BY <2>1, <2>2 DEF BufferOK
<1> QED
  BY <1>1, ReorderInvInit, ReorderInvNext, PTL DEF Spec

\* No frame goes up after a newer one, and none goes up twice, unless the window was
\* moved back (recv_indicatepkts_in_order, rtw_recv.c:3561-3692).
THEOREM FramesGoUpInOrder == Spec => []InOrder
<1>1. ReorderInv => InOrder
  BY DEF ReorderInv, QueueInv, InOrder
<1> QED
  BY <1>1, ReorderInvInit, ReorderInvNext, PTL DEF Spec

-----------------------------------------------------------------------------
(***************************************************************************)
(* The refinement.  What ReorderBuffer computes on sets.                   *)
(***************************************************************************)
LEMMA EndOfRunIs ==
  ASSUME NEW F \in SUBSET Frames, NEW w \in Int, NEW a \in Int, w <= a, a \notin F,
         \A i \in w..(a - 1) : i \in F
  PROVE  Buffer!EndOfRun(F, w) = a
<1>1. IsFiniteSet(F) /\ Cardinality(F) \in Nat
  <2>1. FirstFrame \in Int /\ LastFrame \in Int
    BY SizesAssumption
  <2>2. IsFiniteSet(Frames)
    BY <2>1, FS_Interval DEF Frames
  <2> QED BY <2>2, FS_Subset, FS_CardinalityType
<1>2. PICK c \in Nat : c = Cardinality(F)
  BY <1>1
<1>3. a - w <= c
  <2>1. PICK b \in Int : b = a - 1
    OBVIOUS
  <2>2. w..b \in SUBSET F
    BY <2>1
  <2>3. Cardinality(w..b) <= Cardinality(F)
    BY <1>1, <2>2, FS_Subset
  <2>4. Cardinality(w..b) = IF w > b THEN 0 ELSE b - w + 1
    BY FS_Interval
  <2> QED BY <1>2, <2>1, <2>3, <2>4
<1>4. a \in w..(w + c)
  BY <1>2, <1>3
<1>5. \A k \in w..(w + c) : (k \notin F /\ \A i \in w..(k - 1) : i \in F) => k = a
  <2> SUFFICES ASSUME NEW k \in w..(w + c), k \notin F, \A i \in w..(k - 1) : i \in F
               PROVE  k = a
    OBVIOUS
  <2>1. k \in Int /\ w <= k
    BY <1>2
  <2>2. ~(k < a)
    <3> SUFFICES ASSUME k < a PROVE FALSE
      OBVIOUS
    <3>1. k \in w..(a - 1)
      BY <2>1
    <3> QED BY <3>1
  <2>3. ~(a < k)
    <3> SUFFICES ASSUME a < k PROVE FALSE
      OBVIOUS
    <3>1. a \in w..(k - 1)
      BY <2>1
    <3> QED BY <3>1
  <2> QED BY <2>1, <2>2, <2>3
<1>6. Buffer!EndOfRun(F, w) = CHOOSE k \in w..(w + c) : k \notin F /\ \A i \in w..(k - 1) : i \in F
  <2>1. Buffer!Cardinality(F) = c
    BY <1>2 DEF Cardinality, Buffer!Cardinality
  <2> QED BY <2>1 DEF Buffer!EndOfRun
<1> QED
  BY <1>4, <1>5, <1>6

LEMMA LeastIs ==
  ASSUME NEW F \in SUBSET Int, NEW m \in F, \A y \in F : m <= y
  PROVE  Buffer!Min(F) = m
<1>1. \A x \in F : (\A y \in F : x <= y) => x = m
  OBVIOUS
<1> QED
  BY <1>1 DEF Buffer!Min

LEMMA GreatestIs ==
  ASSUME NEW F \in SUBSET Int, NEW m \in F, \A y \in F : y <= m
  PROVE  Buffer!Max(F) = m
<1>1. \A x \in F : (\A y \in F : x >= y) => x = m
  OBVIOUS
<1>2. \A y \in F : m >= y
  OBVIOUS
<1> QED
  BY <1>1, <1>2 DEF Buffer!Max

-----------------------------------------------------------------------------
(***************************************************************************)
(* The window of the refinement mapping.                                   *)
(***************************************************************************)
\* A start that is within half of the space around b.
Around(A, b) == b - Half <= A /\ A < b + Half

\* The number around b that the air number of x stands for.
Place(b, x) == (b - Half) + ((SeqNum(x) - (b - Half)) % SeqSpace)

LEMMA PlaceIs ==
  ASSUME NEW b \in Int, NEW x \in Int
  PROVE  \E A \in Int : /\ A = Place(b, x) /\ Around(A, b) /\ SeqNum(A) = SeqNum(x)
                        /\ x < b + Half => x <= A
                        /\ Around(x, b) => A = x
<1>0. PICK h \in Nat : /\ h = Half /\ SeqSpace = 2 * h /\ SeqSpace \in Nat \ {0}
  BY HalfIs DEF Half
<1>1. PICK l \in Int : l = b - h
  BY <1>0
<1>2. PICK d \in Int : d = x - l
  OBVIOUS
<1>3. PICK p \in Int, t \in 0..(SeqSpace - 1) : d = SeqSpace * p + t /\ t = d % SeqSpace
  BY <1>0, Quotient
<1>4. Place(b, x) = l + t
  <2>1. -l \in Int
    OBVIOUS
  <2>2. ((x % SeqSpace) + (-l)) % SeqSpace = (x + (-l)) % SeqSpace
    BY <1>0, <2>1, RemainderOfSum
  <2>3. x + (-l) = d
    BY <1>2
  <2>4. x % SeqSpace \in Int
    BY <1>0
  <2>5. (x % SeqSpace) + (-l) = (x % SeqSpace) - l
    BY <2>4
  <2> QED BY <1>0, <1>1, <1>3, <2>2, <2>3, <2>5 DEF Place, SeqNum
<1>5. t \in Int /\ 0 <= t /\ t < SeqSpace
  BY <1>0
<1>6. PICK A \in Int : A = l + t
  BY <1>5
<1>7. Around(A, b)
  BY <1>0, <1>1, <1>5, <1>6 DEF Around
<1>8. SeqNum(A) = SeqNum(x)
  <2>1. ((d % SeqSpace) + l) % SeqSpace = (d + l) % SeqSpace
    BY <1>0, RemainderOfSum
  <2>2. d + l = x /\ t + l = A
    BY <1>2, <1>5, <1>6
  <2> QED BY <1>3, <2>1, <2>2 DEF SeqNum
<1>9. x < b + Half => x <= A
  <2> SUFFICES ASSUME x < b + h PROVE d <= t
    BY <1>0, <1>2, <1>5, <1>6
  <2>1. d < SeqSpace
    BY <1>0, <1>1, <1>2
  <2>2. p <= 0
    <3> SUFFICES ASSUME p >= 1 PROVE FALSE
      OBVIOUS
    <3>1. SeqSpace * p >= SeqSpace
      BY <1>0, SMT
    <3>2. PICK m \in Int : m = SeqSpace * p
      BY <1>0
    <3> QED BY <1>0, <1>3, <1>5, <2>1, <3>1, <3>2
  <2>3. SeqSpace * p <= 0
    BY <1>0, <2>2, SMT
  <2>4. PICK m \in Int : m = SeqSpace * p
    BY <1>0
  <2> QED BY <1>3, <1>5, <2>3, <2>4
<1>10. Around(x, b) => A = x
  <2> SUFFICES ASSUME Around(x, b) PROVE A = x
    OBVIOUS
  <2>1. -SeqSpace < A - x /\ A - x < SeqSpace
    BY <1>0, <1>7 DEF Around
  <2> QED BY <1>8, <2>1, SameNumber
<1> QED
  BY <1>4, <1>6, <1>7, <1>8, <1>9, <1>10

\* The start of the window, the handler's pending increment done.
StartDone == IF handler.pc = "load" THEN Succ(indicate_seq)
             ELSE IF handler.pc = "store" THEN Succ(handler.reg)
             ELSE indicate_seq

\* The window of the refinement mapping starts at A.
Stands(A) ==
  /\ AbsoluteWindow = A /\ Around(A, base) /\ StartDone = SeqNum(A)
  /\ Reaches(A, pending) /\ (up # None => up < A)

\* The races carry the window less than half of the space beyond the station's own.
LEMMA StandsSomewhere ==
  ASSUME QueueInv, WindowInv, WinSize = 2 => SeqSpace > 8, indicate_seq # None
  PROVE  \E A \in Int : Stands(A)
<1>0. PICK b \in Nat : /\ b = Half /\ SeqSpace = 2 * b /\ 2 * WinSize + MaxLoss <= b /\ 2 <= b
                       /\ SeqSpace \in Nat \ {0} /\ WinSize \in Nat \ {0} /\ MaxLoss \in Nat
  BY HalfIs DEF Half
<1>1. PICK e \in Int : /\ e = EndOfSend /\ base \in Int /\ e = base + WinSize
                       /\ Len(pending) \in Nat
                       /\ \A i \in 1..Len(pending) : pending[i] \in Int
  BY EndIs
<1>2. PICK g \in Int, r \in Int, h \in Int : WindowAt(g, r, h)
  BY StartsAre DEF NoWindow
<1>3. Bounded(g, r, h, e) /\ BehindWindow(g, h)
  BY <1>1, <1>2 DEF WindowAt
<1>4. PICK x \in Int : x = IF handler.pc = "load" THEN g + 1
                           ELSE IF handler.pc = "store" THEN h + 1 ELSE g
  <2>1. g + 1 \in Int /\ h + 1 \in Int
    OBVIOUS
  <2> QED BY <2>1, Zenon
<1>5. StartDone = SeqNum(x)
  <2>1. Succ(SeqNum(g)) = SeqNum(g + 1) /\ Succ(SeqNum(h)) = SeqNum(h + 1)
    BY SuccIs
  <2> QED BY <1>2, <1>4, <2>1 DEF WindowAt, Numbers, StartDone
<1>6. x < base + b
  <2>1. CASE WinSize = 1
    <3>1. handler.pc \notin {"load", "store"}
      BY <2>1 DEF WindowInv, LockFree
    <3>2. x <= e
      BY <1>3, <1>4, <2>1, <3>1 DEF Bounded
    <3> QED BY <1>0, <1>1, <2>1, <3>2
  <2>2. CASE WinSize # 1
    <3>1. x <= e + 2
      <4>1. g <= e + 2
        BY <1>3 DEF Bounded
      <4>2. handler.pc = "load" => g <= e
        BY <1>3 DEF Bounded
      <4>3. handler.pc = "store" => h <= e
        BY <1>3 DEF Bounded
      <4> QED BY <1>4, <4>1, <4>2, <4>3
    <3>2. WinSize + 2 < b
      BY <1>0, <2>2
    <3> QED BY <1>0, <1>1, <3>1, <3>2
  <2> QED BY <2>1, <2>2
<1>7. PICK A \in Int : /\ A = Place(base, x) /\ Around(A, base) /\ SeqNum(A) = SeqNum(x) /\ x <= A
  <2>1. x < base + Half
    BY <1>0, <1>6
  <2> QED BY <1>1, <2>1, PlaceIs
<1>8. AbsoluteWindow = A
  BY <1>5, <1>7 DEF AbsoluteWindow, StartDone, Place, Half
<1>9. Reaches(A, pending)
  <2>1. Reaches(x, pending)
    <3>1. Reaches(g, pending) /\ (handler.pc = "store" => Reaches(h, pending))
      BY <1>2 DEF WindowAt, Reach
    <3>2. \A i \in 1..Len(pending) : /\ pending[i] < g + WinSize
                                     /\ handler.pc = "store" => pending[i] < h + WinSize
      BY <3>1 DEF Reaches
    <3> SUFFICES ASSUME NEW i \in 1..Len(pending) PROVE pending[i] < x + WinSize
      BY DEF Reaches
    <3>3. PICK y \in Int : y = pending[i]
      BY <1>1
    <3>4. y < g + WinSize /\ (handler.pc = "store" => y < h + WinSize)
      BY <3>2, <3>3
    <3> QED BY <1>0, <1>4, <3>3, <3>4
  <2> SUFFICES ASSUME NEW i \in 1..Len(pending) PROVE pending[i] < A + WinSize
    BY DEF Reaches
  <2>2. PICK y \in Int : y = pending[i] /\ y < x + WinSize
    BY <1>1, <2>1 DEF Reaches
  <2> QED BY <1>0, <1>7, <2>2
<1>10. up # None => up < A
  <2> SUFFICES ASSUME up # None PROVE up < A
    OBVIOUS
  <2>1. PICK u \in Int : u = up
    BY FramesAreInt DEF QueueInv
  <2>2. \/ handler.pc = "store" /\ u <= h
        \/ handler.pc = "load" /\ u <= g
        \/ handler.pc \notin {"load", "store"} /\ u < g
    BY <1>3, <2>1 DEF BehindWindow
  <2>3. u < x
    BY <1>4, <2>2
  <2> QED BY <1>7, <2>1, <2>3
<1> QED
  BY <1>5, <1>7, <1>8, <1>9, <1>10 DEF Stands

-----------------------------------------------------------------------------
(***************************************************************************)
(* The refinement, step by step.                                           *)
(***************************************************************************)
BufferStep == [Buffer!ReorderNext]_(Buffer!absVars)

\* Where the window stands after a step.
LEMMA StandsNext ==
  ASSUME NEW b \in Int, b = base', NEW x \in Int, StartDone' = SeqNum(x), indicate_seq' # None
  PROVE  AbsoluteWindow' \in Int /\ AbsoluteWindow' = Place(b, x) /\ (Around(x, b) => AbsoluteWindow' = x)
<1>1. AbsoluteWindow' = Place(b, x)
  BY DEF AbsoluteWindow, StartDone, Place, Half
<1>2. PICK A \in Int : A = Place(b, x) /\ (Around(x, b) => A = x)
  BY PlaceIs
<1> QED
  BY <1>1, <1>2

LEMMA StepsAside ==
  ASSUME UNCHANGED <<pending, up, rec_abba_rsp_ack, base>>, StartDone' = StartDone,
         indicate_seq' = None <=> indicate_seq = None
  PROVE  BufferStep
<1>1. AbsoluteWindow' = AbsoluteWindow
  BY DEF AbsoluteWindow, StartDone
<1> QED
  BY <1>1 DEF BufferStep, Buffer!absVars

\* A step that moves the window and nothing else.
LEMMA StepMoves ==
  ASSUME UNCHANGED <<pending, rec_abba_rsp_ack>>, AbsoluteWindow' \in Int,
         \/ up' = None
         \/ up' = up /\ up \in Int /\ up < AbsoluteWindow'
  PROVE  BufferStep
<1>1. CASE up' = None
  <2>1. Buffer!Bypass
    BY <1>1 DEF Buffer!Bypass
  <2> QED BY <2>1 DEF BufferStep, Buffer!ReorderNext
<1>2. CASE up' = up /\ up \in Int /\ up < AbsoluteWindow'
  <2>1. ~(AbsoluteWindow' <= up)
    BY <1>2
  <2>2. Buffer!Move
    BY <1>2, <2>1 DEF Buffer!Move
  <2> QED BY <2>2 DEF BufferStep, Buffer!ReorderNext
<1> QED
  BY <1>1, <1>2

\* The bypass, and a BAR.
LEMMA StepUnlocked ==
  ASSUME QueueInv, WindowInv, ContextsOK, WinSize = 2 => SeqSpace > 8,
         RecvBar \/ RecvBypassStore \/ \E n \in Frames : RecvBypass(n)
  PROVE  BufferStep
<1>0. PICK h \in Nat : /\ h = Half /\ SeqSpace = 2 * h /\ 2 * WinSize + MaxLoss <= h /\ 2 <= h
                       /\ WinSize \in Nat \ {0} /\ MaxLoss \in Nat
  BY HalfIs DEF Half
<1>1. UNCHANGED <<pending, rec_abba_rsp_ack, base, handler>>
  BY DEF RecvBar, RecvBypassStore, RecvBypass, Received, timing, session, air
<1>2. PICK b \in Int : b = base /\ b = base'
  BY <1>1, FramesAreInt DEF QueueInv
<1>3. ASSUME NEW x \in Int, indicate_seq' = SeqNum(x)
      PROVE  \E y \in Int : /\ StartDone' = SeqNum(y) /\ indicate_seq' # None
                            /\ handler.pc \notin {"load", "store"} => y = x
                            /\ handler.pc = "load" => y = x + 1
                            /\ handler.pc = "store" => SeqNum(y) = StartDone
  <2>1. indicate_seq' # None
    BY <1>3, SeqNumType
  <2>2. CASE handler.pc = "load"
    <3>1. StartDone' = SeqNum(x + 1)
      BY <1>1, <1>3, <2>2, SuccIs DEF StartDone
    <3> QED BY <2>1, <2>2, <3>1
  <2>3. CASE handler.pc = "store"
    <3>1. ~NoWindow
      BY <2>3 DEF NoWindow, LockFree
    <3>2. PICK g \in Int, r \in Int, k \in Int : WindowAt(g, r, k)
      BY <3>1, StartsAre
    <3>3. StartDone = SeqNum(k + 1)
      BY <2>3, <3>2, SuccIs DEF StartDone, WindowAt, Numbers
    <3>4. StartDone' = StartDone
      BY <1>1, <2>3 DEF StartDone
    <3>5. k + 1 \in Int
      OBVIOUS
    <3> QED BY <2>1, <2>3, <3>3, <3>4, <3>5
  <2>4. CASE handler.pc \notin {"load", "store"}
    <3>1. StartDone' = SeqNum(x)
      BY <1>1, <1>3, <2>4 DEF StartDone
    <3> QED BY <2>1, <2>4, <3>1
  <2> QED BY <2>2, <2>3, <2>4
<1>4. CASE RecvBypassStore \/ \E n \in Frames : RecvBypass(n)
  <2>1. \E x \in Int : indicate_seq' = SeqNum(x)
    <3>1. CASE RecvBypassStore
      <4>1. rx.pc = "store" /\ indicate_seq' = Succ(rx.reg)
        BY <3>1 DEF RecvBypassStore, UnlockedStore
      <4>2. PICK g \in Int, r \in Int, k \in Int : WindowAt(g, r, k)
        BY <4>1, StartsAre DEF NoWindow
      <4>3. indicate_seq' = SeqNum(r + 1) /\ r + 1 \in Int
        BY <4>1, <4>2, SuccIs DEF WindowAt, Numbers
      <4> QED BY <4>3
    <3>2. CASE \E n \in Frames : RecvBypass(n)
      BY <3>2, FramesAreInt DEF RecvBypass, UnlockedStore
    <3> QED BY <1>4, <3>1, <3>2
  <2>2. up' = None
    BY <1>4 DEF RecvBypassStore, RecvBypass
  <2>3. PICK y \in Int : StartDone' = SeqNum(y) /\ indicate_seq' # None
    BY <1>3, <2>1
  <2>4. AbsoluteWindow' \in Int
    BY <1>2, <2>3, StandsNext
  <2> QED BY <1>1, <2>2, <2>4, StepMoves
<1>5. CASE RecvBar
  <2>1. indicate_seq' = SeqNum(b) /\ up' = IF up # None /\ b <= up THEN None ELSE up
    BY <1>2, <1>5 DEF RecvBar, UnlockedStore, WindowMoved
  <2>2. PICK y \in Int : /\ StartDone' = SeqNum(y) /\ indicate_seq' # None
                         /\ handler.pc \notin {"load", "store"} => y = b
                         /\ handler.pc = "load" => y = b + 1
                         /\ handler.pc = "store" => SeqNum(y) = StartDone
    BY <1>2, <1>3, <2>1
  <2>3. /\ AbsoluteWindow' \in Int /\ AbsoluteWindow' = Place(b, y)
        /\ Around(y, b) => AbsoluteWindow' = y
    BY <1>2, <2>2, StandsNext
  <2>4. CASE up' = None
    BY <1>1, <2>3, <2>4, StepMoves
  <2>5. CASE up' # None
    <3>1. PICK u \in Int : u = up /\ u = up' /\ up # None /\ u < b
      <4>1. up' = up /\ up # None /\ ~(b <= up)
        BY <2>1, <2>5
      <4>2. up \in Int
        BY <4>1, FramesAreInt DEF QueueInv
      <4> QED BY <4>1, <4>2
    <3>2. CASE handler.pc \in {"idle", "fired", "loop", "load"}
      <4>1. b <= y /\ y <= b + 1
        BY <2>2, <3>2
      <4>2. Around(y, b)
        BY <1>0, <4>1 DEF Around
      <4>3. u < y
        BY <3>1, <4>1
      <4> QED BY <1>1, <2>3, <3>1, <4>2, <4>3, StepMoves
    <3>3. CASE handler.pc = "store"
      <4>1. indicate_seq # None
        <5>1. ~NoWindow
          BY <3>3 DEF NoWindow, LockFree
        <5>2. PICK g \in Int, r \in Int, k \in Int : WindowAt(g, r, k)
          BY <5>1, StartsAre
        <5> QED BY <5>2, SeqNumType DEF WindowAt, Numbers
      <4>2. PICK A \in Int : Stands(A)
        BY <4>1, StandsSomewhere
      <4>3. StartDone' = SeqNum(A) /\ Around(A, b) /\ u < A
        BY <1>2, <2>2, <3>1, <3>3, <4>2 DEF Stands
      <4>4. AbsoluteWindow' = A
        BY <1>2, <2>2, <4>3, StandsNext
      <4> QED BY <1>1, <3>1, <4>3, <4>4, StepMoves
    <3> QED BY <3>2, <3>3 DEF ContextsOK
  <2> QED BY <2>4, <2>5
<1> QED
  BY <1>4, <1>5

\* The station goes on, and with it the numbers that the window may stand for.
LEMMA StepStation ==
  ASSUME QueueInv, WindowInv, WinSize = 2 => SeqSpace > 8, StationAdvance
  PROVE  BufferStep
<1>1. /\ UNCHANGED <<indicate_seq, pending, up, rec_abba_rsp_ack, handler>>
      /\ base' = base + 1 /\ base \in Int
  BY FramesAreInt DEF StationAdvance, QueueInv, window, timing, session
<1>2. CASE indicate_seq = None
  <2>1. AbsoluteWindow' = AbsoluteWindow
    BY <1>1, <1>2 DEF AbsoluteWindow
  <2> QED BY <1>1, <2>1 DEF BufferStep, Buffer!absVars
<1>3. CASE indicate_seq # None
  <2>1. PICK A \in Int : Stands(A)
    BY <1>3, StandsSomewhere
  <2>2. StartDone' = SeqNum(A) /\ A < base + Half
    BY <1>1, <2>1 DEF Stands, StartDone, Around
  <2>3. PICK b \in Int : b = base'
    BY <1>1
  <2>4. PICK h \in Nat : h = Half
    BY HalfIs DEF Half
  <2>5. A < b + Half
    BY <1>1, <2>2, <2>3, <2>4
  <2>6. PICK B \in Int : B = Place(b, A) /\ A <= B
    BY <2>5, PlaceIs
  <2>7. AbsoluteWindow' = B
    BY <1>1, <1>3, <2>2, <2>3, <2>6, StandsNext
  <2>8. up = None \/ (up \in Int /\ up < B)
    <3> SUFFICES ASSUME up # None PROVE up \in Int /\ up < B
      OBVIOUS
    <3>1. PICK u \in Int : u = up
      BY FramesAreInt DEF QueueInv
    <3>2. u < A
      BY <2>1, <3>1 DEF Stands
    <3> QED BY <2>6, <3>1, <3>2
  <2> QED BY <1>1, <2>7, <2>8, StepMoves
<1> QED
  BY <1>2, <1>3

\* The steps that leave the buffer alone, and the command thread's bit.
LEMMA StepOthers ==
  ASSUME \/ RecvBypassLoad \/ CancelTimer \/ RecvAddbaReq \/ EndAgreement \/ AddBaRspEnable
         \/ Tick \/ TimerExpires \/ HandlerEmpty \/ HandlerDone \/ AddBaRspSetBit
         \/ UNCHANGED vars,
         ContextsOK
  PROVE  BufferStep
<1>1. UNCHANGED <<indicate_seq, pending, up, base>> /\ StartDone' = StartDone
  <2>1. CASE TimerExpires \/ HandlerEmpty \/ HandlerDone
    <3>1. handler.pc \notin {"load", "store"} /\ handler'.pc \notin {"load", "store"}
      BY <2>1 DEF TimerExpires, HandlerEmpty, HandlerDone, ContextsOK
    <3>2. UNCHANGED <<indicate_seq, pending, up, base>>
      BY <2>1 DEF TimerExpires, HandlerEmpty, HandlerDone, window, air
    <3> QED BY <3>1, <3>2 DEF StartDone
  <2>2. CASE ~(TimerExpires \/ HandlerEmpty \/ HandlerDone)
    <3>1. UNCHANGED <<indicate_seq, pending, up, base, handler>>
      BY <2>2 DEF RecvBypassLoad, CancelTimer, RecvAddbaReq, EndAgreement, AddBaRspEnable, Tick,
                  AddBaRspSetBit, vars, window, timing, session, air
    <3> QED BY <3>1 DEF StartDone
  <2> QED BY <2>1, <2>2
<1>2. AbsoluteWindow' = AbsoluteWindow
  BY <1>1 DEF AbsoluteWindow, StartDone
<1>3. CASE rec_abba_rsp_ack' = rec_abba_rsp_ack
  BY <1>1, <1>3, StepsAside
<1>4. CASE rec_abba_rsp_ack' # rec_abba_rsp_ack
  <2>1. AddBaRspSetBit
    BY <1>4 DEF RecvBypassLoad, CancelTimer, RecvAddbaReq, EndAgreement, AddBaRspEnable, Tick,
                TimerExpires, HandlerEmpty, HandlerDone, vars, session
  <2>2. Buffer!Renew
    BY <1>1, <1>2, <2>1 DEF AddBaRspSetBit, Buffer!Renew
  <2> QED BY <2>2 DEF BufferStep, Buffer!ReorderNext
<1> QED
  BY <1>3, <1>4

\* The load and the store of the handler's increment, which counts as done.
LEMMA StepIncrement ==
  ASSUME WindowInv, ContextsOK, HandlerLoad \/ HandlerStore
  PROVE  BufferStep
<1>1. PICK g \in Int, r \in Int, h \in Int : WindowAt(g, r, h)
  <2>1. ~NoWindow
    BY DEF NoWindow, LockFree, HandlerLoad, HandlerStore
  <2> QED BY <2>1, StartsAre
<1>2. indicate_seq # None
  BY <1>1, SeqNumType DEF WindowAt, Numbers
<1>3. CASE HandlerLoad
  BY <1>3, StepsAside DEF HandlerLoad, StartDone, window, session, air
<1>4. CASE HandlerStore
  <2>1. indicate_seq' = SeqNum(h + 1) /\ h + 1 \in Int
    BY <1>1, <1>4, SuccIs DEF HandlerStore, WindowAt, Numbers
  <2>2. indicate_seq' # None
    BY <2>1, SeqNumType
  <2>3. StartDone' = StartDone /\ UNCHANGED <<pending, up, rec_abba_rsp_ack, base>>
    BY <1>4 DEF HandlerStore, StartDone, session, air
  <2> QED BY <1>2, <2>2, <2>3, StepsAside
<1> QED
  BY <1>3, <1>4

\* The frames held, as a set.
LEMMA HeldSet ==
  ASSUME NEW q \in Seq(Frames)
  PROVE  /\ Range(q) \in SUBSET Frames /\ Range(q) \in SUBSET Int
         /\ \A x : x \in Range(q) <=> \E i \in 1..Len(q) : x = q[i]
<1>1. DOMAIN q = 1..Len(q) /\ \A i \in 1..Len(q) : q[i] \in Frames /\ q[i] \in Int
  BY FramesAreInt
<1>2. \A x : x \in Range(q) <=> \E i \in 1..Len(q) : x = q[i]
  BY <1>1 DEF Range
<1> QED
  BY <1>1, <1>2

\* The oldest frame held is the least of the set, and leaves the others.
LEMMA OldestOfSet ==
  ASSUME QueueInv, pending # << >>
  PROVE  /\ Range(pending) # {} /\ Buffer!Min(Range(pending)) = Head(pending)
         /\ Range(Tail(pending)) = Range(pending) \ {Head(pending)}
<1>1. PICK q \in Seq(Frames) : q = pending /\ q # << >>
  BY DEF QueueInv
<1>2. Len(q) \in Nat \ {0} /\ Head(q) = q[1] /\ \A i \in 1..Len(q) : q[i] \in Int
  BY <1>1, EmptySeq, FramesAreInt
<1>3. \A i, j \in 1..Len(q) : i < j => q[i] < q[j]
  BY <1>1 DEF QueueInv, Held
<1>4. \A x : x \in Range(q) <=> \E i \in 1..Len(q) : x = q[i]
  BY HeldSet
<1>5. q[1] \in Range(q) /\ \A y \in Range(q) : q[1] <= y
  <2>1. 1 \in 1..Len(q)
    BY <1>2
  <2>2. ASSUME NEW i \in 1..Len(q) PROVE q[1] <= q[i]
    <3>1. i = 1 \/ 1 < i
      BY <1>2
    <3>2. CASE i = 1
      BY <1>2, <3>2
    <3>3. CASE 1 < i
      <4>1. q[1] < q[i] /\ q[1] \in Int /\ q[i] \in Int
        BY <1>2, <1>3, <2>1, <3>3
      <4> QED BY <4>1
    <3> QED BY <3>1, <3>2, <3>3
  <2> QED BY <1>4, <2>1, <2>2
<1>6. Buffer!Min(Range(q)) = q[1]
  BY <1>5, HeldSet, LeastIs
<1>7. PICK t \in Seq(Frames) : /\ t = Tail(q) /\ Len(t) = Len(q) - 1
                               /\ \A i \in 1..Len(t) : t[i] = q[i + 1]
  BY <1>1, HeadTailProperties
<1>8. \A x : x \in Range(t) <=> \E i \in 1..Len(t) : x = t[i]
  BY HeldSet
<1>9. Range(t) = Range(q) \ {q[1]}
  <2>1. ASSUME NEW x \in Range(t) PROVE x \in Range(q) /\ x # q[1]
    <3>1. PICK i \in 1..Len(t) : x = t[i]
      BY <1>8, <2>1
    <3>2. x = q[i + 1] /\ i + 1 \in 1..Len(q) /\ 1 < i + 1 /\ 1 \in 1..Len(q)
      BY <1>2, <1>7, <3>1
    <3>3. q[1] < q[i + 1] /\ q[1] \in Int /\ q[i + 1] \in Int
      BY <1>2, <1>3, <3>2
    <3>4. q[1] # q[i + 1]
      BY <3>3
    <3> QED BY <1>4, <3>2, <3>4
  <2>2. ASSUME NEW x \in Range(q), x # q[1] PROVE x \in Range(t)
    <3>1. PICK i \in 1..Len(q) : x = q[i]
      BY <1>4, <2>2
    <3>2. i # 1
      BY <2>2, <3>1
    <3>3. PICK j \in Int : j = i - 1
      BY <1>2
    <3>4. j \in 1..Len(t) /\ i = j + 1
      BY <1>2, <1>7, <3>2, <3>3
    <3>5. x = t[j]
      BY <1>7, <3>1, <3>4
    <3> QED BY <1>8, <3>4, <3>5
  <2> QED BY <2>1, <2>2
<1> QED
  BY <1>1, <1>2, <1>5, <1>6, <1>7, <1>9

LEMMA StepForce ==
  ASSUME QueueInv, ContextsOK, HandlerForce
  PROVE  BufferStep
<1>0. PICK b \in Nat : /\ b = Half /\ 2 * WinSize + MaxLoss <= b /\ WinSize \in Nat \ {0} /\ MaxLoss \in Nat
  BY HalfIs DEF Half
<1>1. /\ UNCHANGED <<pending, up, rec_abba_rsp_ack, base>> /\ pending # << >>
      /\ indicate_seq' = SeqNum(Head(pending)) /\ handler'.pc = "loop"
  BY DEF HandlerForce, ContextsOK, session, air
<1>2. PICK m \in Int, e \in Int : m = Head(pending) /\ e = EndOfSend /\ m < e /\ e - m < Half
  BY <1>1, OldestIs
<1>3. base \in Int /\ e = base + WinSize
  BY <1>2, FramesAreInt DEF QueueInv, EndOfSend
<1>4. PICK c \in Int : c = base /\ c = base'
  BY <1>1, <1>3
<1>5. Around(m, c)
  BY <1>0, <1>2, <1>3, <1>4 DEF Around
<1>6. StartDone' = SeqNum(m) /\ indicate_seq' # None
  BY <1>1, <1>2, SeqNumType DEF StartDone
<1>7. AbsoluteWindow' = m
  BY <1>4, <1>5, <1>6, StandsNext
<1>8. Range(pending) # {} /\ Buffer!Min(Range(pending)) = m
  BY <1>1, <1>2, OldestOfSet
<1>9. Buffer!Skip
  BY <1>1, <1>7, <1>8 DEF Buffer!Skip
<1> QED
  BY <1>9 DEF BufferStep, Buffer!ReorderNext

LEMMA StepTake ==
  ASSUME QueueInv, WindowInv, ContextsOK, WinSize = 2 => SeqSpace > 8, HandlerTake
  PROVE  BufferStep
<1>0. PICK b \in Nat : /\ b = Half /\ SeqSpace = 2 * b /\ 2 * WinSize + MaxLoss <= b /\ 2 <= b
                       /\ SeqSpace \in Nat \ {0} /\ WinSize \in Nat \ {0} /\ MaxLoss \in Nat
  BY HalfIs DEF Half
<1>1. /\ UNCHANGED <<indicate_seq, base, rec_abba_rsp_ack>> /\ pending # << >> /\ pending' = Tail(pending)
      /\ handler.pc = "loop" /\ ~SN_LESS(indicate_seq, SeqNum(Head(pending)))
      /\ handler' = IF indicate_seq = SeqNum(Head(pending))
                    THEN [handler EXCEPT !.pc = "load"] ELSE handler
      /\ HandUp(<<Head(pending)>>, up)
  BY DEF HandlerTake, air, session
<1>2. PICK m \in Int, e \in Int :
           /\ m = Head(pending) /\ e = EndOfSend /\ m < e /\ e - m < Half
           /\ \A x \in Int : Reaches(x, pending) => m < x + WinSize
  BY <1>1, OldestIs
<1>3. PICK c \in Int : c = base /\ c = base' /\ e = c + WinSize
  BY <1>1, <1>2, FramesAreInt DEF QueueInv, EndOfSend
<1>4. up' = m
  <2>0. PICK s : s = <<m>>
    OBVIOUS
  <2>1. Len(s) = 1 /\ s[1] = m /\ s # << >>
    BY <2>0
  <2>2. Last(s) = m
    BY <2>1 DEF Last
  <2> QED BY <1>1, <1>2, <2>0, <2>1, <2>2 DEF HandUp
<1>5. indicate_seq # None
  <2>1. ~NoWindow
    BY <1>1 DEF NoWindow
  <2>2. PICK g \in Int, r \in Int, k \in Int : WindowAt(g, r, k)
    BY <2>1, StartsAre
  <2> QED BY <2>2, SeqNumType DEF WindowAt, Numbers
<1>6. PICK A \in Int : Stands(A)
  BY <1>5, StandsSomewhere
<1>7. indicate_seq = SeqNum(A) /\ AbsoluteWindow = A /\ Around(A, c) /\ m < A + WinSize
  BY <1>1, <1>2, <1>3, <1>6 DEF Stands, StartDone
<1>8. PICK d \in Int : d = A - m
  OBVIOUS
<1>a. c - b <= A /\ A < c + b /\ e - m < b /\ m < e
  BY <1>0, <1>2, <1>7 DEF Around
<1>9. -SeqSpace < d /\ d < SeqSpace /\ -b < d
  <2>1. PICK W \in Int, S \in Int : W = WinSize /\ S = SeqSpace /\ S = 2 * b /\ 1 <= W /\ 2 * W <= b
    BY <1>0
  <2>2. e = c + W /\ m < A + W
    BY <1>3, <1>7, <2>1
  <2>3. -S < d /\ d < S /\ -b < d
    BY <1>8, <1>a, <2>1, <2>2
  <2> QED BY <2>1, <2>3
<1>10. d >= 0
  <2>1. ((A % SeqSpace) - (m % SeqSpace)) % SeqSpace = d % SeqSpace
    BY <1>0, <1>8, RemainderOfDifference
  <2>2. d % SeqSpace = IF d < 0 THEN d + SeqSpace ELSE d
    <3>1. -SeqSpace <= d /\ d < SeqSpace
      BY <1>0, <1>9
    <3> QED BY <1>0, <3>1, RemainderNear
  <2>3. ~(d % SeqSpace >= b)
    BY <1>0, <1>1, <1>2, <1>7, <2>1 DEF SN_LESS, SeqNum, Half
  <2> QED BY <1>0, <1>9, <2>2, <2>3
<1>11. SeqNum(A) = SeqNum(m) <=> A = m
  <2>1. -SeqSpace < A - m /\ A - m < SeqSpace
    BY <1>8, <1>9
  <2> QED BY <2>1, SameNumber
<1>12. AbsoluteWindow' = IF m = A THEN A + 1 ELSE A
  <2>1. CASE m = A
    <3>1. handler'.pc = "load"
      BY <1>1, <1>2, <1>7, <2>1 DEF ContextsOK
    <3>2. StartDone' = SeqNum(A + 1) /\ A + 1 \in Int
      BY <1>1, <1>7, <3>1, SuccIs DEF StartDone
    <3>3. Around(A + 1, c)
      <4>1. c - b <= A + 1 /\ A + 1 < c + b
        <5>1. PICK W \in Int : W = WinSize /\ 1 <= W /\ 2 * W <= b
          BY <1>0
        <5>2. e = c + W
          BY <1>3, <5>1
        <5> QED BY <1>a, <2>1, <5>1, <5>2
      <4> QED BY <1>0, <4>1 DEF Around
    <3>4. AbsoluteWindow' = A + 1
      BY <1>1, <1>3, <1>5, <3>2, <3>3, StandsNext
    <3> QED BY <2>1, <3>4
  <2>2. CASE m # A
    <3>1. handler' = handler
      BY <1>1, <1>2, <1>7, <1>11, <2>2
    <3>2. StartDone' = SeqNum(A)
      BY <1>1, <1>7, <3>1 DEF StartDone
    <3>3. AbsoluteWindow' = A
      BY <1>1, <1>3, <1>5, <1>7, <3>2, StandsNext
    <3> QED BY <2>2, <3>3
  <2> QED BY <2>1, <2>2
<1>13. Range(pending) # {} /\ Buffer!Min(Range(pending)) = m /\ Range(Tail(pending)) = Range(pending) \ {m}
  BY <1>1, <1>2, OldestOfSet
<1>14. AbsoluteWindow # None /\ m <= AbsoluteWindow
  <2>1. A # None
    BY SizesAssumption
  <2> QED BY <1>7, <1>8, <1>10, <2>1
<1>15. Buffer!HandUp
  <2>1. Range(pending') = Range(pending) \ {m}
    BY <1>1, <1>13
  <2>2. AbsoluteWindow' = IF m = AbsoluteWindow THEN AbsoluteWindow + 1 ELSE AbsoluteWindow
    BY <1>7, <1>12
  <2> QED BY <1>1, <1>4, <1>13, <1>14, <2>1, <2>2 DEF Buffer!HandUp
<1> QED
  BY <1>15 DEF BufferStep, Buffer!ReorderNext

\* A frame that is not behind the window: where the window starts, and where
\* check_indicate_seq moves it.
LEMMA FrameIsAhead ==
  ASSUME QueueInv, WindowInv, LockFree, WinSize = 2 => SeqSpace > 8,
         NEW n \in SendWindow, ~SN_LESS(SeqNum(n), StartFor(n))
  PROVE  \E w \in Int :
           /\ StartFor(n) = SeqNum(w) /\ w <= n /\ n - w < Half
           /\ w = IF rec_abba_rsp_ack \/ AbsoluteWindow = None THEN n ELSE AbsoluteWindow
           /\ UpFor = IF rec_abba_rsp_ack \/ AbsoluteWindow = None THEN None ELSE up
           /\ base - Half <= w
<1>0. PICK b \in Nat : /\ b = Half /\ SeqSpace = 2 * b /\ 2 * WinSize + MaxLoss <= b /\ 2 <= b
                       /\ SeqSpace \in Nat \ {0} /\ WinSize \in Nat \ {0} /\ MaxLoss \in Nat
  BY HalfIs DEF Half
<1>1. PICK c \in Int : c = base /\ n \in Int /\ c <= n /\ n < c + WinSize
  BY EndIs
<1>2. AbsoluteWindow = None <=> indicate_seq = None
  <2>1. indicate_seq # None => AbsoluteWindow # None
    <3> SUFFICES ASSUME indicate_seq # None PROVE AbsoluteWindow # None
      OBVIOUS
    <3>1. PICK A \in Int : Stands(A)
      BY StandsSomewhere
    <3> QED BY <3>1, SizesAssumption DEF Stands
  <2>2. indicate_seq = None => AbsoluteWindow = None
    BY DEF AbsoluteWindow
  <2> QED BY <2>1, <2>2
<1>3. CASE rec_abba_rsp_ack \/ indicate_seq = None
  <2>1. StartFor(n) = SeqNum(n)
    BY <1>3 DEF StartFor
  <2>2. UpFor = None
    <3>1. indicate_seq = None => up = None
      <4> SUFFICES ASSUME indicate_seq = None PROVE up = None
        OBVIOUS
      <4>1. ~\E g, r, h \in Int : WindowAt(g, r, h)
        BY SeqNumType DEF WindowAt, Numbers
      <4> QED BY <4>1 DEF WindowInv, NoWindow
    <3> QED BY <1>3, <3>1 DEF UpFor
  <2>3. n <= n /\ n - n < b /\ c - b <= n
    BY <1>0, <1>1
  <2> QED BY <1>0, <1>1, <1>2, <1>3, <2>1, <2>2, <2>3
<1>4. CASE ~rec_abba_rsp_ack /\ indicate_seq # None
  <2>1. PICK A \in Int : Stands(A)
    BY <1>4, StandsSomewhere
  <2>2. StartFor(n) = SeqNum(A) /\ AbsoluteWindow = A
    BY <1>4, <2>1 DEF StartFor, Stands, StartDone, LockFree
  <2>3. c - b <= A /\ A < c + b
    BY <1>0, <1>1, <2>1 DEF Stands, Around
  <2>4. PICK d \in Int : d = n - A
    BY <1>1
  <2>5. -SeqSpace <= d /\ d < SeqSpace /\ -b < d
    BY <1>0, <1>1, <2>3, <2>4
  <2>6. ((n % SeqSpace) - (A % SeqSpace)) % SeqSpace = d % SeqSpace
    BY <1>0, <1>1, <2>4, RemainderOfDifference
  <2>7. d % SeqSpace = IF d < 0 THEN d + SeqSpace ELSE d
    BY <1>0, <2>5, RemainderNear
  <2>8. ~(d % SeqSpace >= b)
    BY <1>0, <2>2, <2>6 DEF SN_LESS, SeqNum, Half
  <2>9. 0 <= d /\ d < b
    BY <1>0, <2>5, <2>7, <2>8
  <2>10. A <= n /\ n - A < b
    BY <1>1, <2>4, <2>9
  <2>11. UpFor = up
    BY <1>4 DEF UpFor
  <2> QED BY <1>0, <1>1, <1>2, <1>4, <2>2, <2>3, <2>10, <2>11
<1> QED
  BY <1>3, <1>4

\* The window as check_indicate_seq leaves it stands where numbers without end
\* would put it.
LEMMA ShiftedIs ==
  ASSUME QueueInv, NEW n \in SendWindow, NEW w \in Int, w <= n, base - Half <= w,
         NEW a \in Int, w <= a, a <= EndOfSend, UNCHANGED <<base, handler>>, LockFree,
         indicate_seq' = SeqNum(a)
  PROVE  AbsoluteWindow' = a
<1>0. PICK b \in Nat : b = Half /\ 2 * WinSize + MaxLoss <= b /\ WinSize \in Nat \ {0} /\ MaxLoss \in Nat
  BY HalfIs DEF Half
<1>1. PICK c \in Int : c = base /\ c = base' /\ EndOfSend = c + WinSize
  BY EndIs
<1>2. c - b <= a /\ a < c + b
  BY <1>0, <1>1
<1>3. Around(a, c)
  BY <1>0, <1>2 DEF Around
<1>4. StartDone' = SeqNum(a) /\ indicate_seq' # None
  BY SeqNumType DEF StartDone, LockFree
<1> QED
  BY <1>1, <1>3, <1>4, StandsNext

\* A frame that is found in the queue is one of the frames held.
LEMMA DuplicateIsHeld ==
  ASSUME QueueInv, NEW n \in SendWindow, IsDuplicate(pending, n)
  PROVE  n \in Range(pending)
<1>0. PICK b \in Nat : /\ b = Half /\ SeqSpace = 2 * b /\ 2 * WinSize + MaxLoss <= b
                       /\ WinSize \in Nat \ {0} /\ MaxLoss \in Nat
  BY HalfIs DEF Half
<1>1. PICK e \in Int : /\ e = EndOfSend /\ n \in Int /\ n < e /\ e - n <= WinSize
                       /\ Len(pending) \in Nat /\ \A i \in 1..Len(pending) : pending[i] \in Int
  <2>1. PICK e \in Int : /\ e = EndOfSend /\ base \in Int /\ e = base + WinSize /\ WinSize \in Nat \ {0}
                         /\ Len(pending) \in Nat /\ \A i \in 1..Len(pending) : pending[i] \in Int
                         /\ n \in Int /\ base <= n /\ n < e
    BY EndIs
  <2> QED BY <2>1
<1>2. PICK k \in Nat : k = Before(pending, n) /\ k <= Len(pending)
  <2>1. pending \in Seq(Frames) /\ n \in Frames
    BY DEF QueueInv, SendWindow
  <2> QED BY <2>1, BeforeIs
<1>3. k < Len(pending) /\ SeqNum(pending[k + 1]) = SeqNum(n)
  BY <1>2 DEF IsDuplicate
<1>4. k + 1 \in 1..Len(pending)
  BY <1>1, <1>2, <1>3
<1>5. PICK y \in Int : y = pending[k + 1] /\ y < e /\ e - y < b
  <2>1. pending[k + 1] < e /\ e - pending[k + 1] < b
    BY <1>0, <1>1, <1>4 DEF QueueInv, Held
  <2> QED BY <1>1, <1>4, <2>1
<1>6. -SeqSpace < y - n /\ y - n < SeqSpace
  BY <1>0, <1>1, <1>5
<1>7. y = n
  BY <1>1, <1>3, <1>5, <1>6, SameNumber
<1> QED
  BY <1>4, <1>5, <1>7, HeldSet DEF QueueInv

LEMMA StepDropped ==
  ASSUME QueueInv, WindowInv, ContextsOK, WinSize = 2 => SeqSpace > 8,
         rec_abba_rsp_ack \in BOOLEAN, NEW n \in Frames, RecvDropped(n)
  PROVE  BufferStep
<1>0. PICK b \in Nat : b = Half /\ WinSize \in Nat \ {0}
  BY HalfIs DEF Half
<1>1. /\ UNCHANGED <<pending, base, handler>> /\ LockFree /\ n \in SendWindow
      /\ rec_abba_rsp_ack' = FALSE /\ up' = UpFor
  BY DEF RecvDropped, Received, timing, UpFor
<1>2. CASE SN_LESS(SeqNum(n), StartFor(n))
  <2>1. n \in Int
    BY FramesAreInt
  <2>2. ~SN_LESS(SeqNum(n), SeqNum(n))
    BY <2>1, NotBeforeItself
  <2>3. rec_abba_rsp_ack = FALSE /\ indicate_seq # None /\ StartFor(n) = indicate_seq
    BY <1>2, <2>2 DEF StartFor
  <2>4. indicate_seq' = indicate_seq
    BY <1>2, <2>3 DEF RecvDropped
  <2>5. StartDone' = StartDone /\ up' = up
    BY <1>1, <2>3, <2>4 DEF StartDone, UpFor
  <2> QED BY <1>1, <2>3, <2>4, <2>5, StepsAside
<1>3. CASE ~SN_LESS(SeqNum(n), StartFor(n))
  <2>1. PICK w \in Int :
           /\ StartFor(n) = SeqNum(w) /\ w <= n /\ n - w < Half
           /\ w = IF rec_abba_rsp_ack \/ AbsoluteWindow = None THEN n ELSE AbsoluteWindow
           /\ UpFor = IF rec_abba_rsp_ack \/ AbsoluteWindow = None THEN None ELSE up
           /\ base - Half <= w
    BY <1>1, <1>3, FrameIsAhead
  <2>2. PICK e \in Int : e = EndOfSend /\ n \in Int /\ n < e
    BY <1>1, EndIs
  <2>3. PICK f \in Int : f = IF n = w THEN w + 1 ELSE IF n > w + WinSize - 1 THEN n + 1 - WinSize ELSE w
    <3>1. w + 1 \in Int /\ n + 1 - WinSize \in Int
      BY <1>0, <2>2
    <3> QED BY <3>1, Zenon
  <2>4. ShiftWindow(StartFor(n), SeqNum(n)) = SeqNum(f)
    BY <2>1, <2>2, <2>3, WindowShiftExact DEF Half
  <2>5. w <= f /\ f <= e
    <3>1. PICK W \in Int : W = WinSize /\ 1 <= W
      BY <1>0
    <3>2. w <= n
      BY <2>1
    <3>3. f = IF n = w THEN w + 1 ELSE IF n > w + W - 1 THEN n + 1 - W ELSE w
      BY <2>3, <3>1
    <3> QED BY <2>2, <3>1, <3>2, <3>3
  <2>6. indicate_seq' = SeqNum(f)
    BY <1>3, <2>4 DEF RecvDropped
  <2>7. AbsoluteWindow' = f
    BY <1>1, <2>1, <2>2, <2>5, <2>6, ShiftedIs
  <2>8. n \in Range(pending)
    BY <1>1, <1>3, DuplicateIsHeld DEF RecvDropped
  <2>9. f = IF n = w THEN n + 1 ELSE Buffer!Dragged(n, w)
    BY <2>3 DEF Buffer!Dragged
  <2>10. Buffer!Duplicate(n, w, UpFor)
    <3>1. n >= w
      BY <2>1, <2>2
    <3> QED BY <1>1, <2>7, <2>8, <2>9, <3>1 DEF Buffer!Duplicate
  <2>11. Buffer!Arrive
    BY <1>1, <2>1, <2>10 DEF Buffer!Arrive
  <2> QED BY <2>11 DEF BufferStep, Buffer!ReorderNext
<1> QED
  BY <1>2, <1>3

\* enqueue_reorder_recvframe adds the frame to the set.
LEMMA InsertedSet ==
  ASSUME NEW q \in Seq(Frames), NEW n \in Frames, NEW e \in Int,
         InRange(q, e), n < e, e - n <= WinSize, ~IsDuplicate(q, n)
  PROVE  Range(InsertSorted(q, n)) = Range(q) \cup {n} /\ n \notin Range(q)
<1>1. PICK Q \in Seq(Frames) : Q = InsertSorted(q, n)
  BY InsertType
<1>a. PICK k \in 0..Len(q) :
        /\ Len(InsertSorted(q, n)) = Len(q) + 1
        /\ \A i \in 1..(Len(q) + 1) :
             InsertSorted(q, n)[i] = IF i <= k THEN q[i] ELSE IF i = k + 1 THEN n ELSE q[i - 1]
  BY InsertIs
<1>2. /\ Len(Q) = Len(q) + 1
      /\ \A i \in 1..(Len(q) + 1) : Q[i] = IF i <= k THEN q[i] ELSE IF i = k + 1 THEN n ELSE q[i - 1]
  BY <1>1, <1>a
<1>3. /\ InRange(Q, e)
      /\ \A i \in 1..Len(Q) : Q[i] = n \/ \E j \in 1..Len(q) : Q[i] = q[j]
  BY <1>1, InsertInRange
<1>4. PICK m \in Nat : m = Len(q)
  BY FramesAreInt
<1>5. k \in Int /\ 0 <= k /\ k <= m
  BY <1>4
<1>6. k + 1 \in 1..Len(Q) /\ Q[k + 1] = n
  <2>1. k + 1 \in 1..(m + 1) /\ ~(k + 1 <= k)
    BY <1>4, <1>5
  <2> QED BY <1>2, <1>4, <2>1
<1>7. ASSUME NEW j \in 1..Len(q) PROVE \E i \in 1..Len(Q) : Q[i] = q[j] /\ i # k + 1
  <2>1. j \in Int /\ 1 <= j /\ j <= m
    BY <1>4
  <2>2. CASE j <= k
    <3>1. j \in 1..(m + 1) /\ j # k + 1
      BY <1>4, <1>5, <2>1, <2>2
    <3> QED BY <1>2, <1>4, <2>2, <3>1
  <2>3. CASE k < j
    <3>1. PICK i \in Int : i = j + 1
      BY <2>1
    <3>2. i \in 1..(m + 1) /\ i # k + 1 /\ ~(i <= k) /\ i - 1 = j
      BY <1>4, <1>5, <2>1, <2>3, <3>1
    <3> QED BY <1>2, <1>4, <3>2
  <2> QED BY <1>5, <2>1, <2>2, <2>3
<1>8. /\ \A x : x \in Range(q) <=> \E i \in 1..Len(q) : x = q[i]
      /\ \A x : x \in Range(Q) <=> \E i \in 1..Len(Q) : x = Q[i]
  BY HeldSet
<1>9. n \notin Range(q)
  <2> SUFFICES ASSUME NEW j \in 1..Len(q), n = q[j] PROVE FALSE
    BY <1>8
  <2>1. PICK i \in 1..Len(Q) : Q[i] = n /\ i # k + 1
    BY <1>7
  <2>2. i < k + 1 \/ k + 1 < i
    BY <1>2, <1>4, <1>5, <2>1
  <2>3. Q[i] < Q[k + 1] \/ Q[k + 1] < Q[i]
    BY <1>3, <1>6, <2>2 DEF InRange
  <2>4. n < n /\ n \in Int
    BY <1>6, <2>1, <2>3, FramesAreInt
  <2> QED BY <2>4
<1>10. Range(Q) = Range(q) \cup {n}
  <2>1. ASSUME NEW x \in Range(Q) PROVE x \in Range(q) \cup {n}
    BY <1>3, <1>8
  <2>2. ASSUME NEW x \in Range(q) PROVE x \in Range(Q)
    <3>1. PICK j \in 1..Len(q) : x = q[j]
      BY <1>8
    <3>2. PICK i \in 1..Len(Q) : Q[i] = q[j]
      BY <1>7
    <3> QED BY <1>8, <3>1, <3>2
  <2>3. n \in Range(Q)
    BY <1>6, <1>8
  <2> QED BY <2>1, <2>2, <2>3
<1> QED
  BY <1>1, <1>9, <1>10

\* The window start a parts the first k frames of the sorted queue Q from the others.
Splits(Q, k, a) ==
  /\ \A i, j \in 1..Len(Q) : i < j => Q[i] < Q[j]
  /\ \A i \in 1..k : Q[i] < a
  /\ \A i \in (k + 1)..Len(Q) : a < Q[i]

\* It parts the set as it parts the queue.
LEMMA PartedSet ==
  ASSUME NEW Q \in Seq(Frames), NEW k \in 0..Len(Q), NEW a \in Int, NEW u, Splits(Q, k, a)
  PROVE  /\ a \notin Range(Q)
         /\ Range(SubSeq(Q, k + 1, Len(Q))) = Range(Q) \ {x \in Range(Q) : x < a}
         /\ UpAfter(SubSeq(Q, 1, k), u) = Buffer!NewestOf({x \in Range(Q) : x < a}, u)
<1>a. /\ \A i, j \in 1..Len(Q) : i < j => Q[i] < Q[j]
      /\ \A i \in 1..k : Q[i] < a
      /\ \A i \in (k + 1)..Len(Q) : a < Q[i]
  BY DEF Splits
<1>b. PICK out, rest, F : out = SubSeq(Q, 1, k) /\ rest = SubSeq(Q, k + 1, Len(Q)) /\ F = {x \in Range(Q) : x < a}
  OBVIOUS
<1>0. PICK m \in Nat : m = Len(Q) /\ \A i \in 1..m : Q[i] \in Frames /\ Q[i] \in Int
  BY FramesAreInt
<1>1. k \in Int /\ 0 <= k /\ k <= m
  BY <1>0
<1>2. (\A i \in 1..k : i \in 1..m) /\ (\A i \in (k + 1)..m : i \in 1..m)
      /\ (\A i \in 1..m : i \in 1..k \/ i \in (k + 1)..m)
  BY <1>0, <1>1
<1>3. (\A i \in 1..k : Q[i] \in Frames) /\ (\A i \in (k + 1)..Len(Q) : Q[i] \in Frames)
  BY <1>0, <1>2
<1>4. out \in Seq(Frames) /\ Len(out) = k /\ \A i \in 1..k : out[i] = Q[i]
  BY <1>0, <1>1, <1>3, <1>b, SubSeqProperties
<1>5. /\ rest \in Seq(Frames) /\ Len(rest) = m - k
      /\ \A i \in 1..(m - k) : rest[i] = Q[k + i]
  BY <1>0, <1>1, <1>3, <1>b, SubSeqProperties
<1>6. /\ \A x : x \in Range(Q) <=> \E i \in 1..m : x = Q[i]
      /\ \A x : x \in Range(rest) <=> \E i \in 1..(m - k) : x = rest[i]
  <2>1. \A x : x \in Range(Q) <=> \E i \in 1..Len(Q) : x = Q[i]
    BY HeldSet
  <2>2. \A x : x \in Range(rest) <=> \E i \in 1..Len(rest) : x = rest[i]
    BY <1>5, HeldSet
  <2>3. Len(Q) = m /\ Len(rest) = m - k
    BY <1>0, <1>5
  <2> QED BY <2>1, <2>2, <2>3, Zenon
<1>7. a \notin Range(Q)
  <2> SUFFICES ASSUME NEW i \in 1..m, a = Q[i] PROVE FALSE
    BY <1>6
  <2>1. a < a
    BY <1>0, <1>2, <1>a
  <2> QED BY <2>1
<1>8. \A x : x \in F <=> \E i \in 1..k : x = Q[i]
  <2>1. ASSUME NEW i \in 1..k PROVE Q[i] \in F
    BY <1>2, <1>6, <1>a, <1>b
  <2>2. ASSUME NEW x \in F PROVE \E i \in 1..k : x = Q[i]
    <3>1. PICK i \in 1..m : x = Q[i] /\ x < a
      BY <1>6, <1>b
    <3>2. i \notin (k + 1)..m
      <4> SUFFICES ASSUME i \in (k + 1)..m PROVE FALSE
        OBVIOUS
      <4>1. a < x /\ x < a /\ x \in Int
        BY <1>0, <1>a, <3>1
      <4> QED BY <4>1
    <3> QED BY <1>2, <3>1, <3>2
  <2> QED BY <2>1, <2>2
<1>9. Range(rest) = Range(Q) \ F
  <2>1. ASSUME NEW i \in 1..(m - k) PROVE rest[i] \in Range(Q) /\ rest[i] \notin F
    <3>1. k + i \in (k + 1)..m
      BY <1>0, <1>1
    <3>2. PICK y \in Int : y = rest[i] /\ y = Q[k + i] /\ a < y
      BY <1>0, <1>2, <1>5, <1>a, <3>1
    <3>3. ~(y < a)
      <4>1. \A v, z \in Int : v < z => ~(z < v)
        OBVIOUS
      <4> QED BY <3>2, <4>1, Zenon
    <3> QED BY <1>2, <1>6, <1>b, <3>1, <3>2, <3>3
  <2>2. ASSUME NEW x \in Range(Q), x \notin F PROVE x \in Range(rest)
    <3>1. PICK i \in 1..m : x = Q[i]
      BY <1>6
    <3>2. i \in (k + 1)..m
      BY <1>2, <1>8, <2>2, <3>1
    <3>3. PICK j \in Int : j = i - k
      BY <1>1
    <3>4. j \in 1..(m - k) /\ i = k + j
      BY <1>0, <1>1, <3>2, <3>3
    <3> QED BY <1>5, <1>6, <3>1, <3>4
  <2>3. ASSUME NEW x \in Range(rest) PROVE x \in Range(Q) /\ x \notin F
    <3>1. PICK i \in 1..(m - k) : x = rest[i]
      BY <1>6
    <3> QED BY <2>1, <3>1
  <2> QED BY <2>2, <2>3
<1>10. UpAfter(out, u) = Buffer!NewestOf(F, u)
  <2>1. CASE k = 0
    <3>1. out = << >>
      BY <1>4, <2>1, EmptySeq
    <3>2. F = {}
      BY <1>8, <2>1
    <3> QED BY <3>1, <3>2 DEF UpAfter, Buffer!NewestOf
  <2>2. CASE k # 0
    <3>1. k \in 1..k /\ out # << >> /\ Len(out) = k
      <4>1. k \in 1..k
        BY <1>1, <2>2
      <4>2. out # << >>
        BY <1>4, <2>2, EmptySeq
      <4> QED BY <1>4, <4>1, <4>2
    <3>2. Last(out) = Q[k]
      BY <1>4, <3>1 DEF Last
    <3>3. Q[k] \in F /\ F # {}
      BY <1>8, <3>1
    <3>4. ASSUME NEW y \in F PROVE y <= Q[k]
      <4>1. PICK i \in 1..k : y = Q[i]
        BY <1>8
      <4>2. i \in 1..m /\ k \in 1..m /\ Q[i] \in Int /\ Q[k] \in Int
        BY <1>0, <1>2, <3>1
      <4>3. CASE i = k
        BY <4>1, <4>2, <4>3
      <4>4. CASE i # k
        <5>1. i < k
          BY <1>1, <4>1, <4>4
        <5>2. Q[i] < Q[k]
          BY <1>0, <1>a, <4>2, <5>1
        <5> QED BY <4>1, <4>2, <5>2
      <4> QED BY <4>3, <4>4
    <3>5. F \in SUBSET Int
      BY <1>b, HeldSet
    <3>6. Buffer!Max(F) = Q[k]
      BY <3>3, <3>4, <3>5, GreatestIs
    <3> QED BY <3>1, <3>2, <3>3, <3>6 DEF UpAfter, Buffer!NewestOf
  <2> QED BY <2>1, <2>2
<1> QED
  BY <1>7, <1>9, <1>10, <1>b

LEMMA StepQueued ==
  ASSUME QueueInv, WindowInv, ContextsOK, WinSize = 2 => SeqSpace > 8, NEW n \in Frames, RecvQueued(n)
  PROVE  BufferStep
<1>0. PICK h \in Nat : /\ h = Half /\ 2 * WinSize + MaxLoss <= h /\ 2 <= h
                       /\ WinSize \in Nat \ {0} /\ MaxLoss \in Nat
  BY HalfIs DEF Half
<1>1. /\ LockFree /\ n \in SendWindow /\ ~SN_LESS(SeqNum(n), StartFor(n)) /\ ~IsDuplicate(pending, n)
      /\ UNCHANGED <<base, handler>> /\ rec_abba_rsp_ack' = FALSE
  BY DEF RecvQueued, Received
<1>2. PICK w \in Int :
           /\ StartFor(n) = SeqNum(w) /\ w <= n /\ n - w < Half
           /\ w = IF rec_abba_rsp_ack \/ AbsoluteWindow = None THEN n ELSE AbsoluteWindow
           /\ UpFor = IF rec_abba_rsp_ack \/ AbsoluteWindow = None THEN None ELSE up
           /\ base - Half <= w
  BY <1>1, FrameIsAhead
<1>3. PICK e \in Int : e = EndOfSend /\ n \in Int /\ n < e /\ e - n <= WinSize
  <2>1. PICK e \in Int : e = EndOfSend /\ base \in Int /\ e = base + WinSize /\ n \in Int /\ base <= n /\ n < e
    BY <1>1, EndIs
  <2> QED BY <1>0, <2>1
<1>4. PICK W \in Int : W = WinSize /\ 1 <= W /\ 2 * W <= h
  BY <1>0
<1>5. PICK f \in Int : f = IF n = w THEN w + 1 ELSE IF n > w + WinSize - 1 THEN n + 1 - WinSize ELSE w
  <2>1. w + 1 \in Int /\ n + 1 - WinSize \in Int
    BY <1>0, <1>3
  <2> QED BY <2>1, Zenon
<1>6. ShiftWindow(StartFor(n), SeqNum(n)) = SeqNum(f)
  BY <1>2, <1>3, <1>5, WindowShiftExact DEF Half
<1>7. w <= f /\ f <= e /\ e - f <= h + 1
  <2>1. w <= n /\ n - w < h /\ e - n <= W
    BY <1>0, <1>2, <1>3, <1>4
  <2>2. f = IF n = w THEN w + 1 ELSE IF n > w + W - 1 THEN n + 1 - W ELSE w
    BY <1>4, <1>5
  <2> QED BY <1>3, <1>4, <2>1, <2>2
<1>8. PICK q \in Seq(Frames) : q = pending
  BY DEF QueueInv
<1>9. InRange(q, e)
  BY <1>3, <1>8 DEF QueueInv, Held, InRange
<1>10. PICK Q \in Seq(Frames) : Q = InsertSorted(q, n)
  BY InsertType
<1>11. InRange(Q, e)
  BY <1>1, <1>3, <1>8, <1>9, <1>10, InsertInRange
<1>12. PICK k \in 0..Len(Q) : k = InOrderCount(Q, SeqNum(f))
  BY InOrderCountIs
<1>13. PICK a \in Int : WalkedTo(a, Q, f, e, k) /\ \A i \in (k + 1)..Len(Q) : a < Q[i]
  BY <1>0, <1>7, <1>11, <1>12, WalkIs
<1>14. /\ f <= a /\ a <= e /\ (\A i \in 1..k : Q[i] < a) /\ WinAfter(Q, SeqNum(f))[k] = SeqNum(a)
       /\ \A x \in f..(a - 1) : \E i \in 1..k : Q[i] = x
  BY <1>13 DEF WalkedTo
<1>15. PICK out, rest : out = SubSeq(Q, 1, k) /\ rest = SubSeq(Q, k + 1, Len(Q))
  OBVIOUS
<1>16. PICK held, F : held = Range(pending) \cup {n} /\ F = {x \in held : x < a}
  OBVIOUS
<1>17. Range(Q) = held /\ n \notin Range(pending)
  BY <1>1, <1>3, <1>8, <1>9, <1>10, <1>16, InsertedSet
<1>18. a \notin held /\ Range(rest) = held \ F /\ UpAfter(out, UpFor) = Buffer!NewestOf(F, UpFor)
  <2>1. \A i, j \in 1..Len(Q) : i < j => Q[i] < Q[j]
    BY <1>11 DEF InRange
  <2>2. F = {x \in Range(Q) : x < a}
    BY <1>16, <1>17
  <2>3. /\ a \notin Range(Q) /\ Range(rest) = Range(Q) \ F
        /\ UpAfter(out, UpFor) = Buffer!NewestOf(F, UpFor)
    <3>1. Splits(Q, k, a)
      BY <1>13, <1>14, <2>1 DEF Splits
    <3>2. PICK u : u = UpFor
      OBVIOUS
    <3>3. /\ a \notin Range(Q)
          /\ Range(SubSeq(Q, k + 1, Len(Q))) = Range(Q) \ {x \in Range(Q) : x < a}
          /\ UpAfter(SubSeq(Q, 1, k), u) = Buffer!NewestOf({x \in Range(Q) : x < a}, u)
      BY <3>1, PartedSet
    <3> QED BY <1>15, <2>2, <3>2, <3>3
  <2> QED BY <1>17, <2>3
<1>19. PICK d \in Int : d = Buffer!Dragged(n, w) /\ d <= f /\ w <= d /\ d <= a /\ (d = f \/ (d = n /\ f = n + 1))
  <2>1. PICK d \in Int : d = IF n > w + W - 1 THEN n + 1 - W ELSE w
    <3>1. n + 1 - W \in Int
      BY <1>3, <1>4
    <3> QED BY <3>1, Zenon
  <2>2. f = IF n = w THEN w + 1 ELSE IF n > w + W - 1 THEN n + 1 - W ELSE w
    BY <1>4, <1>5
  <2>3. w <= n /\ f <= a
    BY <1>2, <1>14
  <2>4. d <= f /\ w <= d /\ d <= a /\ (d = f \/ (d = n /\ f = n + 1))
    BY <1>3, <1>4, <2>1, <2>2, <2>3
  <2>5. d = Buffer!Dragged(n, w)
    BY <1>4, <2>1 DEF Buffer!Dragged
  <2> QED BY <2>4, <2>5
<1>20. ASSUME NEW i \in d..(a - 1) PROVE i \in held
  <2>1. i \in Int /\ d <= i /\ i <= a - 1
    OBVIOUS
  <2>2. i \in f..(a - 1) \/ i = n
    BY <1>3, <1>19, <2>1
  <2>3. CASE i = n
    BY <1>16, <2>3
  <2>4. CASE i \in f..(a - 1)
    <3>1. PICK j \in 1..k : Q[j] = i
      BY <1>14, <2>4
    <3>2. j \in 1..Len(Q)
      BY FramesAreInt
    <3>3. i \in Range(Q)
      BY <3>1, <3>2, HeldSet
    <3> QED BY <1>17, <3>3
  <2> QED BY <2>2, <2>3, <2>4
<1>21. Buffer!EndOfRun(held, d) = a
  <2>1. held \in SUBSET Frames
    BY <1>8, <1>16, HeldSet
  <2>2. \A i \in d..(a - 1) : i \in held
    BY <1>20
  <2> QED BY <1>18, <1>19, <2>1, <2>2, EndOfRunIs
<1>22. indicate_seq' = SeqNum(a) /\ pending' = rest
  BY <1>6, <1>8, <1>10, <1>12, <1>14, <1>15 DEF RecvQueued, Hold
<1>23. up' = Buffer!NewestOf(F, UpFor)
  <2>1. HandUp(out, UpFor)
    BY <1>6, <1>8, <1>10, <1>12, <1>15 DEF RecvQueued, UpFor
  <2>2. up' = UpAfter(out, UpFor)
    BY <2>1 DEF HandUp, UpAfter
  <2> QED BY <1>18, <2>2
<1>24. AbsoluteWindow' = a
  <2>1. w <= a /\ a <= EndOfSend
    BY <1>3, <1>7, <1>14
  <2> QED BY <1>1, <1>2, <1>22, <2>1, ShiftedIs
<1>25. Buffer!Accept(n, w, UpFor)
  <2>1. n >= w
    BY <1>2, <1>3
  <2>2. Range(pending') = held \ F
    BY <1>18, <1>22
  <2>3. Buffer!EndOfRun(Range(pending) \cup {n}, Buffer!Dragged(n, w)) = a
    BY <1>16, <1>19, <1>21
  <2> QED BY <1>16, <1>17, <1>23, <1>24, <2>1, <2>2, <2>3 DEF Buffer!Accept
<1>26. Buffer!Arrive
  BY <1>1, <1>2, <1>25 DEF Buffer!Arrive
<1> QED
  BY <1>26 DEF BufferStep, Buffer!ReorderNext

LEMMA BufferInit == Init => Buffer!ReorderInit
<1> SUFFICES ASSUME Init PROVE Buffer!ReorderInit
  OBVIOUS
<1>1. AbsoluteWindow = None /\ pending = << >> /\ up = None /\ rec_abba_rsp_ack = FALSE
  BY DEF Init, AbsoluteWindow
<1>2. Range(pending) = {}
  BY <1>1 DEF Range
<1> QED
  BY <1>1, <1>2 DEF Buffer!ReorderInit

LEMMA BufferNext ==
  ASSUME ReorderInv, WinSize = 2 => SeqSpace > 8, [Next]_vars
  PROVE  BufferStep
<1>1. QueueInv /\ WindowInv /\ ContextsOK /\ rec_abba_rsp_ack \in BOOLEAN
  BY DEF ReorderInv, TypeOK, ContextsOK
<1>2. CASE RecvTasklet
  <2>1. ASSUME NEW n \in Frames, RecvBypass(n) PROVE BufferStep
    BY <1>1, <2>1, StepUnlocked
  <2>2. ASSUME NEW n \in Frames, RecvDropped(n) PROVE BufferStep
    BY <1>1, <2>2, StepDropped
  <2>3. ASSUME NEW n \in Frames, RecvQueued(n) PROVE BufferStep
    BY <1>1, <2>3, StepQueued
  <2>4. ASSUME RecvBypassStore \/ RecvBar PROVE BufferStep
    BY <1>1, <2>4, StepUnlocked
  <2>5. ASSUME RecvBypassLoad \/ CancelTimer \/ RecvAddbaReq PROVE BufferStep
    BY <1>1, <2>5, StepOthers
  <2> QED BY <1>2, <2>1, <2>2, <2>3, <2>4, <2>5 DEF RecvTasklet
<1>3. CASE TimerHandler
  <2>1. ASSUME HandlerEmpty \/ HandlerDone PROVE BufferStep
    BY <1>1, <2>1, StepOthers
  <2>2. ASSUME HandlerForce PROVE BufferStep
    BY <1>1, <2>2, StepForce
  <2>3. ASSUME HandlerTake PROVE BufferStep
    BY <1>1, <2>3, StepTake
  <2>4. ASSUME HandlerLoad \/ HandlerStore PROVE BufferStep
    BY <1>1, <2>4, StepIncrement
  <2> QED BY <1>3, <2>1, <2>2, <2>3, <2>4 DEF TimerHandler
<1>4. CASE StationAdvance
  BY <1>1, <1>4, StepStation
<1>5. CASE TimerExpires \/ CmdThread \/ EndAgreement \/ Tick \/ UNCHANGED vars
  BY <1>1, <1>5, StepOthers DEF CmdThread
<1> QED
  BY <1>2, <1>3, <1>4, <1>5 DEF Next

\* The driver's 12-bit window over a sorted list, with the increments that race
\* for it, implements the reorder buffer over numbers that never wrap
\* (rtw_recv.c:3441-3830).  Left out is a window of two in a space of
\* eight: two numbers beyond it, as far as those races go, are half of that space.
THEOREM ReorderingImplementsBuffer ==
  ASSUME WinSize = 2 => SeqSpace > 8
  PROVE  Spec => ImplementsReorderBuffer
<1>1. Init => ReorderInv
  BY ReorderInvInit
<1>2. ReorderInv /\ [Next]_vars => ReorderInv'
  BY ReorderInvNext
<1>3. Init => Buffer!ReorderInit
  BY BufferInit
<1>4. ReorderInv /\ [Next]_vars => [Buffer!ReorderNext]_(Buffer!absVars)
  BY BufferNext DEF BufferStep
<1> QED
  BY <1>1, <1>2, <1>3, <1>4, PTL DEF Spec, ImplementsReorderBuffer, Buffer!ReorderSpec
============================================================================
