------------------------- MODULE ApPowerSaveProofs -------------------------
(***************************************************************************)
(* Theorems about ApPowerSave, for every number of frames and any width of *)
(* the counters, on one processor and on several.                          *)
(***************************************************************************)
EXTENDS ApPowerSave, SequenceTheorems, NaturalsInduction, WellFoundedInduction, TLAPS

(***************************************************************************)
(* Induction.  The library's principles take the formula as an operator,   *)
(* which the provers cannot instantiate; here it is a set: of the numbers, *)
(* or of the sequences, that satisfy what is proved.                       *)
(***************************************************************************)
LEMMA LeastElement ==
  ASSUME NEW T \in SUBSET Nat, T # {}
  PROVE  \E x \in T : \A y \in T : x <= y
<1>1. \E x \in T : \A y \in T : ~(<<y, x>> \in OpToRel(<, Nat))
  BY NatLessThanWellFounded, WFMin, Zenon
<1>2. PICK x \in T : \A y \in T : ~(<<y, x>> \in OpToRel(<, Nat))
  BY <1>1
<1>3. \A y \in T : ~(y < x)
  BY <1>2 DEF OpToRel
<1> QED
  BY <1>3

\* Induction up to n, for a set of the numbers that satisfy what is proved.
LEMMA UpTo ==
  ASSUME NEW n \in Nat, NEW Good \in SUBSET (0..n), 0 \in Good,
         \A i \in Good : i < n => i + 1 \in Good
  PROVE  Good = 0..n
<1> SUFFICES ASSUME NEW j \in 0..n, j \notin Good PROVE FALSE
  OBVIOUS
<1> DEFINE T == {i \in 0..n : i \notin Good}
<1>1. T \in SUBSET Nat /\ T # {}
  OBVIOUS
<1>2. PICK x \in T : \A y \in T : x <= y
  <2> HIDE DEF T
  <2> QED BY <1>1, LeastElement
<1>3. x - 1 \in 0..n /\ x - 1 \notin T
  BY <1>2
<1> QED
  BY <1>2, <1>3

\* Induction over sequences, for the set of those that satisfy what is proved.
LEMMA SeqInduct ==
  ASSUME NEW T, NEW Good \in SUBSET Seq(T), << >> \in Good,
         \A s \in Good, x \in T : Append(s, x) \in Good
  PROVE  Good = Seq(T)
<1> SUFFICES ASSUME NEW bad \in Seq(T), bad \notin Good PROVE FALSE
  OBVIOUS
<1> DEFINE Lens == {n \in Nat : \E s \in Seq(T) : s \notin Good /\ Len(s) = n}
<1>1. Lens \in SUBSET Nat /\ Len(bad) \in Lens
  OBVIOUS
<1>2. PICK n \in Lens : \A m \in Lens : n <= m
  <2> HIDE DEF Lens
  <2> QED BY <1>1, LeastElement
<1>3. PICK s \in Seq(T) : s \notin Good /\ Len(s) = n
  BY <1>2
<1>4. PICK t \in Seq(T), e \in T : s = Append(t, e)
  BY <1>3, SequenceEmptyOrAppend
<1>5. Len(t) \in Nat /\ n = Len(t) + 1
  BY <1>3, <1>4, AppendProperties
<1>6. t \notin Good
  BY <1>3, <1>4
<1>7. Len(t) \in Lens
  BY <1>5, <1>6
<1>8. n <= Len(t)
  BY <1>2, <1>7
<1> QED
  BY <1>5, <1>8

-----------------------------------------------------------------------------
(***************************************************************************)
(* Keep, the walk over a queue.                                            *)
(***************************************************************************)
LEMMA KeptExists ==
  ASSUME NEW S, NEW s, Len(s) \in Nat
  PROVE  \E f : f = [i \in 0..Len(s) |->
                 IF i = 0 THEN << >>
                 ELSE IF s[i] \in S THEN Append(f[i - 1], s[i]) ELSE f[i - 1]]
<1> DEFINE Body(f, i) == IF i = 0 THEN << >>
                         ELSE IF s[i] \in S THEN Append(f[i - 1], s[i]) ELSE f[i - 1]
           Fun(n) == \E f : f = [i \in 0..n |-> Body(f, i)]
           Good == {n \in 0..Len(s) : Fun(n)}
<1>1. 0 \in Good
  <2> DEFINE g == [i \in 0..0 |-> << >>]
  <2>1. \A i \in 0..0 : g[i] = Body(g, i)
    OBVIOUS
  <2>2. g = [i \in 0..0 |-> g[i]]
    OBVIOUS
  <2>3. Fun(0)
    <3> HIDE DEF Body, g
    <3> QED BY <2>1, <2>2
  <2> HIDE DEF Fun
  <2> QED BY <2>3
<1>2. ASSUME NEW n \in Good, n < Len(s) PROVE n + 1 \in Good
  <2>1. PICK f : f = [i \in 0..n |-> Body(f, i)]
    OBVIOUS
  <2> DEFINE g == [i \in 0..(n + 1) |-> IF i = n + 1 THEN Body(f, i) ELSE f[i]]
  <2>2. \A i \in 0..n : g[i] = f[i]
    BY <1>2
  <2>3. \A i \in 0..(n + 1) : Body(g, i) = Body(f, i)
    <3> SUFFICES ASSUME NEW i \in 0..(n + 1) PROVE Body(g, i) = Body(f, i)
      OBVIOUS
    <3>1. i # 0 => i - 1 \in 0..n
      OBVIOUS
    <3>2. i # 0 => g[i - 1] = f[i - 1]
      BY <2>2, <3>1
    <3> HIDE DEF g
    <3> QED BY <3>2
  <2>4. \A i \in 0..n : f[i] = Body(f, i)
    <3> HIDE DEF Body
    <3> QED BY <2>1
  <2>5. g = [i \in 0..(n + 1) |-> Body(g, i)]
    <3>1. \A i \in 0..(n + 1) : g[i] = Body(f, i)
      <4> HIDE DEF Body
      <4> QED BY <2>4
    <3>2. \A i \in 0..(n + 1) : g[i] = Body(g, i)
      <4> HIDE DEF Body, g
      <4> QED BY <2>3, <3>1
    <3>3. g = [i \in 0..(n + 1) |-> g[i]]
      OBVIOUS
    <3> HIDE DEF Body, g
    <3> QED BY <3>2, <3>3
  <2>6. Fun(n + 1)
    <3> HIDE DEF Body, g
    <3> QED BY <2>5
  <2> HIDE DEF Fun
  <2> QED BY <1>2, <2>6
<1>3. Good = 0..Len(s)
  <2>1. Good \in SUBSET (0..Len(s)) /\ \A i \in Good : i < Len(s) => i + 1 \in Good
    BY <1>2
  <2> HIDE DEF Good
  <2> QED BY <1>1, <2>1, UpTo
<1> QED
  BY <1>3
\* Keep by its recursion: F[i] are the elements kept of the first i.
LEMMA KeepIs ==
  ASSUME NEW S, NEW s, Len(s) \in Nat
  PROVE  \E F : /\ Keep(s, S) = F[Len(s)]
                /\ F[0] = << >>
                /\ \A i \in 1..Len(s) :
                     F[i] = IF s[i] \in S THEN Append(F[i - 1], s[i]) ELSE F[i - 1]
<1> DEFINE Body(f, i) == IF i = 0 THEN << >>
                         ELSE IF s[i] \in S THEN Append(f[i - 1], s[i]) ELSE f[i - 1]
           Fun(f) == [i \in 0..Len(s) |-> Body(f, i)]
           F == CHOOSE f : f = Fun(f)
<1>1. \E f : f = Fun(f)
  BY KeptExists
<1>2. F = Fun(F)
  <2> HIDE DEF Fun
  <2> QED BY <1>1
<1>3. Keep(s, S) = F[Len(s)]
  BY DEF Keep
<1> HIDE DEF F
<1>4. \A i \in 0..Len(s) : F[i] = Body(F, i)
  <2> HIDE DEF Body
  <2> QED BY <1>2
<1>5. F[0] = << >>
  BY <1>4
<1>6. \A i \in 1..Len(s) :
        F[i] = IF s[i] \in S THEN Append(F[i - 1], s[i]) ELSE F[i - 1]
  BY <1>4
<1> QED
  BY <1>3, <1>5, <1>6

LEMMA KeepEmpty ==
  ASSUME NEW A
  PROVE  Keep(<< >>, A) = << >>
<1>1. Len(<< >>) = 0 /\ 0 \in Nat
  OBVIOUS
<1> DEFINE e == << >>
<1> HIDE DEF e
<1>2. PICK F : Keep(e, A) = F[0] /\ F[0] = << >>
  BY <1>1, KeepIs DEF e
<1> QED
  BY <1>2 DEF e

LEMMA KeepAppend ==
  ASSUME NEW T, NEW s \in Seq(T), NEW x \in T, NEW A
  PROVE  Keep(Append(s, x), A) = IF x \in A THEN Append(Keep(s, A), x) ELSE Keep(s, A)
<1> DEFINE n == Len(s)
<1>0. PICK r : r = Append(s, x)
  OBVIOUS
<1>1. /\ n \in Nat /\ Len(r) = n + 1 /\ r[n + 1] = x
      /\ \A i \in 1..n : r[i] = s[i]
  BY <1>0, AppendProperties
<1> HIDE DEF n
<1>2. PICK F : /\ Keep(r, A) = F[n + 1] /\ F[0] = << >>
               /\ \A i \in 1..(n + 1) :
                    F[i] = IF r[i] \in A THEN Append(F[i - 1], r[i]) ELSE F[i - 1]
  <2>1. r \in Seq(T) /\ Len(r) = n + 1
    BY <1>0, <1>1, AppendProperties
  <2>3. Len(r) \in Nat
    BY <2>1
  <2>2. \E F : /\ Keep(r, A) = F[Len(r)] /\ F[0] = << >>
               /\ \A i \in 1..Len(r) :
                    F[i] = IF r[i] \in A THEN Append(F[i - 1], r[i]) ELSE F[i - 1]
    BY <2>3, KeepIs
  <2> QED BY <2>1, <2>2
<1>3. PICK G : /\ Keep(s, A) = G[n] /\ G[0] = << >>
               /\ \A i \in 1..n :
                    G[i] = IF s[i] \in A THEN Append(G[i - 1], s[i]) ELSE G[i - 1]
  BY <1>1, KeepIs DEF n
<1> DEFINE Good == {i \in 0..n : F[i] = G[i]}
<1>4. 0 \in Good
  BY <1>1, <1>2, <1>3
<1>5. ASSUME NEW i \in Good, i < n PROVE i + 1 \in Good
  <2>1. i + 1 \in 1..n /\ i + 1 \in 1..(n + 1) /\ (i + 1) - 1 = i
    BY <1>1, <1>5
  <2>2. F[i + 1] = G[i + 1]
    BY <1>1, <1>2, <1>3, <1>5, <2>1
  <2> QED BY <2>1, <2>2
<1>6. n \in Good
  <2>1. Good \in SUBSET (0..n) /\ \A i \in Good : i < n => i + 1 \in Good
    BY <1>5
  <2>2. n \in 0..n
    BY <1>1
  <2> HIDE DEF Good
  <2> QED BY <1>1, <1>4, <2>1, <2>2, UpTo
<1>7. n + 1 \in 1..(n + 1) /\ (n + 1) - 1 = n
  BY <1>1
<1>8. F[n + 1] = IF x \in A THEN Append(G[n], x) ELSE G[n]
  BY <1>1, <1>2, <1>6, <1>7
<1> QED
  BY <1>0, <1>2, <1>3, <1>8

\* What is kept is in the set, and no more than there was.
LEMMA KeepType ==
  ASSUME NEW T, NEW q \in Seq(T), NEW A
  PROVE  Keep(q, A) \in Seq(T \cap A) /\ Keep(q, A) \in Seq(T) /\ Len(Keep(q, A)) <= Len(q)
<1> DEFINE Good == {s \in Seq(T) : Keep(s, A) \in Seq(T \cap A) /\ Len(Keep(s, A)) <= Len(s)}
<1>1. << >> \in Good
  <2>1. << >> \in Seq(T) /\ << >> \in Seq(T \cap A) /\ Len(<< >>) = 0
    OBVIOUS
  <2>2. Keep(<< >>, A) = << >> /\ 0 <= 0
    BY KeepEmpty
  <2> QED BY <2>1, <2>2
<1>2. ASSUME NEW s \in Good, NEW x \in T PROVE Append(s, x) \in Good
  <2>1. Append(s, x) \in Seq(T) /\ Len(Append(s, x)) = Len(s) + 1 /\ Len(s) \in Nat
    BY AppendProperties
  <2>2. Keep(Append(s, x), A) = IF x \in A THEN Append(Keep(s, A), x) ELSE Keep(s, A)
    BY KeepAppend
  <2>3. PICK kept \in Seq(T \cap A) : kept = Keep(s, A) /\ Len(kept) <= Len(s) /\ Len(kept) \in Nat
    OBVIOUS
  <2>4. x \in A => Append(kept, x) \in Seq(T \cap A) /\ Len(Append(kept, x)) = Len(kept) + 1
    BY AppendProperties
  <2>5. PICK r : r = Keep(Append(s, x), A)
    OBVIOUS
  <2>6. r = IF x \in A THEN Append(kept, x) ELSE kept
    BY <2>2, <2>3, <2>5
  <2>7. r \in Seq(T \cap A)
    BY <2>4, <2>6
  <2>8. Len(r) <= Len(s) + 1
    <3>1. CASE x \in A
      BY <2>1, <2>3, <2>4, <2>6, <3>1
    <3>2. CASE x \notin A
      BY <2>1, <2>3, <2>6, <3>2
    <3> QED BY <3>1, <3>2
  <2> QED BY <2>1, <2>5, <2>7, <2>8
<1>3. q \in Good
  <2> HIDE DEF Good
  <2>1. Good \in SUBSET Seq(T)
    BY DEF Good
  <2> QED BY <1>1, <1>2, <2>1, SeqInduct
<1> QED
  BY <1>3

\* Every element is either kept or dropped.
LEMMA KeepSplits ==
  ASSUME NEW T, NEW q \in Seq(T), NEW A
  PROVE  Len(Keep(q, A)) + Len(Keep(q, T \ A)) = Len(q)
<1> DEFINE B == T \ A
           Good == {s \in Seq(T) : Len(Keep(s, A)) + Len(Keep(s, B)) = Len(s)}
<1>1. << >> \in Good
  <2>1. << >> \in Seq(T) /\ Len(<< >>) = 0
    OBVIOUS
  <2> QED BY <2>1, KeepEmpty
<1>2. ASSUME NEW s \in Good, NEW x \in T PROVE Append(s, x) \in Good
  <2>1. Append(s, x) \in Seq(T) /\ Len(Append(s, x)) = Len(s) + 1 /\ Len(s) \in Nat
    BY AppendProperties
  <2>2. /\ Keep(Append(s, x), A) = IF x \in A THEN Append(Keep(s, A), x) ELSE Keep(s, A)
        /\ Keep(Append(s, x), B) = IF x \in A THEN Keep(s, B) ELSE Append(Keep(s, B), x)
    BY KeepAppend
  <2>3. /\ Keep(s, A) \in Seq(T) /\ Keep(s, B) \in Seq(T)
        /\ Len(Keep(s, A)) \in Nat /\ Len(Keep(s, B)) \in Nat
    <3>1. Keep(s, A) \in Seq(T) /\ Keep(s, B) \in Seq(T)
      <4> HIDE DEF B
      <4> QED BY KeepType
    <3> QED BY <3>1
  <2>4. /\ Len(Append(Keep(s, A), x)) = Len(Keep(s, A)) + 1
        /\ Len(Append(Keep(s, B), x)) = Len(Keep(s, B)) + 1
    BY <2>3, AppendProperties
  <2> QED BY <2>1, <2>2, <2>3, <2>4
<1>3. q \in Good
  <2> HIDE DEF Good
  <2>1. Good \in SUBSET Seq(T)
    BY DEF Good
  <2> QED BY <1>1, <1>2, <2>1, SeqInduct
<1> QED
  BY <1>3

LEMMA AppendOfConcat ==
  ASSUME NEW T, NEW s \in Seq(T), NEW t \in Seq(T), NEW x \in T
  PROVE  s \o Append(t, x) = Append(s \o t, x)
<1>1. Append(t, x) = t \o <<x>> /\ <<x>> \in Seq(T) /\ s \o t \in Seq(T)
  BY AppendIsConcat, ConcatProperties
<1>2. Append(s \o t, x) = (s \o t) \o <<x>>
  BY <1>1, AppendIsConcat
<1> QED
  BY <1>1, <1>2, ConcatAssociative

\* Keeping distributes over concatenation.
LEMMA KeepConcat ==
  ASSUME NEW T, NEW q \in Seq(T), NEW t \in Seq(T), NEW A
  PROVE  Keep(q \o t, A) = Keep(q, A) \o Keep(t, A)
<1> DEFINE Good == {s \in Seq(T) : Keep(q \o s, A) = Keep(q, A) \o Keep(s, A)}
<1>1. Keep(q, A) \in Seq(T)
  BY KeepType
<1>2. << >> \in Good
  <2>1. << >> \in Seq(T) /\ q \o << >> = q /\ Keep(q, A) \o << >> = Keep(q, A)
    BY <1>1, ConcatEmptySeq
  <2> QED BY <2>1, KeepEmpty
<1>3. ASSUME NEW s \in Good, NEW x \in T PROVE Append(s, x) \in Good
  <2>1. Append(s, x) \in Seq(T) /\ q \o s \in Seq(T) /\ Keep(s, A) \in Seq(T)
    BY AppendProperties, ConcatProperties, KeepType
  <2>2. q \o Append(s, x) = Append(q \o s, x)
    BY <2>1, AppendOfConcat
  <2>3. Keep(q, A) \o Append(Keep(s, A), x) = Append(Keep(q, A) \o Keep(s, A), x)
    BY <1>1, <2>1, AppendOfConcat
  <2>4. /\ Keep(Append(s, x), A) = IF x \in A THEN Append(Keep(s, A), x) ELSE Keep(s, A)
        /\ Keep(Append(q \o s, x), A)
             = IF x \in A THEN Append(Keep(q \o s, A), x) ELSE Keep(q \o s, A)
    <3>1. \A u \in Seq(T) : Keep(Append(u, x), A)
                              = IF x \in A THEN Append(Keep(u, A), x) ELSE Keep(u, A)
      BY KeepAppend
    <3> QED BY <2>1, <3>1
  <2>5. Keep(q \o s, A) = Keep(q, A) \o Keep(s, A)
    OBVIOUS
  <2>6. Keep(q \o Append(s, x), A) = Keep(q, A) \o Keep(Append(s, x), A)
    BY <2>2, <2>3, <2>4, <2>5
  <2> QED BY <2>1, <2>6
<1>4. t \in Good
  <2> HIDE DEF Good
  <2>1. Good \in SUBSET Seq(T)
    BY DEF Good
  <2> QED BY <1>2, <1>3, <2>1, SeqInduct
<1> QED
  BY <1>4

-----------------------------------------------------------------------------
(***************************************************************************)
(* What holds on any number of processors, whatever the counters say.      *)
(***************************************************************************)
LEMMA HeldInit == Init => HeldWhileAsleep
  BY DEF Init, HeldWhileAsleep

\* wakeup_sta_to_xmit leaves nothing held, whatever the counters say.
LEMMA HeldWakeup ==
  ASSUME WakeupSta
  PROVE  HeldWhileAsleep'
  BY DEF WakeupSta, HeldWhileAsleep

LEMMA HeldNext == HeldWhileAsleep /\ [Next]_vars => HeldWhileAsleep'
<1> SUFFICES ASSUME HeldWhileAsleep, [Next]_vars PROVE HeldWhileAsleep'
  OBVIOUS
<1> USE DEF HeldWhileAsleep
<1>1. ASSUME NEW ac \in Acs, TxData(ac) PROVE HeldWhileAsleep'
  BY <1>1 DEF TxData, Held, Hold
<1>2. CASE TxPass
  BY <1>2 DEF TxPass, flags
<1>3. CASE TxMgmt
  BY <1>3 DEF TxMgmt, Held
<1>4. CASE XmitTasklet
  BY <1>4 DEF XmitTasklet, flags
<1>5. ASSUME NEW doze \in BOOLEAN, NEW qos \in BOOLEAN, NEW ac \in Acs,
             RxData(doze, qos, ac)
      PROVE  HeldWhileAsleep'
  <2>1. CASE StopStaXmit
    BY <2>1 DEF StopStaXmit, StoreWord
  <2>2. CASE UNCHANGED <<flags, queues>>
    BY <2>2 DEF flags, queues
  <2> QED BY <1>5, <2>1, <2>2, HeldWakeup DEF RxData
<1>6. CASE RxWmmps
  BY <1>6 DEF RxWmmps, flags, queues
<1>7. CASE RxDeliver
  <2>1. sleep_q' # << >> => sleep_q # << >>
    BY <1>7, KeepEmpty DEF RxDeliver, OfCategories
  <2> QED BY <1>7, <2>1 DEF RxDeliver
<1>8. CASE RxPsPoll \/ PollAlive
  BY <1>8 DEF RxPsPoll, PollAlive, flags, queues
<1>13. CASE PollTake
  BY <1>13 DEF PollTake, Held, flags
<1>9. CASE PollCheck \/ PollTest \/ PollClear
  BY <1>9 DEF PollCheck, PollTest, PollClear, flags, queues
<1>10. CASE AgingLoad \/ AgingStore \/ AgingTim
  BY <1>10 DEF AgingLoad, AgingStore, AgingTim, flags, queues
<1>11. CASE AgingFlush
  BY <1>11, HeldWakeup DEF AgingFlush
<1>12. CASE UNCHANGED vars
  BY <1>12 DEF vars, flags, queues
<1> QED BY <1>1, <1>2, <1>3, <1>4, <1>5, <1>6, <1>7, <1>8, <1>9, <1>10, <1>11,
           <1>12, <1>13 DEF Next

\* On any number of processors, with counters that may be wrong and stores to the
\* state word that may be lost, frames are held only for a station marked asleep in the state word and in the bitmap
\* (rtw_xmit.c:5548-6039): its next frame without the bit releases them all.
THEOREM HeldOnlyWhileAsleep == Spec => []HeldWhileAsleep
  BY HeldInit, HeldNext, PTL DEF Spec

-----------------------------------------------------------------------------
(***************************************************************************)
(* The inductive invariant.  TypeOK and the first three parts hold on any  *)
(* number of processors: the driver's pools bound what can be held, so no  *)
(* counter wraps; sleepq_ac_len exceeds the delivery-enabled frames held   *)
(* by those that polls took without counting; and a service period is open *)
(* only while its trigger is handled and the frames it found are held.     *)
(***************************************************************************)
FramesBounded ==
  /\ Len(sleep_q) + pend["be"] + pend["vo"] + (IF tx = "idle" THEN 0 ELSE 1) <= FrameMax
  /\ mgmt_sleep_q + pend["mgmt"] <= MgmtMax

AcLenBounds ==
  /\ Count(sleep_q, uapsd) <= sleepq_ac_len
  /\ sleepq_ac_len <= Count(sleep_q, uapsd) + PollMax
  /\ "be" \in uapsd => sleepq_ac_len = Count(sleep_q, uapsd)

TriggerInv ==
  /\ rx.pc \in {"poll_alive", "poll_take"} =>
       "be" \notin uapsd /\ sleepq_ac_len < Count(sleep_q, uapsd) + PollMax
  /\ "be" \in uapsd /\ spOpen => rx.pc = "deliver" /\ sleepq_ac_len > 0

NothingHeld == sleep_q = << >> /\ mgmt_sleep_q = 0

\* On one processor the contexts exclude each other, so that what one of them
\* has seen still holds when it acts on it.
Exclusive ==
  /\ rx # Idle => tx = "idle" /\ aging = "idle"
  /\ aging # "idle" => tx = "idle"

Seen ==
  /\ aging = "store" => sleep
  /\ rx.pc = "poll_alive" => sleep
  /\ rx.pc = "poll_check" /\ rx.empty => NothingHeld
  /\ rx.pc = "poll_clear" => NothingHeld

LensExact == sleepq_len = Len(sleep_q) /\ mgmt_sleepq_len = mgmt_sleep_q

FlagsAgree == dz = sleep /\ (sleep => dozing) /\ (alive_chk => sleep)

NoneUnannounced ==
  ~tim => /\ \A i \in 1..Len(sleep_q) : sleep_q[i] \in uapsd /\ has_legacy_ac
          /\ has_legacy_ac => mgmt_sleep_q = 0

OnOneProcessor ==
  Exclusive /\ Seen /\ LensExact /\ FlagsAgree /\ NoneUnannounced

PsInv ==
  /\ TypeOK /\ FramesBounded /\ AcLenBounds /\ TriggerInv
  /\ ~smp => OnOneProcessor

-----------------------------------------------------------------------------
(***************************************************************************)
(* Counting frames, and counting without wrapping around.                  *)
(***************************************************************************)
LEMMA CountIs ==
  ASSUME NEW q \in Seq(Acs), NEW A
  PROVE  /\ OfCategories(q, A) \in Seq(Acs) /\ OfCategories(q, A) \in Seq(Acs \cap A)
         /\ Count(q, A) \in Nat /\ Count(q, A) <= Len(q)
         /\ Count(q, A) = Len(OfCategories(q, A))
<1>1. Keep(q, A) \in Seq(Acs \cap A) /\ Keep(q, A) \in Seq(Acs) /\ Len(Keep(q, A)) <= Len(q)
  BY KeepType
<1>2. Len(Keep(q, A)) \in Nat
  BY <1>1
<1> QED
  BY <1>1, <1>2 DEF OfCategories, Count

LEMMA CountConcat ==
  ASSUME NEW q \in Seq(Acs), NEW s \in Seq(Acs), NEW A
  PROVE  Count(q \o s, A) = Count(q, A) + Count(s, A)
<1>1. Keep(q \o s, A) = Keep(q, A) \o Keep(s, A)
  BY KeepConcat
<1>2. Keep(q, A) \in Seq(Acs) /\ Keep(s, A) \in Seq(Acs)
  BY KeepType
<1> QED
  BY <1>1, <1>2, ConcatProperties DEF OfCategories, Count

LEMMA CountEmpty ==
  ASSUME NEW A
  PROVE  Count(<< >>, A) = 0
  BY KeepEmpty DEF OfCategories, Count

LEMMA CountOne ==
  ASSUME NEW ac \in Acs, NEW A
  PROVE  Count(<<ac>>, A) = IF ac \in A THEN 1 ELSE 0
<1>1. << >> \in Seq(Acs) /\ Append(<< >>, ac) = <<ac>> /\ Len(<<ac>>) = 1 /\ Len(<< >>) = 0
  OBVIOUS
<1>0. \A s \in Seq(Acs) : Keep(Append(s, ac), A)
                            = IF ac \in A THEN Append(Keep(s, A), ac) ELSE Keep(s, A)
  BY KeepAppend
<1>2. Keep(Append(<< >>, ac), A) = IF ac \in A THEN Append(<< >>, ac) ELSE << >>
  BY <1>0, <1>1, KeepEmpty
<1> QED
  BY <1>1, <1>2 DEF OfCategories, Count

\* A released frame goes to the queue of its category, and to no other.
LEMMA CountBoth ==
  ASSUME NEW q \in Seq(Acs)
  PROVE  Count(q, {"be"}) + Count(q, {"vo"}) = Len(q)
<1>1. {"vo"} = Acs \ {"be"}
  BY DEF Acs
<1> QED
  BY <1>1, KeepSplits DEF OfCategories, Count

\* What a trigger leaves behind is not delivery-enabled.
LEMMA CountLeft ==
  ASSUME NEW q \in Seq(Acs), NEW A
  PROVE  /\ Count(OfCategories(q, Acs \ A), A) = 0
         /\ Count(q, A) + Len(OfCategories(q, Acs \ A)) = Len(q)
<1>1. PICK r : r = OfCategories(q, Acs \ A)
  OBVIOUS
<1>2. r \in Seq(Acs \cap (Acs \ A))
  BY <1>1, CountIs
<1>3. Keep(r, A) \in Seq((Acs \cap (Acs \ A)) \cap A)
  BY <1>2, KeepType
<1>4. (Acs \cap (Acs \ A)) \cap A = {}
  OBVIOUS
<1>5. Len(Keep(r, A)) = 0
  <2>1. Keep(r, A) \in Seq({})
    BY <1>3, <1>4
  <2> QED
    BY <2>1
<1>6. Len(Keep(q, A)) + Len(Keep(q, Acs \ A)) = Len(q)
  BY KeepSplits
<1> QED
  BY <1>1, <1>5, <1>6 DEF OfCategories, Count

LEMMA CountHead ==
  ASSUME NEW q \in Seq(Acs), q # << >>, NEW A
  PROVE  LET rest == SubSeq(q, 2, Len(q)) IN
         /\ Head(q) \in Acs /\ rest \in Seq(Acs) /\ Len(rest) = Len(q) - 1
         /\ \A i \in 1..Len(rest) : rest[i] = q[i + 1]
         /\ Count(q, A) = Count(rest, A) + (IF Head(q) \in A THEN 1 ELSE 0)
<1>1. PICK rest : rest = SubSeq(q, 2, Len(q))
  OBVIOUS
<1>2. /\ Head(q) \in Acs /\ rest \in Seq(Acs) /\ Len(rest) = Len(q) - 1
      /\ Len(q) \in Nat \ {0}
  BY <1>1
<1>3. \A i \in 1..Len(rest) : rest[i] = q[i + 1]
  BY <1>1
<1>4. PICK one : one = <<Head(q)>>
  OBVIOUS
<1>5. one \in Seq(Acs) /\ Len(one) = 1 /\ one[1] = q[1]
  BY <1>2, <1>4
<1>6. q = one \o rest
  <2>1. one \o rest \in Seq(Acs) /\ Len(one \o rest) = Len(q)
    <3>1. one \o rest \in Seq(Acs) /\ Len(one \o rest) = Len(one) + Len(rest)
      BY <1>2, <1>5, ConcatProperties
    <3> QED
      BY <1>2, <1>5, <3>1
  <2>2. ASSUME NEW i \in 1..Len(q) PROVE (one \o rest)[i] = q[i]
    <3>1. i \in 1..(Len(one) + Len(rest))
      BY <1>2, <1>5
    <3>2. (one \o rest)[i] = IF i <= Len(one) THEN one[i] ELSE rest[i - Len(one)]
      BY <1>2, <1>5, <3>1, ConcatProperties
    <3>3. CASE i = 1
      BY <1>5, <3>2, <3>3
    <3>4. CASE i # 1
      <4>1. i - 1 \in 1..Len(rest) /\ (i - 1) + 1 = i /\ ~(i <= Len(one)) /\ i - Len(one) = i - 1
        BY <1>2, <1>5, <3>4
      <4> QED
        BY <1>3, <3>2, <4>1
    <3> QED
      BY <3>3, <3>4
  <2>3. PICK whole \in Seq(Acs) : whole = one \o rest
    BY <2>1
  <2>4. Len(q) = Len(whole) /\ \A i \in 1..Len(q) : q[i] = whole[i]
    BY <2>1, <2>2, <2>3
  <2>5. q = whole
    BY <2>4, SeqEqual
  <2> QED
    BY <2>3, <2>5
<1>7. Count(q, A) = Count(one, A) + Count(rest, A)
  BY <1>2, <1>5, <1>6, CountConcat
<1>8. Count(one, A) = IF Head(q) \in A THEN 1 ELSE 0
  BY <1>2, <1>4, CountOne
<1>9. Count(rest, A) \in Nat
  BY <1>2, CountIs
<1>10. Count(q, A) = Count(rest, A) + (IF Head(q) \in A THEN 1 ELSE 0)
  BY <1>7, <1>8, <1>9
<1> QED
  BY <1>1, <1>2, <1>3, <1>10

LEMMA Bounds ==
  /\ FrameMax \in Nat /\ MgmtMax \in Nat /\ PollMax \in Nat /\ UintMod \in Nat \ {0}
  /\ FrameMax + PollMax < UintMod /\ MgmtMax < UintMod /\ FrameMax < UintMod
  BY BoundsAssumption

LEMMA ModIs ==
  ASSUME NEW M \in Nat \ {0}, NEW a \in Int
  PROVE  a % M \in 0..(M - 1) /\ (a \in 0..(M - 1) => a % M = a)
  OBVIOUS

LEMMA PlusIs ==
  ASSUME NEW a \in Nat, NEW b \in Nat
  PROVE  /\ Plus(a, b) \in 0..(UintMod - 1)
         /\ a + b < UintMod => Plus(a, b) = a + b
<1>1. a + b \in Int /\ (a + b < UintMod => a + b \in 0..(UintMod - 1))
  BY Bounds
<1> QED
  BY <1>1, Bounds, ModIs DEF Plus

LEMMA MinusIs ==
  ASSUME NEW a \in Nat, NEW b \in Nat
  PROVE  /\ Minus(a, b) \in 0..(UintMod - 1)
         /\ b <= a /\ a < UintMod => Minus(a, b) = a - b
<1>1. a - b \in Int /\ (b <= a /\ a < UintMod => a - b \in 0..(UintMod - 1))
  BY Bounds
<1> QED
  BY <1>1, Bounds, ModIs DEF Minus

-----------------------------------------------------------------------------
(***************************************************************************)
(* The operations on the queues.                                           *)
(***************************************************************************)
Uint == 0..(UintMod - 1)

HeldType ==
  /\ sleep_q \in Seq(Acs) /\ mgmt_sleep_q \in Nat
  /\ sleepq_len \in Uint /\ sleepq_ac_len \in Uint /\ mgmt_sleepq_len \in Uint

PendType == pend \in [Acs \cup {"mgmt"} -> Nat]

LEMMA UintIs == Uint \subseteq Nat /\ 0 \in Uint /\ \A a \in Uint : a < UintMod
  BY Bounds DEF Uint

\* What sleepq_ac_len counts too much stays the same.
DriftKept ==
  \E d \in Int : /\ sleepq_ac_len = Count(sleep_q, uapsd) + d
                 /\ sleepq_ac_len' = Count(sleep_q', uapsd') + d

LEMMA DriftIs ==
  ASSUME NEW a \in Nat, NEW b \in Nat
  PROVE  \E d \in Int : a = b + d
<1>1. a - b \in Int /\ a = b + (a - b)
  OBVIOUS
<1> QED
  BY <1>1

LEMMA HoldIs ==
  ASSUME HeldType, AcLenBounds, NEW s \in Seq(Acs), NEW n \in Nat, Hold(s, n),
         Len(sleep_q) + Len(s) <= FrameMax, mgmt_sleep_q + n <= MgmtMax,
         UNCHANGED uapsd
  PROVE  /\ HeldType' /\ AcLenBounds' /\ tim' \in BOOLEAN
         /\ Len(sleep_q') = Len(sleep_q) + Len(s) /\ mgmt_sleep_q' = mgmt_sleep_q + n
         /\ LensExact => LensExact'
         /\ NoneUnannounced => NoneUnannounced'
         /\ DriftKept /\ sleepq_ac_len' >= sleepq_ac_len
<1>1. /\ sleep_q \in Seq(Acs) /\ mgmt_sleep_q \in Nat
      /\ sleepq_len \in Nat /\ sleepq_ac_len \in Nat /\ mgmt_sleepq_len \in Nat
      /\ Len(s) \in Nat /\ Len(sleep_q) \in Nat
  BY UintIs DEF HeldType
<1>2. /\ Count(s, uapsd) \in Nat /\ Count(s, uapsd) <= Len(s)
      /\ Count(sleep_q, uapsd) \in Nat /\ Count(sleep_q, uapsd) <= Len(sleep_q)
  BY <1>1, CountIs
<1>3. sleep_q' = sleep_q \o s
  BY DEF Hold
<1>4. /\ sleep_q' \in Seq(Acs) /\ Len(sleep_q') = Len(sleep_q) + Len(s)
      /\ \A i \in 1..(Len(sleep_q) + Len(s)) :
           sleep_q'[i] = IF i <= Len(sleep_q) THEN sleep_q[i] ELSE s[i - Len(sleep_q)]
  BY <1>1, <1>3, ConcatProperties
<1>5. Count(sleep_q', uapsd') = Count(sleep_q, uapsd) + Count(s, uapsd)
  BY <1>1, <1>3, CountConcat
<1>6. mgmt_sleep_q' = mgmt_sleep_q + n /\ mgmt_sleep_q' \in Nat
  BY <1>1 DEF Hold
<1>7. HeldType'
  <2>1. sleepq_len' \in Uint /\ sleepq_ac_len' \in Uint /\ mgmt_sleepq_len' \in Uint
    BY <1>1, <1>2, PlusIs DEF Hold, Uint
  <2> QED
    BY <1>4, <1>6, <2>1 DEF HeldType
<1>8. AcLenBounds' /\ DriftKept /\ sleepq_ac_len' >= sleepq_ac_len
  <2>1. sleepq_ac_len + Count(s, uapsd) < UintMod
    BY <1>1, <1>2, Bounds DEF AcLenBounds
  <2>2. sleepq_ac_len' = sleepq_ac_len + Count(s, uapsd)
    BY <1>1, <1>2, <2>1, PlusIs DEF Hold
  <2>3. AcLenBounds'
    BY <1>1, <1>2, <1>5, <2>2, Bounds DEF AcLenBounds
  <2>4. PICK d \in Int : sleepq_ac_len = Count(sleep_q, uapsd) + d
    BY <1>1, <1>2, DriftIs
  <2>5. sleepq_ac_len' = Count(sleep_q', uapsd') + d /\ sleepq_ac_len' >= sleepq_ac_len
    BY <1>1, <1>2, <1>5, <2>2, <2>4
  <2> QED
    BY <2>3, <2>4, <2>5 DEF DriftKept
<1>9. ASSUME LensExact PROVE LensExact'
  <2>1. sleepq_len + Len(s) < UintMod /\ mgmt_sleepq_len + n < UintMod
    BY <1>1, <1>9, Bounds DEF LensExact
  <2>2. sleepq_len' = sleepq_len + Len(s) /\ mgmt_sleepq_len' = mgmt_sleepq_len + n
    BY <1>1, <2>1, PlusIs DEF Hold
  <2> QED
    BY <1>4, <1>6, <1>9, <2>2 DEF LensExact
<1>10. ASSUME NoneUnannounced PROVE NoneUnannounced'
  <2> SUFFICES ASSUME ~tim'
               PROVE  /\ \A i \in 1..Len(sleep_q') : sleep_q'[i] \in uapsd /\ has_legacy_ac
                      /\ has_legacy_ac => mgmt_sleep_q' = 0
    BY DEF NoneUnannounced, has_legacy_ac
  <2>1. ~tim /\ ~(n > 0) /\ \A i \in 1..Len(s) : ~Announced(s[i])
    BY DEF Hold
  <2>2. \A i \in 1..Len(s) : s[i] \in uapsd /\ has_legacy_ac
    <3>1. \A i \in 1..Len(s) : s[i] \in Acs
      OBVIOUS
    <3> QED
      BY <2>1, <3>1 DEF Announced, has_legacy_ac
  <2>3. /\ \A i \in 1..Len(sleep_q) : sleep_q[i] \in uapsd /\ has_legacy_ac
        /\ has_legacy_ac => mgmt_sleep_q = 0
    BY <1>10, <2>1 DEF NoneUnannounced
  <2>4. ASSUME NEW i \in 1..Len(sleep_q') PROVE sleep_q'[i] \in uapsd /\ has_legacy_ac
    <3>1. sleep_q'[i] = IF i <= Len(sleep_q) THEN sleep_q[i] ELSE s[i - Len(sleep_q)]
      BY <1>4
    <3>2. i <= Len(sleep_q) => i \in 1..Len(sleep_q)
      BY <1>1
    <3>3. ~(i <= Len(sleep_q)) => i - Len(sleep_q) \in 1..Len(s)
      BY <1>1, <1>4
    <3> QED
      BY <2>2, <2>3, <3>1, <3>2, <3>3
  <2>5. n = 0
    BY <2>1
  <2> QED
    BY <1>1, <1>6, <2>3, <2>4, <2>5
<1>11. tim' \in BOOLEAN
  BY DEF Hold
<1> QED
  BY <1>4, <1>6, <1>7, <1>8, <1>9, <1>10, <1>11

LEMMA ReleaseIs ==
  ASSUME PendType, NEW s \in Seq(Acs), NEW n \in Nat, Release(s, n)
  PROVE  /\ PendType' /\ pend'["mgmt"] = pend["mgmt"] + n
         /\ pend'["be"] + pend'["vo"] = pend["be"] + pend["vo"] + Len(s)
<1>1. /\ Count(s, {"be"}) \in Nat /\ Count(s, {"vo"}) \in Nat
      /\ Count(s, {"be"}) + Count(s, {"vo"}) = Len(s)
  BY CountIs, CountBoth
<1>2. pend["be"] \in Nat /\ pend["vo"] \in Nat /\ pend["mgmt"] \in Nat
  BY DEF PendType, Acs
<1>3. /\ pend'["be"] = pend["be"] + Count(s, {"be"})
      /\ pend'["vo"] = pend["vo"] + Count(s, {"vo"})
      /\ pend'["mgmt"] = pend["mgmt"] + n
  BY DEF Release, Acs
<1>4. PendType'
  <2>1. \A q \in Acs \cup {"mgmt"} :
          pend[q] + (IF q = "mgmt" THEN n ELSE Count(s, {q})) \in Nat
    <3>1. \A q \in Acs \cup {"mgmt"} : pend[q] \in Nat /\ Count(s, {q}) \in Nat
      BY CountIs DEF PendType
    <3> QED
      BY <3>1
  <2> QED
    BY <2>1 DEF Release, PendType
<1> QED
  BY <1>1, <1>2, <1>3, <1>4

LEMMA PendIs ==
  ASSUME PendType
  PROVE  pend["be"] \in Nat /\ pend["vo"] \in Nat /\ pend["mgmt"] \in Nat
  BY DEF PendType, Acs

LEMMA WakeupIs ==
  ASSUME HeldType, PendType, AcLenBounds, FramesBounded, WakeupSta, UNCHANGED <<uapsd, tx>>
  PROVE  /\ HeldType' /\ PendType' /\ AcLenBounds' /\ FramesBounded'
         /\ sleep_q' = << >> /\ mgmt_sleep_q' = 0
         /\ LensExact => LensExact' /\ dz' = FALSE /\ alive_chk' = FALSE
         /\ LensExact /\ aging # "store" => sleep' = FALSE /\ aging' = aging
         /\ DriftKept /\ (spOpen' => spOpen)
         /\ "be" \in uapsd /\ sleepq_ac_len > 0 => ~spOpen'
<1>1. /\ sleep_q \in Seq(Acs) /\ mgmt_sleep_q \in Nat
      /\ sleepq_len \in Nat /\ sleepq_ac_len \in Nat /\ mgmt_sleepq_len \in Nat
      /\ sleepq_ac_len < UintMod /\ sleepq_len < UintMod /\ mgmt_sleepq_len < UintMod
      /\ Len(sleep_q) \in Nat
  BY UintIs DEF HeldType
<1>2. Count(sleep_q, uapsd) \in Nat
  BY <1>1, CountIs
<1>3. /\ PendType' /\ pend'["mgmt"] = pend["mgmt"] + mgmt_sleep_q
      /\ pend'["be"] + pend'["vo"] = pend["be"] + pend["vo"] + Len(sleep_q)
  BY <1>1, ReleaseIs DEF WakeupSta
<1>4. /\ pend["be"] \in Nat /\ pend["vo"] \in Nat /\ pend["mgmt"] \in Nat
      /\ pend'["be"] \in Nat /\ pend'["vo"] \in Nat
  BY <1>3 DEF PendType, Acs
<1>5. /\ sleep_q' = << >> /\ mgmt_sleep_q' = 0 /\ << >> \in Seq(Acs) /\ Len(<< >>) = 0
      /\ Len(sleep_q') = 0
  BY DEF WakeupSta
<1>6. HeldType'
  <2>1. sleepq_len' \in Uint /\ sleepq_ac_len' \in Uint /\ mgmt_sleepq_len' \in Uint
    BY <1>1, <1>2, MinusIs DEF WakeupSta, Uint
  <2> QED
    BY <1>5, <2>1 DEF HeldType
<1>7. AcLenBounds'
  <2>1. sleepq_ac_len' = sleepq_ac_len - Count(sleep_q, uapsd)
    BY <1>1, <1>2, MinusIs DEF WakeupSta, AcLenBounds
  <2>2. Count(sleep_q', uapsd') = 0
    BY <1>5, CountEmpty
  <2> QED
    BY <1>1, <1>2, <2>1, <2>2, Bounds DEF AcLenBounds
<1>8. FramesBounded'
  <2>1. Len(sleep_q') = 0 /\ mgmt_sleep_q' = 0 /\ tx' = tx
    BY <1>5
  <2>2. Len(sleep_q) + pend["be"] + pend["vo"] + (IF tx = "idle" THEN 0 ELSE 1) <= FrameMax
    BY DEF FramesBounded
  <2>3. Len(sleep_q') + pend'["be"] + pend'["vo"] + (IF tx' = "idle" THEN 0 ELSE 1) <= FrameMax
    BY <1>1, <1>3, <1>4, <2>1, <2>2
  <2>4. mgmt_sleep_q' + pend'["mgmt"] <= MgmtMax
    BY <1>1, <1>3, <1>4, <2>1 DEF FramesBounded
  <2> QED
    BY <2>3, <2>4 DEF FramesBounded
<1>9. ASSUME LensExact
      PROVE  /\ LensExact' /\ dz' = FALSE /\ alive_chk' = FALSE
             /\ aging # "store" => sleep' = FALSE /\ aging' = aging
  <2>1. sleepq_len' = 0 /\ mgmt_sleepq_len' = 0
    BY <1>1, <1>9, MinusIs DEF WakeupSta, LensExact
  <2>2. StoreWord(FALSE, FALSE) /\ dz' = FALSE
    BY <2>1 DEF WakeupSta, Empty
  <2> QED
    BY <1>5, <2>1, <2>2 DEF LensExact, StoreWord
<1>10. sleepq_ac_len' = sleepq_ac_len - Count(sleep_q, uapsd) /\ Count(sleep_q', uapsd') = 0
  BY <1>1, <1>2, <1>5, MinusIs, CountEmpty DEF WakeupSta, AcLenBounds
<1>11. DriftKept
  <2>1. PICK d \in Int : sleepq_ac_len = Count(sleep_q, uapsd) + d
    BY <1>1, <1>2, DriftIs
  <2>2. sleepq_ac_len' = Count(sleep_q', uapsd') + d
    BY <1>1, <1>2, <1>10, <2>1
  <2> QED
    BY <2>1, <2>2 DEF DriftKept
<1>12. spOpen' => spOpen
  BY DEF WakeupSta
<1>13. ASSUME "be" \in uapsd, sleepq_ac_len > 0 PROVE ~spOpen'
  <2>1. Count(sleep_q, uapsd) > 0 /\ sleepq_ac_len' = 0
    BY <1>1, <1>2, <1>10, <1>13 DEF AcLenBounds
  <2> QED
    BY <2>1 DEF WakeupSta, Eosp
<1> QED
  BY <1>3, <1>5, <1>6, <1>7, <1>8, <1>9, <1>11, <1>12, <1>13

-----------------------------------------------------------------------------
(***************************************************************************)
(* The actions, one by one.                                                *)
(***************************************************************************)
ContextType ==
  /\ smp \in BOOLEAN /\ uapsd \subseteq Acs /\ dozing \in BOOLEAN
  /\ sleep \in BOOLEAN /\ dz \in BOOLEAN /\ tim \in BOOLEAN /\ alive_chk \in BOOLEAN
  /\ tx \in Acs \cup {"idle"}
  /\ rx \in RxStates
  /\ aging \in {"idle", "store", "tim"}
  /\ spOpen \in BOOLEAN

LEMMA TypeParts ==
  ASSUME PsInv
  PROVE  ContextType /\ HeldType /\ PendType /\ FramesBounded /\ AcLenBounds /\ TriggerInv
  BY DEF PsInv, TypeOK, ContextType, HeldType, PendType, Uint

LEMMA FromParts ==
  ASSUME ContextType', HeldType', PendType', FramesBounded', AcLenBounds', TriggerInv',
         ~smp' => OnOneProcessor'
  PROVE  PsInv'
  BY DEF PsInv, TypeOK, ContextType, HeldType, PendType, Uint

LEMMA IdleIs ==
  /\ Idle.pc = "idle" /\ Idle.empty = FALSE
  /\ Idle \in RxStates
  BY DEF Idle, Acs, RxStates

\* A step that leaves the receive tasklet where it is, or takes it away from polls,
\* and opens no period.
LEMMA TriggerKept ==
  ASSUME HeldType, HeldType', TriggerInv, uapsd' = uapsd,
         (rx' = rx /\ DriftKept) \/ rx'.pc \notin {"poll_alive", "poll_take"},
         "be" \in uapsd /\ spOpen' => spOpen /\ rx' = rx /\ sleepq_ac_len' >= sleepq_ac_len
  PROVE  TriggerInv'
<1>1. /\ sleep_q \in Seq(Acs) /\ sleep_q' \in Seq(Acs)
      /\ sleepq_ac_len \in Nat /\ sleepq_ac_len' \in Nat
  BY UintIs DEF HeldType
<1>2. Count(sleep_q, uapsd) \in Nat /\ Count(sleep_q', uapsd) \in Nat
  BY <1>1, CountIs
<1>3. "be" \in uapsd /\ spOpen' => rx'.pc = "deliver" /\ sleepq_ac_len' > 0
  BY <1>1 DEF TriggerInv
<1>4. ASSUME rx' = rx, DriftKept, rx.pc \in {"poll_alive", "poll_take"}
      PROVE  "be" \notin uapsd /\ sleepq_ac_len' < Count(sleep_q', uapsd) + PollMax
  <2>1. PICK d \in Int : /\ sleepq_ac_len = Count(sleep_q, uapsd) + d
                         /\ sleepq_ac_len' = Count(sleep_q', uapsd) + d
    BY <1>4 DEF DriftKept
  <2>2. "be" \notin uapsd /\ sleepq_ac_len < Count(sleep_q, uapsd) + PollMax
    BY <1>4 DEF TriggerInv
  <2> QED
    BY <1>1, <1>2, <2>1, <2>2, Bounds
<1> QED
  BY <1>3, <1>4 DEF TriggerInv

\* The queues are as they were.
LEMMA DriftSame ==
  ASSUME HeldType, UNCHANGED <<uapsd, sleep_q, sleepq_ac_len>>
  PROVE  DriftKept /\ sleepq_ac_len' >= sleepq_ac_len
<1>1. sleep_q \in Seq(Acs) /\ sleepq_ac_len \in Nat
  BY UintIs DEF HeldType
<1>2. Count(sleep_q, uapsd) \in Nat
  BY <1>1, CountIs
<1>3. PICK d \in Int : sleepq_ac_len = Count(sleep_q, uapsd) + d
  BY <1>1, <1>2, DriftIs
<1> QED
  BY <1>1, <1>3 DEF DriftKept

\* No context has anything in its hands.
LEMMA AllIdle ==
  ASSUME rx = Idle, aging = "idle"
  PROVE  Exclusive /\ Seen
  BY IdleIs DEF Exclusive, Seen

LEMMA InitPs == Init => PsInv
<1> SUFFICES ASSUME Init PROVE PsInv
  OBVIOUS
<1>1. /\ << >> \in Seq(Acs) /\ Len(<< >>) = 0 /\ 0 \in Uint
  BY UintIs
<1>2. ContextType
  BY IdleIs DEF Init, ContextType
<1>3. HeldType /\ PendType
  BY <1>1 DEF Init, HeldType, PendType
<1>4. pend["be"] = 0 /\ pend["vo"] = 0 /\ pend["mgmt"] = 0
  BY DEF Init, Acs
<1>5. FramesBounded
  BY <1>1, <1>4, Bounds DEF Init, FramesBounded
<1>6. AcLenBounds
  <2>1. Count(sleep_q, uapsd) = 0 /\ sleepq_ac_len = 0
    BY CountEmpty DEF Init
  <2> QED
    BY <2>1, Bounds DEF AcLenBounds
<1>8. TriggerInv
  BY IdleIs DEF Init, TriggerInv
<1>7. OnOneProcessor
  <2>1. Exclusive /\ Seen
    BY AllIdle DEF Init
  <2>2. LensExact /\ FlagsAgree
    BY <1>1 DEF Init, LensExact, FlagsAgree
  <2>3. NoneUnannounced
    BY <1>1 DEF Init, NoneUnannounced
  <2> QED
    BY <2>1, <2>2, <2>3 DEF OnOneProcessor, Init
<1> QED
  BY <1>2, <1>3, <1>5, <1>6, <1>7, <1>8 DEF PsInv, TypeOK, ContextType, HeldType, PendType, Uint

LEMMA TxDataKeeps ==
  ASSUME PsInv, NEW ac \in Acs, TxData(ac)
  PROVE  PsInv'
<1>1. ContextType /\ HeldType /\ PendType /\ FramesBounded /\ AcLenBounds /\ TriggerInv
  BY TypeParts
<1>2. /\ UNCHANGED <<smp, uapsd, dozing, sleep, dz, alive_chk, pend, rx, aging, spOpen>>
      /\ tx = "idle" /\ Len(sleep_q) + pend["be"] + pend["vo"] < FrameMax /\ MayRun
  BY DEF TxData, station
<1>3. ~smp => rx = Idle /\ aging = "idle" /\ OnOneProcessor
  BY <1>2 DEF MayRun, PsInv
<1>4. PendType'
  BY <1>1, <1>2 DEF PendType
<1>5. pend["be"] \in Nat /\ pend["vo"] \in Nat /\ pend["mgmt"] \in Nat /\ Len(sleep_q) \in Nat
      /\ mgmt_sleep_q \in Nat
  BY <1>1, PendIs DEF HeldType
<1>6. ~smp' => Exclusive' /\ Seen' /\ FlagsAgree'
  <2> SUFFICES ASSUME ~smp PROVE Exclusive' /\ Seen' /\ FlagsAgree'
    BY <1>2
  <2>1. Exclusive' /\ Seen'
    BY <1>2, <1>3, IdleIs DEF Exclusive, Seen
  <2> QED
    BY <1>2, <1>3, <2>1 DEF OnOneProcessor, FlagsAgree
<1>7. CASE Held
  <2>1. Hold(<<ac>>, 0) /\ tx' = tx
    BY <1>7 DEF TxData
  <2>2. <<ac>> \in Seq(Acs) /\ Len(<<ac>>) = 1 /\ 0 \in Nat
    OBVIOUS
  <2>3. Len(sleep_q) + Len(<<ac>>) <= FrameMax /\ mgmt_sleep_q + 0 <= MgmtMax
    BY <1>1, <1>2, <1>5, <2>2, Bounds DEF FramesBounded
  <2>4. /\ HeldType' /\ AcLenBounds' /\ tim' \in BOOLEAN
        /\ Len(sleep_q') = Len(sleep_q) + Len(<<ac>>) /\ mgmt_sleep_q' = mgmt_sleep_q + 0
        /\ LensExact => LensExact'
        /\ NoneUnannounced => NoneUnannounced'
        /\ DriftKept /\ sleepq_ac_len' >= sleepq_ac_len
    BY <1>1, <1>2, <2>1, <2>2, <2>3, HoldIs
  <2>5. FramesBounded'
    BY <1>1, <1>2, <1>5, <2>1, <2>2, <2>4, Bounds DEF FramesBounded
  <2>6. ContextType'
    BY <1>1, <1>2, <2>1, <2>4 DEF ContextType
  <2>7. ~smp' => OnOneProcessor'
    BY <1>2, <1>3, <1>6, <2>4 DEF OnOneProcessor
  <2>8. TriggerInv'
    BY <1>1, <1>2, <2>4, TriggerKept
  <2> QED
    BY <1>4, <2>4, <2>5, <2>6, <2>7, <2>8, FromParts
<1>8. CASE ~Held
  <2>1. tx' = ac /\ UNCHANGED <<sleep_q, sleepq_len, sleepq_ac_len, mgmt_sleep_q, mgmt_sleepq_len, tim>>
    BY <1>8 DEF TxData
  <2>2. HeldType' /\ AcLenBounds'
    BY <1>1, <1>2, <2>1 DEF HeldType, AcLenBounds
  <2>3. FramesBounded'
    BY <1>1, <1>2, <1>5, <2>1, Bounds DEF FramesBounded
  <2>4. ContextType'
    BY <1>1, <1>2, <2>1 DEF ContextType
  <2>5. ~smp' => OnOneProcessor'
    BY <1>2, <1>3, <1>6, <2>1 DEF OnOneProcessor, LensExact, NoneUnannounced, has_legacy_ac
  <2>6. TriggerInv'
    BY <1>1, <1>2, <2>1, <2>2, DriftSame, TriggerKept
  <2> QED
    BY <1>4, <2>2, <2>3, <2>4, <2>5, <2>6, FromParts
<1> QED
  BY <1>7, <1>8

LEMMA TxPassKeeps ==
  ASSUME PsInv, TxPass
  PROVE  PsInv'
<1>1. ContextType /\ HeldType /\ PendType /\ FramesBounded /\ AcLenBounds /\ TriggerInv
  BY TypeParts
<1>2. /\ UNCHANGED <<smp, uapsd, dozing, sleep, dz, tim, alive_chk, sleep_q, sleepq_len,
                     sleepq_ac_len, mgmt_sleep_q, mgmt_sleepq_len, rx, aging, spOpen>>
      /\ tx # "idle" /\ tx' = "idle"
  BY DEF TxPass, station, flags
<1>3. pend["be"] \in Nat /\ pend["vo"] \in Nat /\ pend["mgmt"] \in Nat /\ Len(sleep_q) \in Nat
      /\ tx \in Acs
  BY <1>1, <1>2, PendIs DEF HeldType, ContextType
<1>4. /\ PendType' /\ pend'["mgmt"] = pend["mgmt"]
      /\ pend'["be"] + pend'["vo"] <= pend["be"] + pend["vo"] + 1
      /\ pend'["be"] \in Nat /\ pend'["vo"] \in Nat
  <2>1. CASE UNCHANGED pend
    BY <1>1, <1>3, <2>1 DEF PendType
  <2>2. CASE pend' = [pend EXCEPT ![tx] = @ + 1]
    <3>1. tx = "be" \/ tx = "vo"
      BY <1>3 DEF Acs
    <3> QED
      BY <1>1, <1>3, <2>2, <3>1 DEF PendType, Acs
  <2> QED
    BY <2>1, <2>2 DEF TxPass
<1>5. FramesBounded'
  <2>1. PICK l \in Nat, b \in Nat, v \in Nat, mg \in Nat :
          l = Len(sleep_q) /\ b = pend["be"] /\ v = pend["vo"] /\ mg = pend["mgmt"]
    BY <1>3
  <2>2. PICK b1 \in Nat, v1 \in Nat : b1 = pend'["be"] /\ v1 = pend'["vo"]
    BY <1>4
  <2>3. l + b + v + 1 <= FrameMax /\ mgmt_sleep_q + mg <= MgmtMax
    BY <1>1, <1>2, <2>1 DEF FramesBounded
  <2>4. b1 + v1 <= b + v + 1
    BY <1>4, <2>1, <2>2
  <2>5. l + b1 + v1 + 0 <= FrameMax
    BY <2>3, <2>4, Bounds
  <2> QED
    BY <1>2, <1>4, <2>1, <2>2, <2>3, <2>5 DEF FramesBounded
<1>6. ContextType'
  BY <1>1, <1>2 DEF ContextType
<1>7. HeldType' /\ AcLenBounds'
  BY <1>1, <1>2 DEF HeldType, AcLenBounds
<1>8. ~smp' => OnOneProcessor'
  BY <1>2 DEF PsInv, OnOneProcessor, Exclusive, Seen, NothingHeld, LensExact, FlagsAgree,
              NoneUnannounced, has_legacy_ac
<1>9. TriggerInv'
  BY <1>1, <1>2, <1>7, DriftSame, TriggerKept
<1> QED
  BY <1>4, <1>5, <1>6, <1>7, <1>8, <1>9, FromParts

LEMMA TxMgmtKeeps ==
  ASSUME PsInv, TxMgmt
  PROVE  PsInv'
<1>1. ContextType /\ HeldType /\ PendType /\ FramesBounded /\ AcLenBounds /\ TriggerInv
  BY TypeParts
<1>2. /\ UNCHANGED <<smp, uapsd, dozing, sleep, dz, alive_chk, pend, tx, rx, aging, spOpen>>
      /\ mgmt_sleep_q + pend["mgmt"] < MgmtMax /\ Hold(<< >>, 1)
  BY DEF TxMgmt, station
<1>3. pend["be"] \in Nat /\ pend["vo"] \in Nat /\ pend["mgmt"] \in Nat /\ Len(sleep_q) \in Nat
      /\ mgmt_sleep_q \in Nat
  BY <1>1, PendIs DEF HeldType
<1>4. << >> \in Seq(Acs) /\ Len(<< >>) = 0 /\ 1 \in Nat
  OBVIOUS
<1>5. Len(sleep_q) + Len(<< >>) <= FrameMax /\ mgmt_sleep_q + 1 <= MgmtMax
  BY <1>1, <1>2, <1>3, <1>4, Bounds DEF FramesBounded
<1>6. /\ HeldType' /\ AcLenBounds' /\ tim' \in BOOLEAN
      /\ Len(sleep_q') = Len(sleep_q) + Len(<< >>) /\ mgmt_sleep_q' = mgmt_sleep_q + 1
      /\ LensExact => LensExact'
      /\ NoneUnannounced => NoneUnannounced'
      /\ DriftKept /\ sleepq_ac_len' >= sleepq_ac_len
  BY <1>1, <1>2, <1>4, <1>5, HoldIs
<1>7. FramesBounded'
  BY <1>1, <1>2, <1>3, <1>4, <1>6, Bounds DEF FramesBounded
<1>8. ContextType' /\ PendType'
  BY <1>1, <1>2, <1>6 DEF ContextType, PendType
<1>9. ~smp' => OnOneProcessor'
  <2> SUFFICES ASSUME ~smp PROVE OnOneProcessor'
    BY <1>2
  <2>1. rx = Idle /\ aging = "idle" /\ OnOneProcessor
    BY DEF TxMgmt, MayRun, PsInv
  <2>2. Exclusive' /\ Seen'
    BY <1>2, <2>1, IdleIs DEF Exclusive, Seen
  <2> QED
    BY <1>2, <1>6, <2>1, <2>2 DEF OnOneProcessor, FlagsAgree
<1>10. TriggerInv'
  BY <1>1, <1>2, <1>6, TriggerKept
<1> QED
  BY <1>6, <1>7, <1>8, <1>9, <1>10, FromParts

LEMMA XmitTaskletKeeps ==
  ASSUME PsInv, XmitTasklet
  PROVE  PsInv'
<1>1. ContextType /\ HeldType /\ PendType /\ FramesBounded /\ AcLenBounds /\ TriggerInv
  BY TypeParts
<1>2. UNCHANGED <<smp, uapsd, dozing, sleep, dz, tim, alive_chk, sleep_q, sleepq_len,
                  sleepq_ac_len, mgmt_sleep_q, mgmt_sleepq_len, tx, rx, aging, spOpen>>
  BY DEF XmitTasklet, station, flags
<1>3. pend["be"] \in Nat /\ pend["vo"] \in Nat /\ pend["mgmt"] \in Nat /\ Len(sleep_q) \in Nat
      /\ mgmt_sleep_q \in Nat
  BY <1>1, PendIs DEF HeldType
<1>4. PICK q \in Acs \cup {"mgmt"} : pend[q] > 0 /\ pend' = [pend EXCEPT ![q] = pend[q] - 1]
  BY <1>1 DEF XmitTasklet, PendType
<1>5. /\ PendType' /\ pend'["mgmt"] <= pend["mgmt"]
      /\ pend'["be"] <= pend["be"] /\ pend'["vo"] <= pend["vo"]
  BY <1>1, <1>3, <1>4 DEF PendType, Acs
<1>6. pend'["be"] \in Nat /\ pend'["vo"] \in Nat /\ pend'["mgmt"] \in Nat
  BY <1>5 DEF PendType, Acs
<1>7. FramesBounded'
  <2>1. PICK t \in Nat : t = IF tx = "idle" THEN 0 ELSE 1
    OBVIOUS
  <2>2. Len(sleep_q) + pend["be"] + pend["vo"] + t <= FrameMax /\ mgmt_sleep_q + pend["mgmt"] <= MgmtMax
    BY <1>1, <2>1 DEF FramesBounded
  <2>3. Len(sleep_q) + pend'["be"] + pend'["vo"] + t <= FrameMax /\ mgmt_sleep_q + pend'["mgmt"] <= MgmtMax
    <3>1. \A len, b, v, t1, b1, v1, max \in Nat :
            len + b + v + t1 <= max /\ b1 <= b /\ v1 <= v => len + b1 + v1 + t1 <= max
      OBVIOUS
    <3>2. \A len, b, b1, max \in Nat : len + b <= max /\ b1 <= b => len + b1 <= max
      OBVIOUS
    <3> QED
      BY <1>3, <1>5, <1>6, <2>1, <2>2, <3>1, <3>2, Bounds
  <2> QED
    BY <1>2, <2>1, <2>3 DEF FramesBounded
<1>8. ContextType' /\ HeldType' /\ AcLenBounds'
  BY <1>1, <1>2 DEF ContextType, HeldType, AcLenBounds
<1>9. ~smp' => OnOneProcessor'
  BY <1>2 DEF PsInv, OnOneProcessor, Exclusive, Seen, NothingHeld, LensExact, FlagsAgree,
              NoneUnannounced, has_legacy_ac
<1>10. TriggerInv'
  BY <1>1, <1>2, <1>8, DriftSame, TriggerKept
<1> QED
  BY <1>5, <1>7, <1>8, <1>9, <1>10, FromParts

LEMMA RepeatIs ==
  ASSUME NEW ac \in Acs, NEW n \in Nat
  PROVE  Repeat(ac, n) \in Seq(Acs) /\ Len(Repeat(ac, n)) = n
  BY DEF Repeat

\* stop_sta_xmit
LEMMA StopStaXmitIs ==
  ASSUME HeldType, PendType, FramesBounded, AcLenBounds, StopStaXmit, UNCHANGED <<uapsd, tx>>
  PROVE  /\ HeldType' /\ PendType' /\ FramesBounded' /\ AcLenBounds' /\ tim' \in BOOLEAN
         /\ LensExact => LensExact'
         /\ NoneUnannounced => NoneUnannounced'
<1>1. pend["be"] \in Nat /\ pend["vo"] \in Nat /\ pend["mgmt"] \in Nat
  BY PendIs
<1>2. PICK v : v = Repeat("vo", pend["vo"])
  OBVIOUS
<1>3. PICK b : b = Repeat("be", pend["be"])
  OBVIOUS
<1>4. v \in Seq(Acs) /\ Len(v) = pend["vo"] /\ b \in Seq(Acs) /\ Len(b) = pend["be"]
  BY <1>1, <1>2, <1>3, RepeatIs DEF Acs
<1>5. PICK s : s = v \o b
  OBVIOUS
<1>6. s \in Seq(Acs) /\ Len(s) = pend["vo"] + pend["be"]
  <2>1. s \in Seq(Acs) /\ Len(s) = Len(v) + Len(b)
    BY <1>4, <1>5, ConcatProperties
  <2> QED
    BY <1>4, <2>1
<1>7. Len(sleep_q) \in Nat /\ mgmt_sleep_q \in Nat
  BY DEF HeldType
<1>8. Len(sleep_q) + Len(s) <= FrameMax /\ mgmt_sleep_q + pend["mgmt"] <= MgmtMax
  BY <1>1, <1>6, <1>7, Bounds DEF FramesBounded
<1>9. Hold(s, pend["mgmt"])
  BY <1>2, <1>3, <1>5 DEF StopStaXmit
<1>10. /\ HeldType' /\ AcLenBounds' /\ tim' \in BOOLEAN
       /\ Len(sleep_q') = Len(sleep_q) + Len(s) /\ mgmt_sleep_q' = mgmt_sleep_q + pend["mgmt"]
       /\ LensExact => LensExact'
       /\ NoneUnannounced => NoneUnannounced'
  BY <1>1, <1>6, <1>8, <1>9, HoldIs
<1>11. PendType' /\ pend'["be"] = 0 /\ pend'["vo"] = 0 /\ pend'["mgmt"] = 0
  BY DEF StopStaXmit, PendType, Acs
<1>12. FramesBounded'
  BY <1>1, <1>6, <1>7, <1>8, <1>10, <1>11, Bounds DEF FramesBounded
<1> QED
  BY <1>10, <1>11, <1>12

LEMMA WakeupContext ==
  ASSUME ContextType, WakeupSta, UNCHANGED <<smp, uapsd, tx>>, dozing' \in BOOLEAN,
         rx' \in RxStates
  PROVE  ContextType'
<1>1. /\ sleep' \in BOOLEAN /\ dz' \in BOOLEAN /\ tim' \in BOOLEAN /\ alive_chk' \in BOOLEAN
      /\ aging' \in {"idle", "store", "tim"}
  BY DEF ContextType, WakeupSta, StoreWord, flags
<1>2. spOpen' \in BOOLEAN
  BY DEF WakeupSta
<1> QED
  BY <1>1, <1>2 DEF ContextType

LEMMA RxDataKeeps ==
  ASSUME PsInv, NEW doze \in BOOLEAN, NEW qos \in BOOLEAN, NEW ac \in Acs, RxData(doze, qos, ac)
  PROVE  PsInv'
<1>1. ContextType /\ HeldType /\ PendType /\ FramesBounded /\ AcLenBounds /\ TriggerInv
  BY TypeParts
<1>2. /\ UNCHANGED <<smp, uapsd, tx>> /\ dozing' = doze /\ MayRun /\ rx = Idle
      /\ rx' = IF qos /\ uapsd # {} THEN [Idle EXCEPT !.pc = "wmmps", !.ac = ac] ELSE Idle
  BY DEF RxData
<1>3. rx' \in RxStates /\ rx'.pc \in {"idle", "wmmps"}
  BY <1>2 DEF Idle, Acs, RxStates
<1>4. ~smp => tx = "idle" /\ aging = "idle" /\ OnOneProcessor
  BY <1>2 DEF MayRun, PsInv
<1>5. ASSUME ~smp, aging' = aging PROVE Exclusive' /\ Seen'
  BY <1>2, <1>3, <1>4, <1>5 DEF Exclusive, Seen
\* No period is open, and none is opened.
<1>6. ASSUME HeldType', spOpen' => spOpen PROVE TriggerInv'
  <2>1. ~("be" \in uapsd /\ spOpen)
    BY <1>1, <1>2, IdleIs DEF TriggerInv
  <2> QED
    BY <1>1, <1>2, <1>3, <1>6, <2>1, TriggerKept
<1>7. CASE doze = sleep
  <2>1. UNCHANGED <<sleep, dz, tim, alive_chk, sleep_q, sleepq_len, sleepq_ac_len,
                    mgmt_sleep_q, mgmt_sleepq_len, pend, aging, spOpen>>
    BY <1>7 DEF RxData, flags, queues
  <2>2. HeldType' /\ PendType' /\ FramesBounded' /\ AcLenBounds'
    BY <1>1, <1>2, <2>1 DEF HeldType, PendType, FramesBounded, AcLenBounds
  <2>3. ContextType' /\ TriggerInv'
    BY <1>1, <1>2, <1>3, <1>6, <2>1, <2>2 DEF ContextType
  <2>4. ~smp => LensExact' /\ NoneUnannounced'
    BY <1>2, <1>4, <2>1 DEF OnOneProcessor, LensExact, NoneUnannounced, has_legacy_ac
  <2>5. ~smp => FlagsAgree'
    BY <1>2, <1>4, <1>7, <2>1 DEF OnOneProcessor, FlagsAgree
  <2> QED
    BY <1>2, <1>5, <2>1, <2>2, <2>3, <2>4, <2>5, FromParts DEF OnOneProcessor
<1>8. CASE doze # sleep /\ doze
  <2>1. StopStaXmit
    BY <1>8 DEF RxData
  <2>2. /\ HeldType' /\ PendType' /\ FramesBounded' /\ AcLenBounds' /\ tim' \in BOOLEAN
        /\ LensExact => LensExact'
        /\ NoneUnannounced => NoneUnannounced'
    BY <1>1, <1>2, <2>1, StopStaXmitIs
  <2>3. /\ sleep' = TRUE /\ dz' = TRUE /\ alive_chk' = alive_chk /\ spOpen' = spOpen
        /\ aging' = aging \/ (aging = "store" /\ aging' = "tim")
    BY <2>1 DEF StopStaXmit, StoreWord
  <2>4. ContextType' /\ TriggerInv'
    BY <1>1, <1>2, <1>3, <1>6, <2>2, <2>3 DEF ContextType
  <2>5. FlagsAgree'
    BY <1>2, <1>8, <2>3 DEF FlagsAgree
  <2> QED
    BY <1>2, <1>4, <1>5, <2>2, <2>3, <2>4, <2>5, FromParts DEF OnOneProcessor
<1>9. CASE doze # sleep /\ ~doze
  <2>1. WakeupSta
    BY <1>9 DEF RxData
  <2>2. /\ HeldType' /\ PendType' /\ AcLenBounds' /\ FramesBounded'
        /\ sleep_q' = << >> /\ mgmt_sleep_q' = 0 /\ (spOpen' => spOpen)
        /\ LensExact => LensExact' /\ dz' = FALSE /\ alive_chk' = FALSE
        /\ LensExact /\ aging # "store" => sleep' = FALSE /\ aging' = aging
    BY <1>1, <1>2, <2>1, WakeupIs
  <2>3. ContextType' /\ TriggerInv'
    <3>1. ContextType'
      BY <1>1, <1>2, <1>3, <2>1, WakeupContext
    <3> QED
      BY <1>6, <2>2, <3>1
  <2>4. ASSUME ~smp PROVE LensExact' /\ FlagsAgree' /\ aging' = aging
    BY <1>4, <2>2, <2>4 DEF OnOneProcessor, FlagsAgree
  <2>5. NoneUnannounced'
    BY <2>2 DEF NoneUnannounced
  <2> QED
    BY <1>2, <1>5, <2>2, <2>3, <2>4, <2>5, FromParts DEF OnOneProcessor
<1> QED
  BY <1>7, <1>8, <1>9

LEMMA RxWmmpsKeeps ==
  ASSUME PsInv, RxWmmps
  PROVE  PsInv'
<1>1. ContextType /\ HeldType /\ PendType /\ FramesBounded /\ AcLenBounds /\ TriggerInv
  BY TypeParts
<1>2. /\ UNCHANGED <<smp, uapsd, dozing, sleep, dz, tim, alive_chk, sleep_q, sleepq_len,
                     sleepq_ac_len, mgmt_sleep_q, mgmt_sleepq_len, pend, tx, aging>>
      /\ rx.pc = "wmmps" /\ spOpen' \in BOOLEAN
  <2>1. UNCHANGED <<station, flags, queues, tx, aging>> /\ rx.pc = "wmmps"
    BY DEF RxWmmps
  <2>2. spOpen' = IF sleep /\ rx.ac \in uapsd THEN sleepq_ac_len > 0 ELSE spOpen
    BY Zenon DEF RxWmmps
  <2>3. spOpen \in BOOLEAN /\ (sleepq_ac_len > 0) \in BOOLEAN
    BY <1>1 DEF ContextType
  <2>4. spOpen' \in BOOLEAN
    BY <2>2, <2>3, Zenon
  <2> QED
    BY <2>1, <2>4 DEF station, flags, queues
<1>3. \/ rx' = Idle /\ (spOpen' => spOpen)
      \/ rx' = [rx EXCEPT !.pc = "deliver"] /\ sleepq_ac_len > 0
  BY DEF RxWmmps
<1>4. /\ rx' \in RxStates
      /\ (rx'.pc = "idle" /\ (spOpen' => spOpen)) \/ (rx'.pc = "deliver" /\ sleepq_ac_len > 0)
  BY <1>1, <1>3, IdleIs DEF ContextType, RxStates
<1>5. ContextType'
  BY <1>1, <1>2, <1>4 DEF ContextType
<1>6. HeldType' /\ PendType' /\ FramesBounded' /\ AcLenBounds'
  BY <1>1, <1>2 DEF HeldType, PendType, FramesBounded, AcLenBounds
<1>7. ~smp' => OnOneProcessor'
  <2> SUFFICES ASSUME ~smp PROVE OnOneProcessor'
    BY <1>2
  <2>1. OnOneProcessor /\ rx # Idle
    BY <1>2, IdleIs DEF PsInv
  <2>2. Exclusive' /\ Seen'
    BY <1>2, <1>4, <2>1 DEF OnOneProcessor, Exclusive, Seen
  <2> QED
    BY <1>2, <2>1, <2>2 DEF OnOneProcessor, LensExact, FlagsAgree, NoneUnannounced, has_legacy_ac
<1>8. TriggerInv'
  BY <1>1, <1>2, <1>4 DEF TriggerInv
<1> QED
  BY <1>5, <1>6, <1>7, <1>8, FromParts

LEMMA KeepNone ==
  ASSUME NEW T, NEW q \in Seq(T), NEW A, T \cap A = {}
  PROVE  Keep(q, A) = << >>
<1>1. Keep(q, A) \in Seq({})
  BY KeepType
<1> QED
  BY <1>1

LEMMA RxDeliverKeeps ==
  ASSUME PsInv, RxDeliver
  PROVE  PsInv'
<1>1. ContextType /\ HeldType /\ PendType /\ FramesBounded /\ AcLenBounds /\ TriggerInv
  BY TypeParts
<1>2. PICK out : out = Count(sleep_q, uapsd)
  OBVIOUS
<1>3. PICK s : s = OfCategories(sleep_q, uapsd)
  OBVIOUS
<1>4. /\ UNCHANGED <<smp, uapsd, dozing, sleep, dz, alive_chk, mgmt_sleep_q, mgmt_sleepq_len, tx, aging>>
      /\ rx.pc = "deliver" /\ rx' = Idle /\ Release(s, 0)
      /\ sleep_q' = OfCategories(sleep_q, Acs \ uapsd)
      /\ sleepq_len' = Minus(sleepq_len, out)
      /\ sleepq_ac_len' = Minus(sleepq_ac_len, out)
      /\ tim' = (tim /\ ~(out > 0 /\ sleepq_ac_len' = 0 /\ ~has_legacy_ac))
      /\ spOpen' = (spOpen /\ ~(out > 0 /\ sleepq_ac_len' = 0))
  BY <1>2, <1>3 DEF RxDeliver, station, AcLenAfter, Eosp
<1>5. /\ sleep_q \in Seq(Acs) /\ mgmt_sleep_q \in Nat /\ mgmt_sleepq_len \in Uint
      /\ sleepq_len \in Nat /\ sleepq_ac_len \in Nat /\ Len(sleep_q) \in Nat
      /\ sleepq_ac_len < UintMod /\ sleepq_len < UintMod
  BY <1>1, UintIs DEF HeldType
<1>6. /\ s \in Seq(Acs) /\ Len(s) = out /\ out \in Nat /\ out <= Len(sleep_q)
      /\ sleep_q' \in Seq(Acs) /\ Len(sleep_q') \in Nat
  BY <1>2, <1>3, <1>4, <1>5, CountIs
<1>7. Count(sleep_q', uapsd') = 0 /\ out + Len(sleep_q') = Len(sleep_q)
  BY <1>2, <1>4, <1>5, CountLeft
<1>8. /\ PendType' /\ pend'["mgmt"] = pend["mgmt"] + 0
      /\ pend'["be"] + pend'["vo"] = pend["be"] + pend["vo"] + Len(s)
  BY <1>1, <1>4, <1>6, ReleaseIs
<1>9. /\ pend["be"] \in Nat /\ pend["vo"] \in Nat /\ pend["mgmt"] \in Nat
      /\ pend'["be"] \in Nat /\ pend'["vo"] \in Nat /\ pend'["mgmt"] \in Nat
  BY <1>1, <1>8, PendIs DEF PendType, Acs
<1>10. FramesBounded'
  <2>1. PICK t \in Nat : t = IF tx = "idle" THEN 0 ELSE 1
    OBVIOUS
  <2>2. Len(sleep_q) + pend["be"] + pend["vo"] + t <= FrameMax /\ mgmt_sleep_q + pend["mgmt"] <= MgmtMax
    BY <1>1, <2>1 DEF FramesBounded
  <2>3. Len(sleep_q') + pend'["be"] + pend'["vo"] + t <= FrameMax
    <3>1. PICK b \in Nat, v \in Nat, b1 \in Nat, v1 \in Nat :
            b = pend["be"] /\ v = pend["vo"] /\ b1 = pend'["be"] /\ v1 = pend'["vo"]
      BY <1>9
    <3>2. PICK len \in Nat, len1 \in Nat : len = Len(sleep_q) /\ len1 = Len(sleep_q')
      BY <1>5, <1>6
    <3>3. len + b + v + t <= FrameMax /\ out + len1 = len /\ b1 + v1 = b + v + out
      BY <1>6, <1>7, <1>8, <2>2, <3>1, <3>2
    <3>4. len1 + b1 + v1 + t <= FrameMax
      BY <1>6, <3>3, Bounds
    <3> QED
      BY <3>1, <3>2, <3>4
  <2>4. mgmt_sleep_q' + pend'["mgmt"] <= MgmtMax
    BY <1>4, <1>8, <1>9, <2>2
  <2> QED
    BY <1>4, <2>1, <2>3, <2>4 DEF FramesBounded
<1>11. HeldType'
  <2>1. sleepq_len' \in Uint /\ sleepq_ac_len' \in Uint
    BY <1>4, <1>5, <1>6, MinusIs DEF Uint
  <2> QED
    BY <1>4, <1>5, <1>6, <2>1 DEF HeldType
<1>12. sleepq_ac_len' = sleepq_ac_len - out
  <2>1. out <= sleepq_ac_len
    BY <1>1, <1>2 DEF AcLenBounds
  <2> QED
    BY <1>4, <1>5, <1>6, <2>1, MinusIs
<1>13. AcLenBounds'
  <2>1. /\ out <= sleepq_ac_len /\ sleepq_ac_len <= out + PollMax
        /\ "be" \in uapsd => sleepq_ac_len = out
    BY <1>1, <1>2 DEF AcLenBounds
  <2> QED
    BY <1>4, <1>5, <1>6, <1>7, <1>12, <2>1, Bounds DEF AcLenBounds
<1>14. ContextType'
  BY <1>1, <1>4, IdleIs DEF ContextType
<1>15. ASSUME ~smp PROVE OnOneProcessor'
  <2>1. OnOneProcessor /\ rx # Idle
    BY <1>4, <1>15, IdleIs DEF PsInv
  <2>2. Exclusive' /\ Seen'
    BY <1>4, <2>1, IdleIs DEF OnOneProcessor, Exclusive, Seen
  <2>3. LensExact'
    <3>1. sleepq_len = Len(sleep_q) /\ mgmt_sleepq_len = mgmt_sleep_q
      BY <2>1 DEF OnOneProcessor, LensExact
    <3>2. sleepq_len' = sleepq_len - out
      BY <1>4, <1>5, <1>6, <3>1, MinusIs
    <3> QED
      BY <1>4, <1>5, <1>6, <1>7, <3>1, <3>2 DEF LensExact
  <2>4. FlagsAgree'
    BY <1>4, <2>1 DEF OnOneProcessor, FlagsAgree
  <2>5. NoneUnannounced'
    <3> SUFFICES ASSUME ~tim'
                 PROVE  Len(sleep_q') = 0 /\ (has_legacy_ac => mgmt_sleep_q' = 0)
      <4>1. uapsd' = uapsd
        BY <1>4
      <4>2. \A i : i \in 1..0 => FALSE
        OBVIOUS
      <4> QED
        BY <4>1, <4>2 DEF NoneUnannounced, has_legacy_ac
    <3>1. CASE ~has_legacy_ac
      <4>1. Acs \cap (Acs \ uapsd) = {}
        BY <3>1 DEF has_legacy_ac
      <4>2. Keep(sleep_q, Acs \ uapsd) = << >> /\ Len(<< >>) = 0
        BY <1>5, <4>1, KeepNone
      <4> QED
        BY <1>4, <3>1, <4>2 DEF OfCategories
    <3>2. CASE has_legacy_ac
      <4>1. ~tim
        BY <1>1, <1>4, <3>2 DEF ContextType
      <4>2. /\ \A i \in 1..Len(sleep_q) : sleep_q[i] \in uapsd
            /\ mgmt_sleep_q = 0
        BY <2>1, <3>2, <4>1 DEF OnOneProcessor, NoneUnannounced
      <4>3. sleep_q \in Seq(uapsd) /\ uapsd \cap (Acs \ uapsd) = {}
        BY <1>5, <4>2
      <4>4. Keep(sleep_q, Acs \ uapsd) = << >> /\ Len(<< >>) = 0
        BY <4>3, KeepNone
      <4> QED
        BY <1>4, <4>2, <4>4 DEF OfCategories
    <3> QED
      BY <3>1, <3>2
  <2> QED
    BY <1>4, <2>2, <2>3, <2>4, <2>5 DEF OnOneProcessor
<1>16. TriggerInv'
  <2>1. ASSUME "be" \in uapsd, spOpen' PROVE FALSE
    <3>1. spOpen /\ sleepq_ac_len > 0 /\ sleepq_ac_len = out
      BY <1>1, <1>2, <1>4, <2>1 DEF TriggerInv, AcLenBounds
    <3>2. out > 0 /\ sleepq_ac_len' = 0
      BY <1>6, <1>12, <3>1
    <3> QED
      BY <1>4, <2>1, <3>2
  <2> QED
    BY <1>4, <2>1, IdleIs DEF TriggerInv
<1> QED
  BY <1>4, <1>8, <1>10, <1>11, <1>13, <1>14, <1>15, <1>16, FromParts

LEMMA RxPsPollKeeps ==
  ASSUME PsInv, RxPsPoll
  PROVE  PsInv'
<1>1. ContextType /\ HeldType /\ PendType /\ FramesBounded /\ AcLenBounds /\ TriggerInv
  BY TypeParts
<1>2. /\ UNCHANGED <<smp, uapsd, dozing, sleep, dz, tim, alive_chk, sleep_q, sleepq_len,
                     sleepq_ac_len, mgmt_sleep_q, mgmt_sleepq_len, pend, tx, aging, spOpen>>
      /\ MayRun /\ "be" \notin uapsd
      /\ sleepq_ac_len - Count(sleep_q, uapsd) < PollMax
      /\ rx' = [Idle EXCEPT !.pc = IF alive_chk THEN "poll_alive" ELSE "poll_take"]
  BY DEF RxPsPoll, station, flags, queues
<1>3. /\ rx' \in RxStates /\ rx'.pc \in {"poll_alive", "poll_take"}
      /\ rx'.pc = "poll_alive" => alive_chk
  BY <1>2 DEF Idle, Acs, RxStates
<1>4. ContextType'
  BY <1>1, <1>2, <1>3 DEF ContextType
<1>5. HeldType' /\ PendType' /\ FramesBounded' /\ AcLenBounds'
  BY <1>1, <1>2 DEF HeldType, PendType, FramesBounded, AcLenBounds
<1>6. TriggerInv'
  <2>1. sleep_q \in Seq(Acs) /\ sleepq_ac_len \in Nat
    BY <1>1, UintIs DEF HeldType
  <2>2. Count(sleep_q, uapsd) \in Nat
    BY <2>1, CountIs
  <2>3. sleepq_ac_len < Count(sleep_q, uapsd) + PollMax
    BY <1>2, <2>1, <2>2, Bounds
  <2> QED
    BY <1>2, <2>3 DEF TriggerInv
<1>7. ASSUME ~smp PROVE OnOneProcessor'
  <2>1. OnOneProcessor /\ tx = "idle" /\ aging = "idle"
    BY <1>2, <1>7 DEF PsInv, MayRun
  <2>2. Exclusive' /\ Seen'
    BY <1>2, <1>3, <2>1 DEF OnOneProcessor, FlagsAgree, Exclusive, Seen
  <2> QED
    BY <1>2, <2>1, <2>2 DEF OnOneProcessor, LensExact, FlagsAgree, NoneUnannounced, has_legacy_ac
<1> QED
  BY <1>2, <1>4, <1>5, <1>6, <1>7, FromParts

LEMMA PollAliveKeeps ==
  ASSUME PsInv, PollAlive
  PROVE  PsInv'
<1>1. ContextType /\ HeldType /\ PendType /\ FramesBounded /\ AcLenBounds /\ TriggerInv
  BY TypeParts
<1>2. /\ UNCHANGED <<smp, uapsd, dozing, dz, tim, sleep_q, sleepq_len,
                     sleepq_ac_len, mgmt_sleep_q, mgmt_sleepq_len, pend, tx, aging, spOpen>>
      /\ rx.pc = "poll_alive" /\ rx' = [rx EXCEPT !.pc = "poll_take"]
      /\ sleep' = TRUE /\ alive_chk' = FALSE
  BY DEF PollAlive, station, queues
<1>3. rx' \in RxStates /\ rx'.pc = "poll_take"
  BY <1>1, <1>2 DEF ContextType, RxStates
<1>4. ContextType'
  BY <1>1, <1>2, <1>3 DEF ContextType
<1>5. HeldType' /\ PendType' /\ FramesBounded' /\ AcLenBounds'
  BY <1>1, <1>2 DEF HeldType, PendType, FramesBounded, AcLenBounds
<1>6. TriggerInv'
  BY <1>1, <1>2, <1>3 DEF TriggerInv
<1>7. ASSUME ~smp PROVE OnOneProcessor'
  <2>1. OnOneProcessor /\ rx # Idle
    BY <1>2, <1>7, IdleIs DEF PsInv
  <2>2. Exclusive' /\ Seen'
    BY <1>2, <1>3, <2>1 DEF OnOneProcessor, Exclusive, Seen
  <2>3. FlagsAgree'
    BY <1>2, <2>1 DEF OnOneProcessor, FlagsAgree, Seen
  <2> QED
    BY <1>2, <2>1, <2>2, <2>3 DEF OnOneProcessor, LensExact, NoneUnannounced, has_legacy_ac
<1> QED
  BY <1>2, <1>4, <1>5, <1>6, <1>7, FromParts

LEMMA PollTakeKeeps ==
  ASSUME PsInv, PollTake
  PROVE  PsInv'
<1>1. ContextType /\ HeldType /\ PendType /\ FramesBounded /\ AcLenBounds /\ TriggerInv
  BY TypeParts
<1>2. /\ UNCHANGED <<smp, uapsd, dozing, sleep, dz, tim, alive_chk, sleepq_ac_len, tx, aging, spOpen>>
      /\ rx.pc = "poll_take" /\ rx # Idle
  BY IdleIs DEF PollTake, station, flags
<1>3. ~smp => tx = "idle" /\ aging = "idle" /\ OnOneProcessor
  BY <1>2 DEF PsInv, OnOneProcessor, Exclusive
<1>6. "be" \notin uapsd /\ sleepq_ac_len < Count(sleep_q, uapsd) + PollMax
  BY <1>1, <1>2 DEF TriggerInv
<1>7. ASSUME rx'.pc \notin {"poll_alive", "poll_take"} PROVE TriggerInv'
  BY <1>2, <1>6, <1>7 DEF TriggerInv
<1>4. CASE ~Held
  <2>1. UNCHANGED <<pend, mgmt_sleep_q, mgmt_sleepq_len, sleep_q, sleepq_len>> /\ rx' = Idle
    BY <1>4 DEF PollTake
  <2>2. HeldType' /\ PendType'
    BY <1>1, <1>2, <2>1 DEF HeldType, PendType
  <2>4. FramesBounded'
    BY <1>1, <1>2, <2>1 DEF FramesBounded
  <2>5. AcLenBounds'
    BY <1>1, <1>2, <2>1 DEF AcLenBounds
  <2>6. ContextType' /\ TriggerInv'
    BY <1>1, <1>2, <1>7, <2>1, IdleIs DEF ContextType
  <2>3. ASSUME ~smp PROVE OnOneProcessor'
    <3>1. Exclusive' /\ Seen'
      BY <1>2, <1>3, <2>1, <2>3, IdleIs DEF Exclusive, Seen
    <3> QED
      BY <1>2, <1>3, <2>1, <2>3, <3>1 DEF OnOneProcessor, LensExact, FlagsAgree,
                                         NoneUnannounced, has_legacy_ac
  <2> QED
    BY <1>2, <2>2, <2>3, <2>4, <2>5, <2>6, FromParts
<1>5. CASE Held
  <2>1. PICK n : n = IF mgmt_sleep_q > 0 THEN 1 ELSE 0
    OBVIOUS
  <2>2. PICK s : s = IF sleep_q # << >> THEN <<Head(sleep_q)>> ELSE << >>
    OBVIOUS
  <2>3. /\ Release(s, n) /\ mgmt_sleep_q' = mgmt_sleep_q - n
        /\ mgmt_sleepq_len' = Minus(mgmt_sleepq_len, n)
        /\ sleep_q' = SubSeq(sleep_q, Len(s) + 1, Len(sleep_q))
        /\ sleepq_len' = Minus(sleepq_len, Len(s))
        /\ rx' = [Idle EXCEPT !.pc = "poll_check", !.empty = (n = 0 /\ s = << >>)]
    BY <1>5, <2>1, <2>2 DEF PollTake
  <2>4. /\ sleep_q \in Seq(Acs) /\ mgmt_sleep_q \in Nat /\ mgmt_sleepq_len \in Nat
        /\ sleepq_len \in Nat /\ sleepq_ac_len \in Nat /\ Len(sleep_q) \in Nat
        /\ mgmt_sleepq_len < UintMod /\ sleepq_len < UintMod /\ sleepq_ac_len \in Uint
    BY <1>1, UintIs DEF HeldType
  <2>5. n \in Nat /\ n <= mgmt_sleep_q /\ mgmt_sleep_q' \in Nat /\ (n = 0 => mgmt_sleep_q = 0)
    BY <2>1, <2>3, <2>4
  <2>6. /\ s \in Seq(Acs) /\ sleep_q' \in Seq(Acs)
        /\ Len(s) \in Nat /\ Len(s) + Len(sleep_q') = Len(sleep_q)
        /\ Count(sleep_q', uapsd) <= Count(sleep_q, uapsd)
        /\ sleepq_ac_len <= Count(sleep_q', uapsd) + PollMax
        /\ \A i \in 1..Len(sleep_q') : \E j \in 1..Len(sleep_q) : sleep_q'[i] = sleep_q[j]
        /\ s = << >> => sleep_q = << >>
    <3>1. Count(sleep_q, uapsd) \in Nat /\ sleepq_ac_len <= Count(sleep_q, uapsd) + PollMax
      BY <1>1, <2>4, CountIs DEF AcLenBounds
    <3>2. CASE sleep_q = << >>
      <4>1. s = << >> /\ Len(s) = 0 /\ << >> \in Seq(Acs) /\ Len(<< >>) = 0
        BY <2>2, <3>2
      <4>2. sleep_q' = << >>
        BY <2>3, <3>2, <4>1
      <4>3. 0 + 0 = 0 /\ 1..0 = {} /\ Count(sleep_q, uapsd) <= Count(sleep_q, uapsd)
        BY <3>1
      <4> QED
        BY <3>1, <3>2, <4>1, <4>2, <4>3
    <3>3. CASE sleep_q # << >>
      <4>1. PICK rest : rest = SubSeq(sleep_q, 2, Len(sleep_q))
        OBVIOUS
      <4>2. /\ Head(sleep_q) \in Acs /\ rest \in Seq(Acs) /\ Len(rest) = Len(sleep_q) - 1
            /\ \A i \in 1..Len(rest) : rest[i] = sleep_q[i + 1]
            /\ Count(sleep_q, uapsd) = Count(rest, uapsd) + (IF Head(sleep_q) \in uapsd THEN 1 ELSE 0)
        BY <2>4, <3>3, <4>1, CountHead
      <4>3. s = <<Head(sleep_q)>> /\ s \in Seq(Acs) /\ Len(s) = 1 /\ s # << >>
        BY <2>2, <3>3, <4>2
      <4>4. sleep_q' = rest
        BY <2>3, <4>1, <4>3
      <4>5. Count(rest, uapsd) \in Nat
        BY <4>2, CountIs
      <4>7. /\ Count(rest, uapsd) <= Count(sleep_q, uapsd)
            /\ sleepq_ac_len <= Count(rest, uapsd) + PollMax
        BY <1>6, <2>4, <3>1, <4>2, <4>5, Bounds
      <4>8. \A i \in 1..Len(rest) : i + 1 \in 1..Len(sleep_q)
        BY <2>4, <4>2
      <4>9. Len(s) + Len(rest) = Len(sleep_q)
        BY <2>4, <4>2, <4>3
      <4> QED
        BY <4>2, <4>3, <4>4, <4>7, <4>8, <4>9
    <3> QED
      BY <3>2, <3>3
  <2>7. /\ PendType' /\ pend'["mgmt"] = pend["mgmt"] + n
        /\ pend'["be"] + pend'["vo"] = pend["be"] + pend["vo"] + Len(s)
    BY <1>1, <2>3, <2>5, <2>6, ReleaseIs
  <2>8. FramesBounded'
    <3>1. PICK t \in Nat : t = IF tx = "idle" THEN 0 ELSE 1
      OBVIOUS
    <3>2. PICK b \in Nat, v \in Nat, b1 \in Nat, v1 \in Nat, m \in Nat :
            /\ b = pend["be"] /\ v = pend["vo"] /\ b1 = pend'["be"] /\ v1 = pend'["vo"]
            /\ m = pend["mgmt"]
      BY <1>1, <2>7, PendIs DEF PendType, Acs
    <3>3. PICK len \in Nat, len1 \in Nat, o \in Nat :
            len = Len(sleep_q) /\ len1 = Len(sleep_q') /\ o = Len(s)
      BY <2>4, <2>6
    <3>4. /\ len + b + v + t <= FrameMax /\ o + len1 = len /\ b1 + v1 = b + v + o
          /\ mgmt_sleep_q + m <= MgmtMax
      BY <1>1, <2>6, <2>7, <3>1, <3>2, <3>3 DEF FramesBounded
    <3>5. len1 + b1 + v1 + t <= FrameMax
      BY <3>4, Bounds
    <3>6. mgmt_sleep_q' + pend'["mgmt"] <= MgmtMax
      <4>1. mgmt_sleep_q' = mgmt_sleep_q - n /\ pend'["mgmt"] = m + n
        BY <2>3, <2>7, <3>2
      <4>2. (mgmt_sleep_q - n) + (m + n) = mgmt_sleep_q + m
        BY <2>4, <2>5
      <4> QED
        BY <3>4, <4>1, <4>2
    <3> QED
      BY <1>2, <3>1, <3>2, <3>3, <3>5, <3>6 DEF FramesBounded
  <2>9. HeldType'
    <3>1. sleepq_len' \in Uint /\ mgmt_sleepq_len' \in Uint
      BY <2>3, <2>4, <2>5, <2>6, MinusIs DEF Uint
    <3> QED
      BY <1>2, <2>4, <2>5, <2>6, <3>1 DEF HeldType
  <2>10. AcLenBounds'
    <3>1. Count(sleep_q, uapsd) \in Nat /\ Count(sleep_q', uapsd) \in Nat
      BY <2>4, <2>6, CountIs
    <3>2. Count(sleep_q', uapsd) <= sleepq_ac_len
      BY <1>1, <2>4, <2>6, <3>1 DEF AcLenBounds
    <3>3. uapsd' = uapsd /\ sleepq_ac_len' = sleepq_ac_len
      BY <1>2
    <3> QED
      BY <1>6, <2>6, <3>2, <3>3 DEF AcLenBounds
  <2>11. /\ rx' \in RxStates
         /\ rx'.pc = "poll_check" /\ (rx'.empty => n = 0 /\ s = << >>)
    BY <2>3 DEF Idle, Acs, RxStates
  <2>12. ContextType' /\ TriggerInv'
    BY <1>1, <1>2, <1>7, <2>11 DEF ContextType
  <2>13. ASSUME ~smp PROVE OnOneProcessor'
    <3>1. tx = "idle" /\ aging = "idle" /\ OnOneProcessor
      BY <1>3, <2>13
    <3>2. rx'.empty => NothingHeld'
      <4> SUFFICES ASSUME rx'.empty PROVE sleep_q' = << >> /\ mgmt_sleep_q' = 0
        BY DEF NothingHeld
      <4>1. n = 0 /\ s = << >> /\ sleep_q = << >> /\ mgmt_sleep_q = 0
        BY <2>5, <2>6, <2>11
      <4>2. Len(s) = 0 /\ Len(sleep_q) = 0
        BY <4>1
      <4>3. Len(sleep_q') = 0
        BY <2>6, <4>2
      <4> QED
        BY <2>3, <2>4, <2>6, <4>1, <4>3
    <3>3. Exclusive' /\ Seen'
      BY <1>2, <2>11, <3>1, <3>2 DEF Exclusive, Seen
    <3>4. LensExact'
      <4>1. sleepq_len = Len(sleep_q) /\ mgmt_sleepq_len = mgmt_sleep_q
        BY <3>1 DEF OnOneProcessor, LensExact
      <4>2. Len(s) <= sleepq_len /\ n <= mgmt_sleepq_len /\ Len(sleep_q') \in Nat
        BY <2>4, <2>5, <2>6, <4>1
      <4>3. sleepq_len' = sleepq_len - Len(s) /\ mgmt_sleepq_len' = mgmt_sleepq_len - n
        BY <2>3, <2>4, <2>5, <2>6, <4>2, MinusIs
      <4>4. sleepq_len - Len(s) = Len(sleep_q')
        BY <2>4, <2>6, <4>1, <4>2
      <4> QED
        BY <2>3, <4>1, <4>3, <4>4 DEF LensExact
    <3>5. NoneUnannounced'
      <4> SUFFICES ASSUME ~tim
                   PROVE  /\ \A i \in 1..Len(sleep_q') : sleep_q'[i] \in uapsd /\ has_legacy_ac
                          /\ has_legacy_ac => mgmt_sleep_q' = 0
        BY <1>2 DEF NoneUnannounced, has_legacy_ac
      <4>1. /\ \A i \in 1..Len(sleep_q) : sleep_q[i] \in uapsd /\ has_legacy_ac
            /\ has_legacy_ac => mgmt_sleep_q = 0
        BY <3>1 DEF OnOneProcessor, NoneUnannounced
      <4>2. mgmt_sleep_q = 0 => mgmt_sleep_q' = 0
        BY <2>3, <2>4, <2>5
      <4> QED
        BY <2>6, <4>1, <4>2
    <3> QED
      BY <1>2, <3>1, <3>3, <3>4, <3>5 DEF OnOneProcessor, FlagsAgree
  <2> QED
    BY <1>2, <2>7, <2>8, <2>9, <2>10, <2>12, <2>13, FromParts
<1> QED
  BY <1>4, <1>5

LEMMA PollCheckKeeps ==
  ASSUME PsInv, PollCheck
  PROVE  PsInv'
<1>1. ContextType /\ HeldType /\ PendType /\ FramesBounded /\ AcLenBounds /\ TriggerInv
  BY TypeParts
<1>2. /\ UNCHANGED <<smp, uapsd, dozing, sleep, dz, tim, alive_chk, sleep_q, sleepq_ac_len,
                     mgmt_sleep_q, pend, tx, aging, spOpen>>
      /\ rx.pc = "poll_check" /\ rx' = [rx EXCEPT !.pc = "poll_test"]
  BY DEF PollCheck, station, flags
<1>3. /\ rx' \in RxStates
      /\ rx'.pc = "poll_test"
  BY <1>1, <1>2 DEF ContextType, RxStates
<1>4. ContextType'
  BY <1>1, <1>2, <1>3 DEF ContextType
<1>5. HeldType'
  BY <1>1, <1>2, UintIs DEF HeldType, PollCheck
<1>6. PendType' /\ FramesBounded' /\ AcLenBounds'
  BY <1>1, <1>2 DEF PendType, FramesBounded, AcLenBounds
<1>7. ASSUME ~smp PROVE OnOneProcessor'
  <2>1. OnOneProcessor /\ rx # Idle
    BY <1>2, <1>7, IdleIs DEF PsInv
  <2>2. Exclusive' /\ Seen'
    BY <1>2, <1>3, <2>1 DEF OnOneProcessor, Exclusive, Seen
  <2>3. LensExact'
    <3>1. CASE PollError
      <4>1. sleep_q' = << >> /\ mgmt_sleep_q' = 0 /\ sleepq_len' = 0 /\ mgmt_sleepq_len' = 0
        BY <1>2, <2>1, <3>1 DEF OnOneProcessor, Seen, NothingHeld, PollError, PollCheck
      <4>2. Len(sleep_q') = 0
        BY <4>1
      <4> QED
        BY <4>1, <4>2 DEF LensExact
    <3>2. CASE ~PollError
      BY <1>2, <2>1, <3>2 DEF OnOneProcessor, LensExact, PollCheck
    <3> QED
      BY <3>1, <3>2
  <2> QED
    BY <1>2, <2>1, <2>2, <2>3 DEF OnOneProcessor, FlagsAgree, NoneUnannounced, has_legacy_ac
<1>8. TriggerInv'
  BY <1>1, <1>2, <1>3 DEF TriggerInv
<1> QED
  BY <1>2, <1>4, <1>5, <1>6, <1>7, <1>8, FromParts

LEMMA PollTestKeeps ==
  ASSUME PsInv, PollTest
  PROVE  PsInv'
<1>1. ContextType /\ HeldType /\ PendType /\ FramesBounded /\ AcLenBounds /\ TriggerInv
  BY TypeParts
<1>2. /\ UNCHANGED <<smp, uapsd, dozing, sleep, dz, tim, alive_chk, sleep_q, sleepq_len,
                     sleepq_ac_len, mgmt_sleep_q, mgmt_sleepq_len, pend, tx, aging, spOpen>>
      /\ rx.pc = "poll_test"
      /\ rx' = Idle \/ (rx' = [rx EXCEPT !.pc = "poll_clear"] /\ sleepq_len = 0 /\ mgmt_sleepq_len = 0)
  BY DEF PollTest, Empty, station, flags, queues
<1>3. /\ rx' \in RxStates
      /\ rx'.pc = "idle" \/ (rx'.pc = "poll_clear" /\ sleepq_len = 0 /\ mgmt_sleepq_len = 0)
  BY <1>1, <1>2, IdleIs DEF ContextType, RxStates
<1>4. ContextType'
  BY <1>1, <1>2, <1>3 DEF ContextType
<1>5. HeldType' /\ PendType' /\ FramesBounded' /\ AcLenBounds'
  BY <1>1, <1>2 DEF HeldType, PendType, FramesBounded, AcLenBounds
<1>6. ASSUME ~smp PROVE OnOneProcessor'
  <2>1. OnOneProcessor /\ rx # Idle
    BY <1>2, <1>6, IdleIs DEF PsInv
  <2>2. sleepq_len = 0 /\ mgmt_sleepq_len = 0 => NothingHeld'
    <3>1. sleepq_len = Len(sleep_q) /\ mgmt_sleepq_len = mgmt_sleep_q /\ sleep_q \in Seq(Acs)
      BY <1>1, <2>1 DEF OnOneProcessor, LensExact, HeldType
    <3>2. Len(sleep_q) = 0 => sleep_q = << >>
      BY <3>1, EmptySeq
    <3>3. sleep_q' = sleep_q /\ mgmt_sleep_q' = mgmt_sleep_q
      BY <1>2
    <3> QED
      BY <3>1, <3>2, <3>3 DEF NothingHeld
  <2>3. Exclusive' /\ Seen'
    BY <1>2, <1>3, <2>1, <2>2 DEF OnOneProcessor, Exclusive, Seen
  <2> QED
    BY <1>2, <2>1, <2>3 DEF OnOneProcessor, LensExact, FlagsAgree, NoneUnannounced, has_legacy_ac
<1>8. TriggerInv'
  BY <1>1, <1>2, <1>3 DEF TriggerInv
<1> QED
  BY <1>2, <1>4, <1>5, <1>6, <1>8, FromParts

LEMMA PollClearKeeps ==
  ASSUME PsInv, PollClear
  PROVE  PsInv'
<1>1. ContextType /\ HeldType /\ PendType /\ FramesBounded /\ AcLenBounds /\ TriggerInv
  BY TypeParts
<1>2. /\ UNCHANGED <<smp, uapsd, dozing, sleep, dz, alive_chk, sleep_q, sleepq_len,
                     sleepq_ac_len, mgmt_sleep_q, mgmt_sleepq_len, pend, tx, aging, spOpen>>
      /\ rx.pc = "poll_clear" /\ rx' = Idle /\ tim' = FALSE
  BY DEF PollClear, station, queues
<1>3. ContextType'
  BY <1>1, <1>2, IdleIs DEF ContextType
<1>4. HeldType' /\ PendType' /\ FramesBounded' /\ AcLenBounds'
  BY <1>1, <1>2 DEF HeldType, PendType, FramesBounded, AcLenBounds
<1>5. ASSUME ~smp PROVE OnOneProcessor'
  <2>1. OnOneProcessor /\ rx # Idle
    BY <1>2, <1>5, IdleIs DEF PsInv
  <2>2. Exclusive' /\ Seen'
    BY <1>2, <2>1, IdleIs DEF OnOneProcessor, Exclusive, Seen
  <2>3. NoneUnannounced'
    <3>1. sleep_q' = << >> /\ mgmt_sleep_q' = 0
      BY <1>2, <2>1 DEF OnOneProcessor, Seen, NothingHeld
    <3> QED
      BY <3>1 DEF NoneUnannounced
  <2> QED
    BY <1>2, <2>1, <2>2, <2>3 DEF OnOneProcessor, LensExact, FlagsAgree
<1>8. TriggerInv'
  BY <1>1, <1>2, IdleIs DEF TriggerInv
<1> QED
  BY <1>2, <1>3, <1>4, <1>5, <1>8, FromParts

LEMMA AgingKeeps ==
  ASSUME PsInv, AgingLoad \/ AgingStore \/ AgingTim
  PROVE  PsInv'
<1>1. ContextType /\ HeldType /\ PendType /\ FramesBounded /\ AcLenBounds /\ TriggerInv
  BY TypeParts
<1>2. UNCHANGED <<smp, uapsd, dozing, dz, sleep_q, sleepq_len, sleepq_ac_len,
                  mgmt_sleep_q, mgmt_sleepq_len, pend, tx, rx, spOpen>>
  BY DEF AgingLoad, AgingStore, AgingTim, station, flags, queues
<1>3. ContextType'
  BY <1>1, <1>2 DEF ContextType, AgingLoad, AgingStore, AgingTim, flags
<1>4. HeldType' /\ PendType' /\ FramesBounded' /\ AcLenBounds'
  BY <1>1, <1>2 DEF HeldType, PendType, FramesBounded, AcLenBounds
<1>5. ASSUME ~smp PROVE OnOneProcessor'
  <2>1. OnOneProcessor
    BY <1>5 DEF PsInv
  <2>2. rx = Idle /\ tx = "idle"
    BY <1>5, <2>1 DEF AgingLoad, AgingStore, AgingTim, MayRun, OnOneProcessor, Exclusive
  <2>3. /\ sleep' = sleep /\ (alive_chk' => alive_chk \/ sleep)
        /\ ~tim' => ~tim
        /\ aging' = "idle" \/ (aging' = "store" /\ sleep)
    <3>1. aging = "store" => sleep = TRUE
      BY <1>1, <2>1 DEF OnOneProcessor, Seen, ContextType
    <3>2. CASE AgingLoad
      BY <3>2 DEF AgingLoad, flags
    <3>3. CASE AgingStore
      BY <3>1, <3>3 DEF AgingStore
    <3>4. CASE AgingTim
      BY <3>4 DEF AgingTim
    <3> QED
      BY <3>2, <3>3, <3>4
  <2>4. Exclusive' /\ Seen'
    BY <1>2, <2>2, <2>3, IdleIs DEF Exclusive, Seen
  <2>5. NoneUnannounced'
    BY <1>2, <2>1, <2>3 DEF OnOneProcessor, NoneUnannounced, has_legacy_ac
  <2> QED
    BY <1>2, <2>1, <2>3, <2>4, <2>5 DEF OnOneProcessor, LensExact, FlagsAgree
<1>6. TriggerInv'
  BY <1>1, <1>2, <1>4, DriftSame, TriggerKept
<1> QED
  BY <1>2, <1>3, <1>4, <1>5, <1>6, FromParts

LEMMA AgingFlushKeeps ==
  ASSUME PsInv, AgingFlush
  PROVE  PsInv'
<1>1. ContextType /\ HeldType /\ PendType /\ FramesBounded /\ AcLenBounds /\ TriggerInv
  BY TypeParts
<1>2. UNCHANGED <<smp, uapsd, dozing, tx, rx>> /\ aging = "idle" /\ MayRun /\ WakeupSta
  BY DEF AgingFlush, station
<1>3. /\ HeldType' /\ PendType' /\ AcLenBounds' /\ FramesBounded'
      /\ sleep_q' = << >> /\ mgmt_sleep_q' = 0
      /\ LensExact => LensExact' /\ dz' = FALSE /\ alive_chk' = FALSE
      /\ LensExact /\ aging # "store" => sleep' = FALSE /\ aging' = aging
      /\ DriftKept /\ (spOpen' => spOpen)
      /\ "be" \in uapsd /\ sleepq_ac_len > 0 => ~spOpen'
  BY <1>1, <1>2, WakeupIs
<1>4. ContextType'
  BY <1>1, <1>2, WakeupContext DEF ContextType
<1>5. ASSUME ~smp PROVE OnOneProcessor'
  <2>1. OnOneProcessor /\ rx = Idle /\ aging = "idle"
    BY <1>2, <1>5 DEF PsInv, MayRun
  <2>2. Exclusive' /\ Seen'
    BY <1>2, <1>3, <2>1, IdleIs DEF OnOneProcessor, Exclusive, Seen
  <2>3. NoneUnannounced'
    BY <1>3 DEF NoneUnannounced
  <2>4. LensExact' /\ FlagsAgree'
    BY <1>3, <2>1 DEF OnOneProcessor, FlagsAgree
  <2> QED
    BY <1>2, <2>1, <2>2, <2>3, <2>4 DEF OnOneProcessor
\* An open period is closed by the last frame that goes out.
<1>6. TriggerInv'
  <2>1. ~("be" \in uapsd /\ spOpen')
    BY <1>1, <1>3 DEF TriggerInv
  <2> QED
    BY <1>1, <1>2, <1>3, <2>1, TriggerKept
<1> QED
  BY <1>2, <1>3, <1>4, <1>5, <1>6, FromParts

LEMMA StutterKeeps ==
  ASSUME PsInv, UNCHANGED vars
  PROVE  PsInv'
<1>1. UNCHANGED <<smp, uapsd, dozing, sleep, dz, tim, alive_chk, sleep_q, sleepq_len,
                  sleepq_ac_len, mgmt_sleep_q, mgmt_sleepq_len, pend, tx, rx, aging, spOpen>>
  BY DEF vars, station, flags, queues
<1> QED
  BY <1>1 DEF PsInv, TypeOK, FramesBounded, AcLenBounds, TriggerInv, OnOneProcessor, Exclusive, Seen,
              NothingHeld, LensExact, FlagsAgree, NoneUnannounced, has_legacy_ac

LEMMA PsInvNext == PsInv /\ [Next]_vars => PsInv'
  BY TxDataKeeps, TxPassKeeps, TxMgmtKeeps, XmitTaskletKeeps, RxDataKeeps, RxWmmpsKeeps,
     RxDeliverKeeps, RxPsPollKeeps, PollAliveKeeps, PollTakeKeeps, PollCheckKeeps, PollTestKeeps, PollClearKeeps,
     AgingKeeps, AgingFlushKeeps, StutterKeeps DEF Next

LEMMA PsInvariant == Spec => []PsInv
  BY InitPs, PsInvNext, PTL DEF Spec

-----------------------------------------------------------------------------
(***************************************************************************)
(* The results.                                                            *)
(***************************************************************************)
\* Every variable keeps its type on any number of processors, and on one the
\* counters tell the length of the queues they stand for, for any number of
\* frames the pools can hold (the decisions at rtw_xmit.c:5937 and
\* rtw_recv.c:1814 rest on them).
THEOREM CountersAreExact == Spec => []CountersExact
<1>1. PsInv => CountersExact
  BY DEF PsInv, CountersExact, OnOneProcessor, LensExact
<1> QED
  BY <1>1, PsInvariant, PTL

\* On one processor a station that has said it is awake is treated as awake and
\* none of its frames is held back (process_pwrbit_data, wakeup_sta_to_xmit).
THEOREM AwakeIsServed == Spec => []AwakeServed
<1>1. ASSUME PsInv, HeldWhileAsleep PROVE AwakeServed
  <2> SUFFICES ASSUME ~smp, ~dozing
               PROVE  ~sleep /\ ~dz /\ sleep_q = << >> /\ mgmt_sleep_q = 0
    BY DEF AwakeServed
  <2>1. ~sleep /\ ~dz
    BY <1>1 DEF PsInv, OnOneProcessor, FlagsAgree
  <2>2. sleep_q = << >> /\ ~(mgmt_sleep_q > 0) /\ mgmt_sleep_q \in Nat
    BY <1>1, <2>1 DEF HeldWhileAsleep, PsInv, TypeOK
  <2> QED
    BY <2>1, <2>2
<1> QED
  BY <1>1, PsInvariant, HeldOnlyWhileAsleep, PTL

\* On one processor a dozing station's TIM bit is set while a frame is held that
\* it has to poll for (xmitframe_enqueue_for_sleeping_sta,
\* xmit_delivery_enabled_frames, the clearing of the bit after a PS-Poll).
THEOREM HeldFramesAnnounced == Spec => []HeldIsAnnounced
<1>1. PsInv => HeldIsAnnounced
  BY DEF PsInv, HeldIsAnnounced, OnOneProcessor, NoneUnannounced
<1> QED
  BY <1>1, PsInvariant, PTL

\* On any number of processors the counter a trigger tests first never falls
\* behind the delivery-enabled frames that are held (rtw_recv.c:1018).
THEOREM TriggerFindsFrames == Spec => []TriggerReachesFrames
<1>1. ASSUME PsInv PROVE TriggerReachesFrames
  <2>1. HeldType /\ AcLenBounds
    BY <1>1, TypeParts
  <2>2. Count(sleep_q, uapsd) \in Nat /\ sleepq_ac_len \in Nat
    BY <2>1, CountIs, UintIs DEF HeldType
  <2> QED
    BY <2>1, <2>2 DEF AcLenBounds, TriggerReachesFrames
<1> QED
  BY <1>1, PsInvariant, PTL

\* On any number of processors a service period is closed by the time its trigger
\* has been handled, for a station that does not poll: the frames the trigger found
\* are still there when they are delivered, or the aging loop has sent them, and
\* either way the last of them ends the period (process_wmmps_data,
\* xmit_delivery_enabled_frames, wakeup_sta_to_xmit).
THEOREM PeriodsAreClosed == Spec => []PeriodClosed
<1>1. PsInv => PeriodClosed
  BY DEF PsInv, PeriodClosed, TriggerInv
<1> QED
  BY <1>1, PsInvariant, PTL
============================================================================
