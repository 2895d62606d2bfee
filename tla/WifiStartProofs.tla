--------------------------- MODULE WifiStartProofs --------------------------
(***************************************************************************)
(* Proofs about WifiStart: the script takes down no access point that      *)
(* serves, and starts each daemon once per run, for every ProbeMax and     *)
(* every way, order and time in which the two daemons end.                 *)
(***************************************************************************)
EXTENDS WifiStart, TLAPS

\* No daemon before the script has set up the interface, no dnsmasq in the window
\* between the two starts, and a script that is about to kill has seen one end.
WifiInv ==
  /\ pc \in {"down", "probe", "setup"} => hostapd = "none" /\ dnsmasq = "none"
  /\ pc = "settle" => dnsmasq = "none"
  /\ pc = "kill" => "exited" \in {hostapd, dnsmasq}

LEMMA WifiInvInit == Init => WifiInv
  BY DEF Init, WifiInv

\* Every way out of the script is through systemd's kill of the control group.
LEMMA ExitClears == Exit => WifiInv'
  BY DEF Exit, WifiInv

\* A child that ends was up: none of the states without daemons has one.
LEMMA ChildEndsKeeps == WifiInv /\ ChildEnds => WifiInv'
<1> SUFFICES ASSUME WifiInv, ChildEnds PROVE WifiInv'
  OBVIOUS
<1>1. CASE hostapd = "up" /\ UNCHANGED <<dnsmasq, pc>>
  BY <1>1 DEF WifiInv
<1>2. CASE dnsmasq = "up" /\ UNCHANGED <<hostapd, pc>>
  BY <1>2 DEF WifiInv
<1> QED
  BY <1>1, <1>2 DEF ChildEnds

LEMMA WifiInvNext == WifiInv /\ [Next]_vars => WifiInv'
<1> SUFFICES ASSUME WifiInv, [Next]_vars PROVE WifiInv'
  OBVIOUS
<1>1. CASE Start
  BY <1>1 DEF Start, WifiInv
<1>2. CASE ProbeFinds
  BY <1>2 DEF ProbeFinds, WifiInv
<1>3. CASE ProbeMisses
  <2>1. CASE UNCHANGED <<pc, hostapd, dnsmasq>>
    BY <2>1 DEF WifiInv
  <2> QED
    BY <1>3, <2>1, ExitClears DEF ProbeMisses
<1>4. CASE Setup
  <2>1. CASE pc = "setup" /\ pc' = "settle" /\ UNCHANGED dnsmasq
    BY <2>1 DEF WifiInv
  <2> QED
    BY <1>4, <2>1, ExitClears DEF Setup
<1>5. CASE StartDnsmasq
  BY <1>5 DEF StartDnsmasq, WifiInv
<1>6. CASE WaitReturns
  BY <1>6 DEF WaitReturns, WifiInv
<1>7. CASE WaitFails \/ KillBoth \/ StartFails
  BY <1>7, ExitClears DEF WaitFails, KillBoth, StartFails
<1>8. CASE ChildEnds
  BY <1>8, ChildEndsKeeps
<1>9. CASE DonglePlugged \/ UNCHANGED vars
  BY <1>9 DEF DonglePlugged, vars, WifiInv
<1> QED
  BY <1>1, <1>2, <1>3, <1>4, <1>5, <1>6, <1>7, <1>8, <1>9 DEF Next, Script

LEMMA WifiInvariant == Spec => []WifiInv
  BY WifiInvInit, WifiInvNext, PTL DEF Spec

\* No step of wifi-start.sh or of systemd's restart ends an access point of which
\* both halves serve: the kill at 50 comes after one of them has ended, and the
\* exits before it find no dnsmasq yet.
THEOREM ServingAccessPointStays == Spec => ServingIsLeftAlone
<1>1. ASSUME WifiInv, [Next]_vars PROVE [Serving => pc' # "down"]_vars
  <2> SUFFICES ASSUME Next, hostapd = "up", dnsmasq = "up" PROVE pc' # "down"
    BY <1>1 DEF Serving
  <2>1. pc \notin {"down", "probe", "setup", "settle", "kill"}
    BY <1>1 DEF WifiInv
  <2> QED
    BY <2>1 DEF Next, Script, Start, ProbeFinds, ProbeMisses, Setup, StartDnsmasq,
       WaitReturns, WaitFails, KillBoth, StartFails, ChildEnds, DonglePlugged
<1> QED
  BY <1>1, WifiInvariant, PTL DEF Spec, ServingIsLeftAlone

\* A daemon is only ever started where none of its kind is left, not even one
\* that has ended and whose status the script has not collected: what makes the
\* script's wait -n speak of this run's daemons.
StartedOnce ==
  [][/\ hostapd' = "up" => hostapd \in {"none", "up"}
     /\ dnsmasq' = "up" => dnsmasq \in {"none", "up"}]_vars

\* StartedOnce, of the two starts in wifi-start.sh: hostapd's because systemd's
\* kill of the control group (Exit) left none, dnsmasq's because of the window.
THEOREM DaemonsStartedOnce == Spec => StartedOnce
<1> DEFINE Once == /\ hostapd' = "up" => hostapd \in {"none", "up"}
                   /\ dnsmasq' = "up" => dnsmasq \in {"none", "up"}
<1>1. ASSUME WifiInv, [Next]_vars PROVE [Once]_vars
  <2>1. CASE Setup
    BY <1>1, <2>1 DEF Setup, Exit, WifiInv
  <2>2. CASE StartDnsmasq
    BY <1>1, <2>2 DEF StartDnsmasq, WifiInv
  <2>3. CASE ChildEnds
    <3>1. "up" \notin Endings
      BY DEF Endings
    <3> QED
      BY <3>1, <2>3 DEF ChildEnds
  <2>4. CASE Start \/ ProbeFinds \/ WaitReturns \/ DonglePlugged
    BY <2>4 DEF Start, ProbeFinds, WaitReturns, DonglePlugged
  <2>5. CASE ProbeMisses
    BY <2>5 DEF ProbeMisses, Exit
  <2>6. CASE WaitFails \/ KillBoth \/ StartFails
    BY <2>6 DEF WaitFails, KillBoth, StartFails, Exit
  <2>7. CASE UNCHANGED vars
    BY <2>7
  <2> QED
    BY <1>1, <2>1, <2>2, <2>3, <2>4, <2>5, <2>6, <2>7 DEF Next, Script
<1> QED
  BY <1>1, WifiInvariant, PTL DEF Spec, StartedOnce
=============================================================================
