----------------------------- MODULE WifiStart ------------------------------
(***************************************************************************)
(* wifi-start.sh under drone-wifi.service: wait for the dongle, configure  *)
(* it, run hostapd and dnsmasq, and end when one of them ends so that      *)
(* systemd starts the access point afresh.                                 *)
(*                                                                         *)
(* bash remembers the status of a child that exited before wait -n, but    *)
(* has forgotten one that a signal killed: wait -n then waits for the      *)
(* other child only.                                                       *)
(***************************************************************************)
EXTENDS Integers

CONSTANT ProbeMax  \* iterations of the interface loop, 30 in the script

VARIABLES
  pc,        \* "down", "probe", "setup", "settle", "wait" or "kill"
  tries,     \* iterations of the interface loop so far
  iface,     \* whether the interface is there
  hostapd,   \* "none", "up", "exited", "failed", "killed" or "forgotten"
  dnsmasq    \* the same

vars == <<pc, tries, iface, hostapd, dnsmasq>>

ASSUME WifiAssumption == ProbeMax \in Nat

Init ==
  /\ pc = "down"
  /\ tries = 0
  /\ iface \in BOOLEAN
  /\ hostapd = "none"
  /\ dnsmasq = "none"

\* The script exits and systemd kills what is left in the unit's control group.
\* The script relies on that: it does not kill anything on most of its ways out.
Exit ==
  /\ pc' = "down"
  /\ tries' = 0
  /\ hostapd' = "none"
  /\ dnsmasq' = "none"

\* Restart=always: the script runs again, unless wifi.env or rfkill fails it.
Start ==
  /\ pc = "down"
  /\ pc' = "probe"
  /\ UNCHANGED <<tries, iface, hostapd, dnsmasq>>

StartFails ==
  /\ pc = "probe"
  /\ tries = 0
  /\ Exit
  /\ UNCHANGED iface

ProbeFinds ==
  /\ pc = "probe"
  /\ iface
  /\ pc' = "setup"
  /\ UNCHANGED <<tries, iface, hostapd, dnsmasq>>

\* sleep 1 and look again, until the loop and the last check are through.
ProbeMisses ==
  /\ pc = "probe"
  /\ ~iface
  /\ \/ tries < ProbeMax /\ tries' = tries + 1 /\ UNCHANGED <<pc, hostapd, dnsmasq>>
     \/ tries = ProbeMax /\ Exit
  /\ UNCHANGED iface

\* ip addr and ip link need the interface; then hostapd starts.
Setup ==
  /\ pc = "setup"
  /\ \/ iface /\ hostapd' = "up" /\ pc' = "settle" /\ UNCHANGED <<tries, dnsmasq>>
     \/ ~iface /\ Exit
  /\ UNCHANGED iface

\* After sleep 2.
StartDnsmasq ==
  /\ pc = "settle"
  /\ dnsmasq' = "up"
  /\ pc' = "wait"
  /\ UNCHANGED <<tries, iface, hostapd>>

\* Fault: whatever makes wait -n return is taken for the end of a daemon.
WaitReturnsAnyhow ==
  /\ pc = "wait"
  /\ pc' = "kill"
  /\ UNCHANGED <<tries, iface, hostapd, dnsmasq>>

\* wait -n with status 0 falls through to the kill.
WaitReturns ==
  /\ pc = "wait"
  /\ "exited" \in {hostapd, dnsmasq}
  /\ pc' = "kill"
  /\ UNCHANGED <<tries, iface, hostapd, dnsmasq>>

\* Fault: the script waits for hostapd alone.
WaitFailsHostapdOnly ==
  /\ pc = "wait"
  /\ hostapd \in {"failed", "killed"}
  /\ Exit
  /\ UNCHANGED iface

\* Any other status ends the script at once, set -e.
WaitFails ==
  /\ pc = "wait"
  /\ {"failed", "killed"} \cap {hostapd, dnsmasq} # {}
  /\ Exit
  /\ UNCHANGED iface

KillBoth ==
  /\ pc = "kill"
  /\ Exit
  /\ UNCHANGED iface

-----------------------------------------------------------------------------
\* Ways a child can end: a signal is only seen by a wait that is under way.
Endings == {"exited", "failed", IF pc = "wait" THEN "killed" ELSE "forgotten"}

ChildEnds ==
  /\ \/ hostapd = "up" /\ hostapd' \in Endings /\ UNCHANGED dnsmasq
     \/ dnsmasq = "up" /\ dnsmasq' \in Endings /\ UNCHANGED hostapd
  /\ UNCHANGED <<pc, tries, iface>>

DonglePlugged ==
  /\ iface' = ~iface
  /\ UNCHANGED <<pc, tries, hostapd, dnsmasq>>

Script ==
  \/ Start \/ ProbeFinds \/ ProbeMisses \/ Setup \/ StartDnsmasq
  \/ WaitReturns \/ WaitFails \/ KillBoth

Next == Script \/ StartFails \/ ChildEnds \/ DonglePlugged

Spec == Init /\ [][Next]_vars

\* systemd restarts the script and the script runs; nothing else must happen.
FairSpec == Spec /\ WF_vars(Script)

-----------------------------------------------------------------------------
Serving == hostapd = "up" /\ dnsmasq = "up"

\* An access point whose two halves both serve is left alone: wherever the script
\* gives up, for want of the dongle, at the wait or after its kill, which looks at
\* nothing any more, one of the halves has ended or was never started (23-26,
\* 33-35, 49-50).
ServingIsLeftAlone == [][Serving => pc' # "down"]_vars

\* Once the dongle stays and nothing ends or fails any more, the access point
\* comes up and stays up, whatever ended in whichever order before; unless a signal
\* killed hostapd just before the wait, which then knows of dnsmasq alone.
AccessPointRecovers ==
  <>[]iface /\ <>[][~ChildEnds /\ ~StartFails]_vars
    => <>[]Serving \/ <>[](hostapd = "forgotten" /\ dnsmasq = "up")

\* An access point of which one half has ended does not stay that way, however
\* and in whichever order they end, as long as wait -n is told of one of them.
HalfUpEnds ==
  pc = "wait" /\ {"exited", "failed", "killed"} \cap {hostapd, dnsmasq} # {}
    ~> pc = "down"
=============================================================================
