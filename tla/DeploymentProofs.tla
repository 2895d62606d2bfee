-------------------------- MODULE DeploymentProofs --------------------------
(***************************************************************************)
(* Proofs about Deployment, for every set of profiles, any number of       *)
(* versions and any number of faults: the types, the honest summary of     *)
(* install.sh, and what update.sh completes and leaves alone.              *)
(***************************************************************************)
EXTENDS Deployment, TLAPS

FileVersions == Empty..MaxVersion

Module == [art : FileVersions, lock : FileVersions, env : EnvValues,
           conf : EnvValues, unit : FileVersions, enabled : BOOLEAN]

DiskType == [Modules -> Module]

RunType == [art : 0..MaxVersion, conf : EnvValues]

LEMMA ModulesAre ==
  Modules = {"wifi", "mavlink", "camera", "cellular", "telemetry"}
  BY DEF Modules, CANONICAL_MODULES, ToSet

LEMMA ServicesAre ==
  /\ Services = {"wifi", "mavlink", "camera", "telemetry"}
  /\ Services \subseteq Modules
  BY ModulesAre DEF Services

-----------------------------------------------------------------------------
(***************************************************************************)
(* Sequences of modules.                                                   *)
(***************************************************************************)
LEMMA ToSetConcat ==
  ASSUME NEW S, NEW s \in Seq(S), NEW t \in Seq(S)
  PROVE  s \o t \in Seq(S) /\ ToSet(s \o t) = ToSet(s) \cup ToSet(t)
<1>1. s \o t \in Seq(S) /\ Len(s \o t) = Len(s) + Len(t)
  OBVIOUS
<1>2. \A i \in 1..Len(s) : (s \o t)[i] = s[i]
  OBVIOUS
<1>3. \A i \in 1..Len(t) : (s \o t)[Len(s) + i] = t[i]
  OBVIOUS
<1>4. \A i \in 1..Len(s \o t) : i \in 1..Len(s) \/ i - Len(s) \in 1..Len(t)
  BY <1>1
<1>5. ASSUME NEW x \in ToSet(s \o t) PROVE x \in ToSet(s) \cup ToSet(t)
  <2>1. PICK i \in 1..Len(s \o t) : x = (s \o t)[i]
    BY <1>1 DEF ToSet
  <2>2. CASE i \in 1..Len(s)
    BY <1>2, <2>1, <2>2 DEF ToSet
  <2>3. CASE i - Len(s) \in 1..Len(t)
    <3>1. Len(s) + (i - Len(s)) = i
      OBVIOUS
    <3> QED
      BY <1>3, <2>1, <2>3, <3>1 DEF ToSet
  <2> QED
    BY <1>4, <2>2, <2>3
<1>6. ASSUME NEW x \in ToSet(s) \cup ToSet(t) PROVE x \in ToSet(s \o t)
  <2>1. CASE x \in ToSet(s)
    BY <1>1, <1>2, <2>1 DEF ToSet
  <2>2. CASE x \in ToSet(t)
    <3>1. PICK i \in 1..Len(t) : x = t[i]
      BY <2>2 DEF ToSet
    <3>2. Len(s) + i \in 1..Len(s \o t)
      BY <1>1
    <3> QED
      BY <1>1, <1>3, <3>1, <3>2 DEF ToSet
  <2> QED
    BY <2>1, <2>2
<1> QED
  BY <1>1, <1>5, <1>6

LEMMA ToSetHeadTail ==
  ASSUME NEW S, NEW s \in Seq(S), s # << >>
  PROVE  /\ Head(s) \in S /\ Tail(s) \in Seq(S)
         /\ ToSet(s) = {Head(s)} \cup ToSet(Tail(s))
<1>1. /\ Head(s) \in S /\ Tail(s) \in Seq(S) /\ Len(Tail(s)) = Len(s) - 1
      /\ Len(s) \in Nat \ {0} /\ Head(s) = s[1]
  OBVIOUS
<1>2. \A i \in 1..Len(Tail(s)) : Tail(s)[i] = s[i + 1]
  OBVIOUS
<1>3. ASSUME NEW x \in ToSet(s) PROVE x \in {Head(s)} \cup ToSet(Tail(s))
  <2>1. PICK i \in 1..Len(s) : x = s[i]
    BY DEF ToSet
  <2>2. CASE i = 1
    BY <1>1, <2>1, <2>2
  <2>3. CASE i # 1
    <3>1. i - 1 \in 1..Len(Tail(s)) /\ (i - 1) + 1 = i
      BY <1>1, <2>3
    <3>2. x = Tail(s)[i - 1] /\ i - 1 \in DOMAIN Tail(s)
      BY <1>1, <1>2, <2>1, <3>1
    <3> QED
      BY <3>2 DEF ToSet
  <2> QED
    BY <2>2, <2>3
<1>4. ASSUME NEW x \in {Head(s)} \cup ToSet(Tail(s)) PROVE x \in ToSet(s)
  <2>1. CASE x = Head(s)
    BY <1>1, <2>1 DEF ToSet
  <2>2. CASE x \in ToSet(Tail(s))
    <3>1. PICK i \in 1..Len(Tail(s)) : x = Tail(s)[i]
      BY <1>1, <2>2 DEF ToSet
    <3>2. i + 1 \in 1..Len(s)
      BY <1>1
    <3> QED
      BY <1>2, <3>1, <3>2 DEF ToSet
  <2> QED
    BY <2>1, <2>2
<1> QED
  BY <1>1, <1>3, <1>4

LEMMA IfIs ==
  ASSUME NEW S, NEW m \in S, NEW b
  PROVE  If(b, m) \in Seq(S) /\ ToSet(If(b, m)) = {x \in {m} : b}
<1>1. CASE b
  BY <1>1 DEF If, ToSet
<1>2. CASE ~b
  BY <1>2 DEF If, ToSet
<1> QED
  BY <1>1, <1>2

LEMMA ToSetEmpty ==
  ASSUME NEW S, NEW s \in Seq(S)
  PROVE  s = << >> <=> ToSet(s) = {}
<1>1. s # << >> => s[1] \in ToSet(s)
  BY DEF ToSet
<1>2. ToSet(<< >>) = {}
  BY DEF ToSet
<1> QED
  BY <1>1, <1>2

\* install.sh selects what the profile names, and something.
LEMMA SelectedIs ==
  ASSUME NEW p \in DOMAIN Profiles
  PROVE  /\ Selected(p) \in Seq(Modules) /\ Selected(p) # << >>
         /\ ToSet(Selected(p)) = Profiles[p]
<1> DEFINE W(m) == If(m \in Profiles[p], m)
<1>1. ASSUME NEW m \in Modules
      PROVE  W(m) \in Seq(Modules) /\ ToSet(W(m)) = {x \in {m} : x \in Profiles[p]}
  <2>1. W(m) \in Seq(Modules) /\ ToSet(W(m)) = {x \in {m} : m \in Profiles[p]}
    BY IfIs
  <2> QED
    BY <2>1
<1> HIDE DEF W
<1> DEFINE s2 == W("wifi") \o W("mavlink")
           s3 == s2 \o W("camera")
           s4 == s3 \o W("cellular")
           s5 == s4 \o W("telemetry")
<1>2. s2 \in Seq(Modules) /\ ToSet(s2) = ToSet(W("wifi")) \cup ToSet(W("mavlink"))
  BY <1>1, ModulesAre, ToSetConcat
<1>3. s3 \in Seq(Modules) /\ ToSet(s3) = ToSet(s2) \cup ToSet(W("camera"))
  <2> HIDE DEF s2
  <2> QED BY <1>1, <1>2, ModulesAre, ToSetConcat
<1>4. s4 \in Seq(Modules) /\ ToSet(s4) = ToSet(s3) \cup ToSet(W("cellular"))
  <2> HIDE DEF s3
  <2> QED BY <1>1, <1>3, ModulesAre, ToSetConcat
<1>5. s5 \in Seq(Modules) /\ ToSet(s5) = ToSet(s4) \cup ToSet(W("telemetry"))
  <2> HIDE DEF s4
  <2> QED BY <1>1, <1>4, ModulesAre, ToSetConcat
<1>6. Profiles[p] \subseteq Modules /\ Profiles[p] # {}
  BY ProfilesAssumption
<1>7. Selected(p) = s5
  BY DEF Selected, W
<1>8. ToSet(s5) = Profiles[p]
  <2> HIDE DEF s2, s3, s4, s5
  <2> QED BY <1>1, <1>2, <1>3, <1>4, <1>5, <1>6, ModulesAre
<1> HIDE DEF s5
<1> QED
  BY <1>5, <1>6, <1>7, <1>8, ToSetEmpty

\* update.sh goes through modules of the profile on record only.
LEMMA OrdersAre ==
  /\ UpdateOrder \in Seq(Services)
  /\ ToSet(UpdateOrder) = {m \in Services : HasModule(UpdateProfile, m)}
  /\ RestartOrder \in Seq(Services)
  /\ ToSet(RestartOrder) = {m \in Services \ {"wifi"} : HasModule(UpdateProfile, m)}
<1>1. ASSUME NEW m \in Services
      PROVE  /\ OnRecord(m) \in Seq(Services)
             /\ ToSet(OnRecord(m)) = {x \in {m} : HasModule(UpdateProfile, x)}
  <2>1. /\ OnRecord(m) \in Seq(Services)
        /\ ToSet(OnRecord(m)) = {x \in {m} : HasModule(UpdateProfile, m)}
    BY IfIs DEF OnRecord
  <2> QED
    BY <2>1
<1> DEFINE s2 == OnRecord("wifi") \o OnRecord("mavlink")
           s3 == s2 \o OnRecord("camera")
           s4 == s3 \o OnRecord("telemetry")
           r2 == OnRecord("camera") \o OnRecord("telemetry")
           r3 == r2 \o OnRecord("mavlink")
<1>2. s2 \in Seq(Services) /\ ToSet(s2) = ToSet(OnRecord("wifi")) \cup ToSet(OnRecord("mavlink"))
  BY <1>1, ServicesAre, ToSetConcat
<1>3. s3 \in Seq(Services) /\ ToSet(s3) = ToSet(s2) \cup ToSet(OnRecord("camera"))
  <2> HIDE DEF s2
  <2> QED BY <1>1, <1>2, ServicesAre, ToSetConcat
<1>4. s4 \in Seq(Services) /\ ToSet(s4) = ToSet(s3) \cup ToSet(OnRecord("telemetry"))
  <2> HIDE DEF s3
  <2> QED BY <1>1, <1>3, ServicesAre, ToSetConcat
<1>5. r2 \in Seq(Services) /\ ToSet(r2) = ToSet(OnRecord("camera")) \cup ToSet(OnRecord("telemetry"))
  BY <1>1, ServicesAre, ToSetConcat
<1>6. r3 \in Seq(Services) /\ ToSet(r3) = ToSet(r2) \cup ToSet(OnRecord("mavlink"))
  <2> HIDE DEF r2
  <2> QED BY <1>1, <1>5, ServicesAre, ToSetConcat
<1>7. UpdateOrder = s4 /\ RestartOrder = r3
  BY DEF UpdateOrder, RestartOrder
<1> HIDE DEF s2, s3, s4, r2, r3
<1>8. ToSet(s4) = {m \in Services : HasModule(UpdateProfile, m)}
  BY <1>1, <1>2, <1>3, <1>4, ServicesAre
<1>9. ToSet(r3) = {m \in Services \ {"wifi"} : HasModule(UpdateProfile, m)}
  BY <1>1, <1>5, <1>6, ServicesAre
<1> QED
  BY <1>4, <1>6, <1>7, <1>8, <1>9

-----------------------------------------------------------------------------
(***************************************************************************)
(* The effect of one step on the disk and on the services.                 *)
(***************************************************************************)
\* What a step writes of the module it belongs to, and that it writes of no other.
LEMMA WriteIs ==
  ASSUME NEW d \in DiskType, NEW m \in Modules, NEW step, repo \in 1..MaxVersion,
         MaxVersion \in Nat
  PROVE  /\ Write(d, m, step) \in DiskType
         /\ \A n \in Modules : n # m => Write(d, m, step)[n] = d[n]
         /\ Write(d, m, step)[m].art = IF step = "stage" THEN repo ELSE d[m].art
         /\ Write(d, m, step)[m].lock = IF step = "lock" THEN repo ELSE d[m].lock
         /\ Write(d, m, step)[m].env = IF step = "env" THEN "template" ELSE d[m].env
         /\ Write(d, m, step)[m].conf = IF step = "config" THEN Rendered(d, m) ELSE d[m].conf
         /\ Write(d, m, step)[m].unit = IF step = "unit" THEN repo ELSE d[m].unit
         /\ step = "enable" => Write(d, m, step)[m].enabled
         /\ step # "enable" => Write(d, m, step)[m].enabled = d[m].enabled
<1> USE DEF DiskType
<1>1. Rendered(d, m) \in EnvValues
  BY DEF Module, Rendered
<1>2. repo \in FileVersions /\ "template" \in EnvValues
  BY DEF FileVersions, Empty, EnvValues
<1>3. CASE step = "stage"
  <2>1. Write(d, m, step) = [d EXCEPT ![m].art = repo]
    BY <1>3 DEF Write
  <2> QED BY <1>2, <1>3, <2>1 DEF Module
<1>4. CASE step = "env"
  <2>1. Write(d, m, step) = [d EXCEPT ![m].env = "template"]
    BY <1>4 DEF Write
  <2> QED BY <1>2, <1>4, <2>1 DEF Module
<1>5. CASE step = "config"
  <2>1. Write(d, m, step) = [d EXCEPT ![m].conf = Rendered(d, m)]
    BY <1>5 DEF Write
  <2> QED BY <1>1, <1>5, <2>1 DEF Module
<1>6. CASE step = "unit"
  <2>1. Write(d, m, step) = [d EXCEPT ![m].unit = repo]
    BY <1>6 DEF Write
  <2> QED BY <1>2, <1>6, <2>1 DEF Module
<1>7. CASE step = "enable"
  <2>1. Write(d, m, step) = [d EXCEPT ![m].enabled = TRUE]
    BY <1>7 DEF Write
  <2> QED BY <1>7, <2>1 DEF Module
<1>8. CASE step = "lock"
  <2>1. Write(d, m, step) = [d EXCEPT ![m].lock = repo]
    BY <1>8 DEF Write
  <2> QED BY <1>2, <1>8, <2>1 DEF Module
<1>9. CASE step \notin {"stage", "lock", "env", "config", "unit", "enable"}
  <2>1. Write(d, m, step) = d
    BY <1>9 DEF Write
  <2> QED BY <1>9, <2>1
<1> QED
  BY <1>3, <1>4, <1>5, <1>6, <1>7, <1>8, <1>9

\* A torn write harms the one file of the one module.
LEMMA TornIs ==
  ASSUME NEW d \in DiskType, NEW m \in Modules, NEW step, MaxVersion \in Nat
  PROVE  /\ Torn(d, m, step) \in DiskType
         /\ \A n \in Modules : n # m => Torn(d, m, step)[n] = d[n]
<1> USE DEF DiskType
<1>1. Empty \in FileVersions /\ "empty" \in EnvValues
  BY DEF FileVersions, Empty, EnvValues
<1>2. \/ Torn(d, m, step) = d
      \/ Torn(d, m, step) = [d EXCEPT ![m].art = Empty]
      \/ Torn(d, m, step) = [d EXCEPT ![m].lock = Empty]
      \/ Torn(d, m, step) = [d EXCEPT ![m].env = "empty"]
      \/ Torn(d, m, step) = [d EXCEPT ![m].conf = "empty"]
      \/ Torn(d, m, step) = [d EXCEPT ![m].unit = Empty]
  BY DEF Torn
<1>3. [d EXCEPT ![m].art = Empty] \in DiskType    BY <1>1 DEF Module
<1>4. [d EXCEPT ![m].env = "empty"] \in DiskType  BY <1>1 DEF Module
<1>5. [d EXCEPT ![m].conf = "empty"] \in DiskType BY <1>1 DEF Module
<1>6. [d EXCEPT ![m].unit = Empty] \in DiskType   BY <1>1 DEF Module
<1>7. [d EXCEPT ![m].lock = Empty] \in DiskType   BY <1>1 DEF Module
<1>8. Torn(d, m, step) \in DiskType
  BY <1>2, <1>3, <1>4, <1>5, <1>6, <1>7
<1>9. \A n \in Modules : n # m => Torn(d, m, step)[n] = d[n]
  BY <1>2
<1> QED
  BY <1>8, <1>9

LEMMA StartedType ==
  ASSUME NEW d \in DiskType, NEW m \in Services, MaxVersion \in Nat
  PROVE  Started(d, m) \in RunType
<1> DEFINE conf == IF m \in {"wifi", "mavlink"} THEN d[m].conf ELSE d[m].env
<1>1. d[m].art \in Int /\ d[m].art <= MaxVersion /\ d[m].conf \in EnvValues /\ d[m].env \in EnvValues
  BY ServicesAre DEF DiskType, Module, FileVersions, Empty
<1>2. Off \in RunType
  BY DEF Off, RunType, EnvValues
<1>3. ~(d[m].art <= 0) => [art |-> d[m].art, conf |-> conf] \in RunType
  BY <1>1 DEF RunType
<1>4. Started(d, m) = Off \/ (~(d[m].art <= 0) /\ Started(d, m) = [art |-> d[m].art, conf |-> conf])
  BY DEF Started
<1> QED
  BY <1>2, <1>3, <1>4

LEMMA RestartedType ==
  ASSUME NEW d \in DiskType, NEW r \in [Services -> RunType], NEW m, MaxVersion \in Nat
  PROVE  Restarted(d, r, m) \in [Services -> RunType]
  BY StartedType DEF Restarted

\* A service that runs what it would be started from still does after any restart.
LEMMA RestartedKeeps ==
  ASSUME NEW d, NEW r \in [Services -> RunType], NEW m, NEW s \in Services,
         s = m \/ r[s] = Started(d, s)
  PROVE  Restarted(d, r, m)[s] = Started(d, s)
  BY DEF Restarted

-----------------------------------------------------------------------------
(***************************************************************************)
(* The inductive invariant.  A script is somewhere in its list of steps    *)
(* for a module, and what the steps before that point wrote is still on    *)
(* the disk: nothing of it is undone until the list is through.            *)
(***************************************************************************)
\* What a rendered file may hold instead of the environment file's values: the
\* setup scripts go on with an empty one, update.sh does not.
Blank == {"empty"}

\* What is true of the disk once the step has been taken.
Done(m, step, failed) ==
  /\ step = "stage" => disk[m].art = repo
  /\ step = "lock" => disk[m].lock = repo
  /\ step = "unit" => disk[m].unit = repo
  /\ step = "enable" => disk[m].enabled
  /\ step = "env" => disk[m].env = "template"
  /\ step = "config" /\ m \in {"wifi", "mavlink"} => disk[m].conf \in {disk[m].env} \cup failed

AllDone(m, list, failed) == \A j \in 1..Len(list) : Done(m, list[j], failed)

\* k steps of the list are done, the rest is left.
Underway(m, list, failed) ==
  \E k \in 0..(Len(list) - 1) :
    /\ steps = SubSeq(list, k + 1, Len(list))
    /\ \A j \in 1..k : Done(m, list[j], failed)

\* What a step of module m makes of the disk, its rendering having failed or not.
StepEffect(m, step, failed) ==
  /\ \A n \in Modules : n # m => disk'[n] = disk[n]
  /\ disk'[m].art = IF step = "stage" THEN repo ELSE disk[m].art
  /\ disk'[m].lock = IF step = "lock" THEN repo ELSE disk[m].lock
  /\ disk'[m].env = IF step = "env" THEN "template" ELSE disk[m].env
  /\ step = "config" => disk'[m].conf \in {Rendered(disk, m)} \cup failed
  /\ step # "config" => disk'[m].conf = disk[m].conf
  /\ disk'[m].unit = IF step = "unit" THEN repo ELSE disk[m].unit
  /\ step = "enable" => disk'[m].enabled
  /\ step # "enable" => disk'[m].enabled = disk[m].enabled

\* install.sh: a module that still has no verdict is still to come; one with
\* the verdict OK has every step of its script behind it.
InstallInv ==
  /\ pc = "install" =>
       mods # << >> /\ \E m \in Modules : m = Head(mods) /\ Underway(m, SetupSteps[m], Blank)
  /\ pc \in {"install", "record", "summary"} =>
       /\ asked \in DOMAIN Profiles
       /\ \A m \in Profiles[asked] :
            result[m] # "none" \/ (pc = "install" /\ m \in ToSet(mods))
       /\ \A m \in Modules : result[m] = "OK" => AllDone(m, SetupSteps[m], Blank)

Recorded == {m \in Services : HasModule(UpdateProfile, m)}

\* update.sh: it works on modules of the record only; one that is not to come
\* any more is done, and then restarted or still to be restarted.
UpdateInv ==
  pc = "update" =>
    /\ mods \in Seq(Recorded)
    /\ mods # << >> => \E m \in Services : m = Head(mods) /\ Underway(m, UpdateSteps[m], {})
    /\ \A m \in Recorded : m \in ToSet(mods) \/ AllDone(m, UpdateSteps[m], {})
    /\ mods = << >> =>
         /\ steps \in Seq(Recorded)
         /\ \A m \in Recorded \ {"wifi"} : m \in ToSet(steps) \/ run[m] = Started(disk, m)

DeployInv == TypeOK /\ InstallInv /\ UpdateInv

-----------------------------------------------------------------------------
(***************************************************************************)
(* What the lists of steps contain.                                        *)
(***************************************************************************)
\* A rendered file is not left behind by a later copy of its template.
RendersLast(m, list) ==
  m \in {"wifi", "mavlink"} =>
    \A i, j \in 1..Len(list) : list[i] = "config" /\ list[j] = "env" => j < i

LEMMA SetupLists ==
  ASSUME NEW m \in Modules
  PROVE  LET list == SetupSteps[m] IN
         /\ list \in Seq(StepNames) /\ Len(list) > 0
         /\ RendersLast(m, list)
         /\ Contains(list, "env")
         /\ m \in Services => Contains(list, "stage") /\ Contains(list, "unit")
                              /\ Contains(list, "enable")
         /\ m = "telemetry" => Contains(list, "lock")
         /\ m \in {"wifi", "mavlink"} => Contains(list, "config") /\ Last(list) # "config"
<1> DEFINE list == SetupSteps[m]
<1>1. CASE m = "wifi"
  <2>1. /\ list \in Seq(StepNames) /\ Len(list) = 7
        /\ list[1] = "deps" /\ list[2] = "stage" /\ list[3] = "env"
        /\ list[4] = "config" /\ list[5] = "unit" /\ list[6] = "enable"
        /\ list[7] = "start"
    BY <1>1 DEF StepNames, SetupSteps, SetupWifi
  <2> QED
    BY <1>1, <2>1 DEF Contains, RendersLast, Last
<1>2. CASE m = "mavlink"
  <2>1. /\ list \in Seq(StepNames) /\ Len(list) = 6
        /\ list[1] = "stage" /\ list[2] = "env" /\ list[3] = "config"
        /\ list[4] = "unit" /\ list[5] = "enable" /\ list[6] = "start"
    BY <1>2 DEF StepNames, SetupSteps, SetupMavlink
  <2> QED
    BY <1>2, <2>1 DEF Contains, RendersLast, Last
<1>3. CASE m = "camera"
  <2>1. /\ list \in Seq(StepNames) /\ Len(list) = 6
        /\ list[1] = "deps" /\ list[2] = "stage" /\ list[3] = "env"
        /\ list[4] = "unit" /\ list[5] = "enable" /\ list[6] = "start"
    BY <1>3 DEF StepNames, SetupSteps, SetupCamera
  <2> QED
    BY <1>3, <2>1 DEF Contains, RendersLast, Last
<1>4. CASE m = "cellular"
  <2>1. /\ list \in Seq(StepNames) /\ Len(list) = 3
        /\ list[1] = "deps" /\ list[2] = "env" /\ list[3] = "config"
    BY <1>4 DEF StepNames, SetupSteps, SetupCellular
  <2> QED
    BY <1>4, <2>1, ServicesAre DEF Contains, RendersLast, Last
<1>5. CASE m = "telemetry"
  <2>1. /\ list \in Seq(StepNames) /\ Len(list) = 8
        /\ list[1] = "deps" /\ list[2] = "lock" /\ list[3] = "stage" /\ list[4] = "deps"
        /\ list[5] = "env" /\ list[6] = "unit" /\ list[7] = "enable"
        /\ list[8] = "start"
    BY <1>5 DEF StepNames, SetupSteps, SetupTelemetry
  <2> QED
    BY <1>5, <2>1 DEF Contains, RendersLast, Last
<1> QED
  BY <1>1, <1>2, <1>3, <1>4, <1>5, ModulesAre

LEMMA UpdateLists ==
  ASSUME NEW m \in Services
  PROVE  LET list == UpdateSteps[m] IN
         /\ list \in Seq(StepNames) /\ Len(list) > 0
         /\ RendersLast(m, list)
         /\ Contains(list, "stage") /\ Contains(list, "unit")
         /\ m = "mavlink" => Contains(list, "config")
<1> DEFINE list == UpdateSteps[m]
<1>1. CASE m = "wifi"
  <2>1. /\ list \in Seq(StepNames) /\ Len(list) = 2
        /\ list[1] = "stage" /\ list[2] = "unit"
    BY <1>1 DEF StepNames, UpdateSteps
  <2> QED
    BY <1>1, <2>1 DEF Contains, RendersLast
<1>2. CASE m = "mavlink"
  <2>1. /\ list \in Seq(StepNames) /\ Len(list) = 3
        /\ list[1] = "stage" /\ list[2] = "unit" /\ list[3] = "config"
    BY <1>2 DEF StepNames, UpdateSteps
  <2> QED
    BY <1>2, <2>1 DEF Contains, RendersLast
<1>3. CASE m = "camera"
  <2>1. /\ list \in Seq(StepNames) /\ Len(list) = 2
        /\ list[1] = "stage" /\ list[2] = "unit"
    BY <1>3 DEF StepNames, UpdateSteps
  <2> QED
    BY <1>3, <2>1 DEF Contains, RendersLast
<1>4. CASE m = "telemetry"
  <2>1. /\ list \in Seq(StepNames) /\ Len(list) = 3
        /\ list[1] = "stage" /\ list[2] = "unit" /\ list[3] = "deps"
    BY <1>4 DEF StepNames, UpdateSteps
  <2> QED
    BY <1>4, <2>1 DEF Contains, RendersLast
<1> QED
  BY <1>1, <1>2, <1>3, <1>4, ServicesAre

-----------------------------------------------------------------------------
(***************************************************************************)
(* One step of a list.                                                     *)
(***************************************************************************)
LEMMA TailOfRest ==
  ASSUME NEW S, NEW list \in Seq(S), NEW k \in 0..(Len(list) - 1)
  PROVE  LET rest == SubSeq(list, k + 1, Len(list)) IN
         /\ rest \in Seq(S) /\ Len(rest) = Len(list) - k
         /\ Head(rest) = list[k + 1]
         /\ Tail(rest) = SubSeq(list, k + 2, Len(list))
<1> DEFINE rest == SubSeq(list, k + 1, Len(list))
           next == SubSeq(list, k + 2, Len(list))
<1>1. rest \in Seq(S) /\ Len(rest) = Len(list) - k
  OBVIOUS
<1>2. \A i \in 1..(Len(list) - k) : rest[i] = list[k + i]
  OBVIOUS
<1>3. next \in Seq(S) /\ Len(next) = Len(list) - k - 1
  OBVIOUS
<1>4. \A i \in 1..(Len(list) - k - 1) : next[i] = list[k + 1 + i]
  OBVIOUS
<1>5. Head(rest) = list[k + 1]
  <2> HIDE DEF rest
  <2> QED BY <1>1, <1>2
<1>6. Tail(rest) \in Seq(S) /\ Len(Tail(rest)) = Len(list) - k - 1
  <2> HIDE DEF rest
  <2> QED BY <1>1
<1>7. ASSUME NEW i \in 1..(Len(list) - k - 1) PROVE Tail(rest)[i] = next[i]
  <2>1. Tail(rest)[i] = rest[i + 1]
    <3> HIDE DEF rest
    <3> QED BY <1>1
  <2>2. rest[i + 1] = list[k + (i + 1)] /\ next[i] = list[k + 1 + i]
    BY <1>2, <1>4
  <2>3. k + (i + 1) = k + 1 + i
    OBVIOUS
  <2> QED BY <2>1, <2>2, <2>3
<1>8. Len(list) - k - 1 \in Nat
  OBVIOUS
<1>9. Tail(rest) = next
  <2> HIDE DEF rest, next
  <2> DEFINE t == Tail(rest)
             n == Len(list) - k - 1
  <2>1. t \in Seq(S) /\ next \in Seq(S) /\ Len(t) = n /\ Len(next) = n /\ n \in Nat
    BY <1>3, <1>6, <1>8
  <2>2. \A i \in 1..n : t[i] = next[i]
    BY <1>7
  <2> HIDE DEF n, t
  <2>3. t = next
    BY <2>1, <2>2
  <2> QED BY <2>3 DEF t
<1> QED
  BY <1>1, <1>5, <1>9

LEMMA WriteEffect ==
  ASSUME NEW m \in Modules, NEW step, NEW failed, disk \in DiskType,
         repo \in 1..MaxVersion, MaxVersion \in Nat, disk' = Write(disk, m, step)
  PROVE  StepEffect(m, step, failed)
BY WriteIs DEF StepEffect

LEMMA RenderEffect ==
  ASSUME NEW m \in {"wifi", "mavlink"}, disk \in DiskType, disk' = Torn(disk, m, "config")
  PROVE  StepEffect(m, "config", Blank)
<1>1. disk' = [disk EXCEPT ![m].conf = "empty"]
  BY DEF Torn
<1> QED
  BY <1>1, ModulesAre DEF StepEffect, DiskType, Module, Blank

\* The step at hand is taken: what was done stays done, and this step as well.
LEMMA StepTaken ==
  ASSUME NEW m \in Modules, NEW S, NEW list \in Seq(S), NEW failed,
         Underway(m, list, failed), RendersLast(m, list),
         StepEffect(m, Head(steps), failed), repo' = repo
  PROVE  /\ steps # << >> /\ Head(steps) \in S
         /\ Len(steps) > 1 /\ steps' = Tail(steps) => Underway(m, list, failed)'
         /\ ~(Len(steps) > 1) => AllDone(m, list, failed)' /\ Head(steps) = Last(list)
<1>1. PICK k \in 0..(Len(list) - 1) :
        steps = SubSeq(list, k + 1, Len(list)) /\ \A j \in 1..k : Done(m, list[j], failed)
  BY DEF Underway
<1>2. /\ steps \in Seq(S) /\ Len(steps) = Len(list) - k
      /\ Head(steps) = list[k + 1]
      /\ Tail(steps) = SubSeq(list, k + 2, Len(list))
  BY <1>1, TailOfRest
<1> DEFINE step == list[k + 1]
<1>3. StepEffect(m, step, failed)
  BY <1>2
<1>4. k + 1 \in 1..Len(list) /\ k \in Nat /\ Len(list) \in Nat
  OBVIOUS
<1>5. ASSUME NEW j \in 1..(k + 1) PROVE Done(m, list[j], failed)'
  <2>1. CASE j = k + 1
    BY <1>3, <2>1 DEF Done, Rendered, StepEffect
  <2>2. CASE j # k + 1
    <3>1. Done(m, list[j], failed) /\ j \in 1..Len(list) /\ ~(k + 1 < j)
      BY <1>1, <1>4, <2>2
    <3>2. list[j] = "config" /\ m \in {"wifi", "mavlink"} => step # "env"
      BY <1>4, <3>1 DEF RendersLast
    <3> HIDE DEF step
    <3> QED
      BY <1>3, <3>1, <3>2 DEF Done, Rendered, StepEffect
  <2> QED
    BY <2>1, <2>2
<1>6. ASSUME Len(steps) > 1, steps' = Tail(steps) PROVE Underway(m, list, failed)'
  <2>1. k + 1 \in 0..(Len(list) - 1)
    BY <1>2, <1>4, <1>6
  <2>2. steps' = SubSeq(list, (k + 1) + 1, Len(list))
    <3>1. k + 2 = (k + 1) + 1
      OBVIOUS
    <3> QED BY <1>2, <1>6, <3>1
  <2> QED
    BY <1>5, <2>1, <2>2 DEF Underway
<1>7. ASSUME ~(Len(steps) > 1) PROVE AllDone(m, list, failed)' /\ Head(steps) = Last(list)
  <2>1. Len(list) = k + 1
    BY <1>2, <1>4, <1>7
  <2> QED
    BY <1>2, <1>5, <2>1 DEF AllDone, Last
<1>8. steps # << >> /\ Head(steps) \in S
  BY <1>2, <1>4
<1> QED
  BY <1>6, <1>7, <1>8

\* A list that is through is not undone by a step of another module, nor by
\* one more of its own, as long as it contains the copy of the template.
LEMMA DoneStays ==
  ASSUME NEW m \in Modules, NEW n \in Modules, NEW list, NEW step, NEW failed,
         AllDone(n, list, failed), n = m => Contains(list, "env"),
         StepEffect(m, step, failed), repo' = repo
  PROVE  AllDone(n, list, failed)'
<1> SUFFICES ASSUME NEW j \in 1..Len(list) PROVE Done(n, list[j], failed)'
  BY DEF AllDone
<1>1. Done(n, list[j], failed)
  BY DEF AllDone
<1>2. CASE n # m
  <2>1. disk'[n] = disk[n]
    BY <1>2 DEF StepEffect
  <2> QED
    BY <1>1, <2>1 DEF Done
<1>3. CASE n = m
  <2>1. disk[n].env = "template"
    BY <1>3 DEF AllDone, Contains, Done
  <2>2. Done(m, list[j], failed)
    BY <1>1, <1>3
  <2>3. Done(m, list[j], failed)'
    BY <1>3, <2>1, <2>2 DEF Done, Rendered, StepEffect
  <2> QED
    BY <1>3, <2>3
<1> QED
  BY <1>2, <1>3

-----------------------------------------------------------------------------
(***************************************************************************)
(* The actions, one by one.                                                *)
(***************************************************************************)
LEMMA Bounds ==
  /\ MaxVersion \in Nat \ {0} /\ MaxEvents \in Nat
  /\ 0 \in 0..MaxVersion /\ 1 \in 1..MaxVersion /\ 0 \in Empty..MaxVersion
<1>1. MaxVersion \in Nat \ {0} /\ MaxEvents \in Nat
  BY ProfilesAssumption
<1> QED
  BY <1>1 DEF Empty

\* TypeOK but for the disk and the services.
ScriptType ==
  /\ repo \in 1..MaxVersion
  /\ record \in DOMAIN Profiles \cup {NoFile, ""}
  /\ pc \in {"idle", "install", "record", "summary", "update"}
  /\ asked \in DOMAIN Profiles \cup {""}
  /\ mods \in Seq(Modules)
  /\ steps \in Seq(StepNames \cup Services)
  /\ result \in [Modules -> {"none", "OK", "FAILED"}]
  /\ status \in {-1, 0, 1}
  /\ events \in 0..MaxEvents

LEMMA TypeParts ==
  ASSUME TypeOK
  PROVE  ScriptType /\ disk \in DiskType /\ run \in [Services -> RunType]
  BY DEF TypeOK, ScriptType, DiskType, Module, FileVersions, RunType

LEMMA TypeFromParts ==
  ASSUME ScriptType', disk' \in DiskType, run' \in [Services -> RunType]
  PROVE  TypeOK'
  BY DEF TypeOK, ScriptType, DiskType, Module, FileVersions, RunType

LEMMA EventCounts ==
  ASSUME TypeOK, Event
  PROVE  events' \in 0..MaxEvents
<1>1. events \in 0..MaxEvents
  BY TypeParts DEF ScriptType
<1> QED
  BY <1>1, Bounds DEF Event

\* A list that has just been started.
LEMMA ListStarts ==
  ASSUME NEW S, NEW list \in Seq(S), Len(list) > 0, steps' = list, NEW m, NEW failed
  PROVE  Underway(m, list, failed)'
<1>1. list = SubSeq(list, 0 + 1, Len(list)) /\ 0 \in 0..(Len(list) - 1)
  OBVIOUS
<1>2. \A j \in 1..0 : Done(m, list[j], failed)'
  OBVIOUS
<1> QED
  BY <1>1, <1>2 DEF Underway

\* What nothing touches.
LEMMA Frame ==
  ASSUME UNCHANGED <<repo, disk>>, NEW m, NEW list, NEW failed
  PROVE  /\ AllDone(m, list, failed) => AllDone(m, list, failed)'
         /\ Underway(m, list, failed) /\ UNCHANGED steps => Underway(m, list, failed)'
<1>1. \A step : Done(m, step, failed) => Done(m, step, failed)'
  BY DEF Done
<1> QED
  BY <1>1 DEF AllDone, Underway

LEMMA InitKeeps == Init => DeployInv
<1> SUFFICES ASSUME Init PROVE DeployInv
  OBVIOUS
<1>1. TypeOK
  <2>1. << >> \in Seq(Modules) /\ << >> \in Seq(StepNames \cup Services)
    OBVIOUS
  <2>2. ScriptType
    <3>1. repo = 1 /\ events = 0 /\ status = -1
      BY DEF Init
    <3>2. repo \in 1..MaxVersion
      BY <3>1, Bounds
    <3>3. events \in 0..MaxEvents
      BY <3>1, Bounds
    <3>4. status \in {-1, 0, 1}
      BY <3>1
    <3>5. result \in [Modules -> {"none", "OK", "FAILED"}]
      BY DEF Init
    <3> QED
      BY <2>1, <3>2, <3>3, <3>4, <3>5 DEF Init, ScriptType
  <2>3. Off \in RunType
    BY Bounds DEF Off, RunType, EnvValues
  <2>4. [art |-> 0, lock |-> 0, env |-> "none", conf |-> "none", unit |-> 0,
         enabled |-> FALSE] \in Module
    BY Bounds DEF Module, FileVersions, EnvValues
  <2>5. disk \in DiskType
    BY <2>4 DEF Init, DiskType
  <2>6. run \in [Services -> RunType]
    BY <2>3 DEF Init
  <2> QED
    BY <2>2, <2>5, <2>6 DEF TypeOK, ScriptType, DiskType, Module, FileVersions, RunType
<1>2. InstallInv /\ UpdateInv
  BY DEF Init, InstallInv, UpdateInv
<1> QED
  BY <1>1, <1>2 DEF DeployInv

LEMMA InstallStartKeeps ==
  ASSUME DeployInv, NEW p \in DOMAIN Profiles, InstallStart(p)
  PROVE  DeployInv'
<1> DEFINE m == Head(Selected(p))
<1>1. /\ Selected(p) \in Seq(Modules) /\ Selected(p) # << >>
      /\ ToSet(Selected(p)) = Profiles[p]
  BY SelectedIs
<1>2. m \in Modules
  BY <1>1, ToSetHeadTail
<1>3. SetupSteps[m] \in Seq(StepNames) /\ Len(SetupSteps[m]) > 0
  BY <1>2, SetupLists
<1>4. TypeOK'
  <2>1. SetupSteps[m] \in Seq(StepNames \cup Services)
    BY <1>3
  <2>2. ScriptType /\ disk \in DiskType /\ run \in [Services -> RunType]
    BY TypeParts DEF DeployInv
  <2>3. events' \in 0..MaxEvents
    BY EventCounts DEF DeployInv, InstallStart
  <2>4. ScriptType'
    BY <1>1, <2>1, <2>2, <2>3 DEF ScriptType, InstallStart
  <2> QED
    BY <2>2, <2>4, TypeFromParts DEF InstallStart
<1>5. Underway(m, SetupSteps[m], Blank)'
  <2>1. steps' = SetupSteps[m]
    BY DEF InstallStart
  <2> HIDE DEF m
  <2> QED BY <1>3, <2>1, ListStarts
<1>6. InstallInv'
  <2>1. pc' = "install" /\ mods' = Selected(p) /\ asked' = p
    BY DEF InstallStart
  <2>2. \A n \in Modules : result'[n] = "none"
    BY DEF InstallStart
  <2>3. \E h \in Modules : h = Head(mods') /\ Underway(h, SetupSteps[h], Blank)'
    BY <1>2, <1>5, <2>1
  <2> QED
    BY <1>1, <2>1, <2>2, <2>3 DEF InstallInv
<1>7. UpdateInv'
  BY DEF InstallStart, UpdateInv
<1> QED
  BY <1>4, <1>6, <1>7 DEF DeployInv

\* The module loop goes on: a verdict for the module at hand, and the next one.
LEMMA VerdictKeeps ==
  ASSUME DeployInv, pc = "install", NEW m \in Modules, m = Head(mods),
         NEW verdict \in {"OK", "FAILED"}, result' = [result EXCEPT ![m] = verdict],
         Proceed(Tail(mods), "record"),
         UNCHANGED <<repo, asked>>,
         verdict = "OK" => AllDone(m, SetupSteps[m], Blank)',
         \A n \in Modules \ {m} :
           AllDone(n, SetupSteps[n], Blank) => AllDone(n, SetupSteps[n], Blank)'
  PROVE  /\ mods' \in Seq(Modules) /\ steps' \in Seq(StepNames \cup Services)
         /\ pc' \in {"install", "record"}
         /\ result' \in [Modules -> {"none", "OK", "FAILED"}]
         /\ InstallInv'
<1>1. ScriptType
  BY TypeParts DEF DeployInv
<1>2. mods \in Seq(Modules) /\ mods # << >> /\ asked \in DOMAIN Profiles
  BY <1>1 DEF DeployInv, InstallInv, ScriptType
<1> DEFINE rest == Tail(mods)
<1>3. rest \in Seq(Modules) /\ ToSet(mods) = {m} \cup ToSet(rest)
  BY <1>2, ToSetHeadTail
<1>4. result' = [result EXCEPT ![m] = verdict] /\ mods' = rest
  BY DEF Proceed
<1>5. result' \in [Modules -> {"none", "OK", "FAILED"}]
  BY <1>1, <1>3, <1>4 DEF ScriptType
<1>6. Profiles[asked] \subseteq Modules
  BY <1>2, ProfilesAssumption
<1>7. \A n \in Modules : result'[n] = IF n = m THEN verdict ELSE result[n]
  BY <1>1, <1>3, <1>4 DEF ScriptType
<1>8. \A n \in Profiles[asked] : result[n] # "none" \/ n \in ToSet(mods)
  BY DEF DeployInv, InstallInv
<1>9. \A n \in Modules : result'[n] = "OK" => AllDone(n, SetupSteps[n], Blank)'
  <2> SUFFICES ASSUME NEW n \in Modules, result'[n] = "OK"
               PROVE  AllDone(n, SetupSteps[n], Blank)'
    OBVIOUS
  <2>1. CASE n = m
    BY <1>7, <2>1
  <2>2. CASE n # m
    <3>1. result[n] = "OK"
      BY <1>7, <2>2
    <3> QED
      BY <2>2, <3>1 DEF DeployInv, InstallInv
  <2> QED
    BY <2>1, <2>2
<1>10. \A n \in Profiles[asked] : result'[n] # "none" \/ n \in ToSet(rest)
  BY <1>3, <1>6, <1>7, <1>8
<1> HIDE DEF rest
<1>11. CASE rest = << >>
  <2>1. steps' = << >> /\ pc' = "record"
    BY <1>11 DEF Proceed, rest
  <2>2. \A n \in Profiles[asked] : result'[n] # "none"
    BY <1>10, <1>11 DEF ToSet
  <2> QED
    BY <1>2, <1>3, <1>4, <1>5, <1>9, <2>1, <2>2 DEF InstallInv
<1>12. CASE rest # << >>
  <2>1. steps' = SetupSteps[Head(rest)] /\ pc' = "install"
    BY <1>12 DEF Proceed, rest
  <2>2. PICK h \in Modules : h = Head(rest)
    BY <1>3, <1>12
  <2>3. SetupSteps[h] \in Seq(StepNames) /\ Len(SetupSteps[h]) > 0
    BY SetupLists
  <2>4. steps' \in Seq(StepNames \cup Services)
    BY <2>1, <2>2, <2>3
  <2>5. Underway(h, SetupSteps[h], Blank)'
    BY <2>1, <2>2, <2>3, ListStarts
  <2>6. \E n \in Modules : n = Head(mods') /\ Underway(n, SetupSteps[n], Blank)'
    BY <1>4, <2>2, <2>5
  <2> QED
    BY <1>2, <1>3, <1>4, <1>5, <1>9, <1>10, <1>12, <2>1, <2>4, <2>6 DEF InstallInv
<1> QED
  BY <1>11, <1>12

LEMMA SetupStepKeeps ==
  ASSUME DeployInv, SetupStep
  PROVE  DeployInv'
<1>1. ScriptType /\ disk \in DiskType /\ run \in [Services -> RunType]
  BY TypeParts DEF DeployInv
<1>2. pc = "install" /\ mods \in Seq(Modules) /\ mods # << >>
  BY <1>1 DEF DeployInv, InstallInv, ScriptType, SetupStep
<1>3. PICK m \in Modules : m = Head(mods) /\ Underway(m, SetupSteps[m], Blank)
  BY <1>2 DEF DeployInv, InstallInv
<1> DEFINE list == SetupSteps[m]
<1>4. list \in Seq(StepNames) /\ RendersLast(m, list)
  BY <1>3, SetupLists
<1>5. disk' = Write(disk, m, Head(steps)) /\ repo' = repo /\ repo \in 1..MaxVersion
      /\ MaxVersion \in Nat
  BY <1>1, <1>3, Bounds DEF SetupStep, ScriptType
<1>e. StepEffect(m, Head(steps), Blank)
  BY <1>1, <1>5, WriteEffect
<1>6. /\ Len(steps) > 1 /\ steps' = Tail(steps) => Underway(m, list, Blank)'
      /\ ~(Len(steps) > 1) => AllDone(m, list, Blank)'
      /\ steps # << >>
  <2> HIDE DEF list
  <2>1. Underway(m, list, Blank)
    BY <1>3 DEF list
  <2> QED
    BY <1>4, <1>5, <1>e, <2>1, StepTaken
<1>7. \A n \in Modules : AllDone(n, SetupSteps[n], Blank) => AllDone(n, SetupSteps[n], Blank)'
  <2> SUFFICES ASSUME NEW n \in Modules, AllDone(n, SetupSteps[n], Blank)
               PROVE  AllDone(n, SetupSteps[n], Blank)'
    OBVIOUS
  <2>1. Contains(SetupSteps[n], "env")
    BY SetupLists
  <2> HIDE DEF list
  <2> QED
    BY <1>5, <1>e, <2>1, DoneStays
<1>8. disk' \in DiskType
  BY <1>1, <1>5, WriteIs
<1>9. run' \in [Services -> RunType]
  BY <1>1, <1>5, RestartedType DEF SetupStep
<1>10. UpdateInv'
  <2>1. pc' # "update"
    BY <1>2 DEF SetupStep, Proceed
  <2> QED
    BY <2>1 DEF UpdateInv
<1>11. UNCHANGED <<repo, record, asked, status, events>>
  BY DEF SetupStep
<1>12. CASE Len(steps) > 1
  <2>1. steps' = Tail(steps) /\ UNCHANGED <<mods, result, pc>>
    BY <1>12 DEF SetupStep
  <2>2. steps' \in Seq(StepNames \cup Services)
    <3>1. steps \in Seq(StepNames \cup Services)
      BY <1>1 DEF ScriptType
    <3> QED
      BY <1>6, <2>1, <3>1, ToSetHeadTail
  <2>3. ScriptType'
    BY <1>1, <1>11, <2>1, <2>2 DEF ScriptType
  <2>4. InstallInv'
    <3>1. \E n \in Modules : n = Head(mods') /\ Underway(n, SetupSteps[n], Blank)'
      BY <1>3, <1>6, <1>12, <2>1
    <3> QED
      BY <1>2, <1>7, <1>11, <2>1, <3>1 DEF DeployInv, InstallInv
  <2> QED
    BY <1>8, <1>9, <1>10, <2>3, <2>4, TypeFromParts DEF DeployInv
<1>13. CASE ~(Len(steps) > 1)
  <2>1. result' = [result EXCEPT ![m] = "OK"] /\ Proceed(Tail(mods), "record")
    BY <1>3, <1>13 DEF SetupStep
  <2>2. /\ mods' \in Seq(Modules) /\ steps' \in Seq(StepNames \cup Services)
        /\ pc' \in {"install", "record"}
        /\ result' \in [Modules -> {"none", "OK", "FAILED"}]
        /\ InstallInv'
    BY <1>2, <1>3, <1>6, <1>7, <1>11, <1>13, <2>1, VerdictKeeps
  <2>3. ScriptType'
    BY <1>1, <1>11, <2>2 DEF ScriptType
  <2> QED
    BY <1>8, <1>9, <1>10, <2>2, <2>3, TypeFromParts DEF DeployInv
<1> QED
  BY <1>12, <1>13

\* The failing script may have harmed its own module only, which is FAILED.
LEMMA SetupStepFailsKeeps ==
  ASSUME DeployInv, SetupStepFails
  PROVE  DeployInv'
<1>1. ScriptType /\ disk \in DiskType /\ run \in [Services -> RunType]
  BY TypeParts DEF DeployInv
<1>2. pc = "install" /\ UNCHANGED <<repo, run, record, asked, status>>
  BY DEF SetupStepFails
<1>3. PICK m \in Modules : m = Head(mods)
  BY <1>2 DEF DeployInv, InstallInv
<1>4. disk' \in DiskType /\ \A n \in Modules \ {m} : disk'[n] = disk[n]
  <2>1. disk' = disk \/ disk' = Torn(disk, m, Head(steps))
    BY <1>3 DEF SetupStepFails
  <2> QED
    BY <1>1, <2>1, Bounds, TornIs
<1>5. \A n \in Modules \ {m} :
        AllDone(n, SetupSteps[n], Blank) => AllDone(n, SetupSteps[n], Blank)'
  <2>1. ASSUME NEW n \in Modules \ {m}, NEW step
        PROVE  Done(n, step, Blank) => Done(n, step, Blank)'
    BY <1>2, <1>4 DEF Done
  <2> QED
    BY <2>1 DEF AllDone
<1>6. result' = [result EXCEPT ![m] = "FAILED"] /\ Proceed(Tail(mods), "record")
  BY <1>3 DEF SetupStepFails
<1>7. /\ mods' \in Seq(Modules) /\ steps' \in Seq(StepNames \cup Services)
      /\ pc' \in {"install", "record"}
      /\ result' \in [Modules -> {"none", "OK", "FAILED"}]
      /\ InstallInv'
  BY <1>2, <1>3, <1>5, <1>6, VerdictKeeps
<1>8. events' \in 0..MaxEvents
  BY EventCounts DEF DeployInv, SetupStepFails
<1>9. ScriptType'
  BY <1>1, <1>2, <1>7, <1>8 DEF ScriptType
<1>10. UpdateInv'
  BY <1>7 DEF UpdateInv
<1> QED
  BY <1>1, <1>2, <1>4, <1>7, <1>9, <1>10, TypeFromParts DEF DeployInv

\* A rendering that failed leaves an empty file, which is what Blank allows for.
LEMMA RenderFailsKeeps ==
  ASSUME DeployInv, RenderFails
  PROVE  DeployInv'
<1>1. ScriptType /\ disk \in DiskType /\ run \in [Services -> RunType]
  BY TypeParts DEF DeployInv
<1>2. /\ pc = "install" /\ Head(steps) = "config" /\ steps' = Tail(steps)
      /\ UNCHANGED <<repo, run, record, pc, asked, mods, result, status>>
  BY DEF RenderFails
<1>3. PICK m \in Modules : m = Head(mods) /\ Underway(m, SetupSteps[m], Blank)
  BY <1>2 DEF DeployInv, InstallInv
<1>4. m \in {"wifi", "mavlink"} /\ disk' = Torn(disk, m, "config")
  BY <1>3 DEF RenderFails
<1>5. StepEffect(m, Head(steps), Blank) /\ repo' = repo
  BY <1>1, <1>2, <1>4, RenderEffect
<1> DEFINE list == SetupSteps[m]
<1>6. list \in Seq(StepNames) /\ RendersLast(m, list) /\ Last(list) # "config"
  BY <1>4, SetupLists
<1>7. Underway(m, list, Blank)' /\ steps # << >>
  <2> HIDE DEF list
  <2>1. Underway(m, list, Blank)
    BY <1>3 DEF list
  <2>2. /\ steps # << >>
        /\ Len(steps) > 1 /\ steps' = Tail(steps) => Underway(m, list, Blank)'
        /\ ~(Len(steps) > 1) => Head(steps) = Last(list)
    BY <1>5, <1>6, <2>1, StepTaken
  <2> QED
    BY <1>2, <1>6, <2>2
<1>8. \A n \in Modules : AllDone(n, SetupSteps[n], Blank) => AllDone(n, SetupSteps[n], Blank)'
  <2> SUFFICES ASSUME NEW n \in Modules, AllDone(n, SetupSteps[n], Blank)
               PROVE  AllDone(n, SetupSteps[n], Blank)'
    OBVIOUS
  <2>1. Contains(SetupSteps[n], "env")
    BY SetupLists
  <2> HIDE DEF list
  <2> QED
    BY <1>5, <2>1, DoneStays
<1>9. disk' \in DiskType
  BY <1>1, <1>4, Bounds, TornIs
<1>10. events' \in 0..MaxEvents
  BY EventCounts DEF DeployInv, RenderFails
<1>11. steps' \in Seq(StepNames \cup Services)
  <2>1. steps \in Seq(StepNames \cup Services)
    BY <1>1 DEF ScriptType
  <2> QED
    BY <1>2, <1>7, <2>1, ToSetHeadTail
<1>12. ScriptType'
  BY <1>1, <1>2, <1>10, <1>11 DEF ScriptType
<1>13. InstallInv'
  <2>1. \E n \in Modules : n = Head(mods') /\ Underway(n, SetupSteps[n], Blank)'
    BY <1>2, <1>3, <1>7
  <2> QED
    BY <1>2, <1>8, <2>1 DEF DeployInv, InstallInv
<1>14. UpdateInv'
  BY <1>2 DEF UpdateInv
<1> QED
  BY <1>1, <1>2, <1>9, <1>12, <1>13, <1>14, TypeFromParts DEF DeployInv

LEMMA InstallRestKeeps ==
  ASSUME DeployInv, RecordProfile \/ InstallEnds
  PROVE  DeployInv'
<1>1. ScriptType /\ disk \in DiskType /\ run \in [Services -> RunType]
  BY TypeParts DEF DeployInv
<1>2. CASE RecordProfile
  <2>1. ScriptType'
    BY <1>1, <1>2 DEF ScriptType, RecordProfile, DeployInv, InstallInv
  <2>2. \A n \in Modules : AllDone(n, SetupSteps[n], Blank) => AllDone(n, SetupSteps[n], Blank)'
    BY <1>2, Frame DEF RecordProfile
  <2>3. InstallInv'
    BY <1>2, <2>2 DEF RecordProfile, DeployInv, InstallInv
  <2>4. UpdateInv'
    BY <1>2 DEF RecordProfile, UpdateInv
  <2> QED
    BY <1>1, <1>2, <2>1, <2>3, <2>4, TypeFromParts DEF DeployInv, RecordProfile
<1>3. CASE InstallEnds
  <2>1. ScriptType'
    BY <1>1, <1>3 DEF ScriptType, InstallEnds
  <2>2. InstallInv' /\ UpdateInv'
    BY <1>3 DEF InstallEnds, InstallInv, UpdateInv
  <2> QED
    BY <1>1, <1>3, <2>1, <2>2, TypeFromParts DEF DeployInv, InstallEnds
<1> QED
  BY <1>2, <1>3

\* With the record, what update.sh is about stays the same.
LEMMA RecordedFrame ==
  ASSUME UNCHANGED record
  PROVE  Recorded' = Recorded
  BY DEF Recorded, UpdateProfile

LEMMA RecordedIs ==
  /\ UpdateOrder \in Seq(Recorded) /\ ToSet(UpdateOrder) = Recorded
  /\ RestartOrder \in Seq(Recorded) /\ ToSet(RestartOrder) = Recorded \ {"wifi"}
<1>1. ToSet(UpdateOrder) = Recorded /\ ToSet(RestartOrder) = Recorded \ {"wifi"}
  BY OrdersAre DEF Recorded
<1>2. ASSUME NEW s \in Seq(Services), ToSet(s) \subseteq Recorded PROVE s \in Seq(Recorded)
  <2>1. \A i \in 1..Len(s) : s[i] \in Recorded
    BY <1>2 DEF ToSet
  <2> QED
    BY <2>1
<1> QED
  BY <1>1, <1>2, OrdersAre

LEMMA SeqOfServices ==
  ASSUME NEW s \in Seq(Recorded)
  PROVE  s \in Seq(Modules) /\ s \in Seq(StepNames \cup Services)
<1>1. Recorded \subseteq Modules /\ Recorded \subseteq StepNames \cup Services
  BY ServicesAre DEF Recorded
<1> QED
  BY <1>1

\* A module's block of update.sh starts, or the restarts do.
LEMMA BlockStarts ==
  ASSUME mods' \in Seq(Recorded),
         steps' = IF mods' = << >> THEN RestartOrder ELSE UpdateSteps[Head(mods')]
  PROVE  /\ mods' \in Seq(Modules) /\ steps' \in Seq(StepNames \cup Services)
         /\ mods' # << >> => \E m \in Services : m = Head(mods') /\ Underway(m, UpdateSteps[m], {})'
         /\ mods' = << >> => steps' \in Seq(Recorded) /\ ToSet(steps') = Recorded \ {"wifi"}
<1>1. mods' \in Seq(Modules)
  BY SeqOfServices
<1>2. CASE mods' = << >>
  BY <1>1, <1>2, RecordedIs, SeqOfServices
<1>3. CASE mods' # << >>
  <2>1. PICK m \in Services : m = Head(mods')
    <3>1. Head(mods') \in Recorded
      BY <1>3
    <3> QED
      BY <3>1 DEF Recorded
  <2>2. UpdateSteps[m] \in Seq(StepNames) /\ Len(UpdateSteps[m]) > 0
    BY UpdateLists
  <2>3. steps' = UpdateSteps[m]
    BY <1>3, <2>1
  <2>4. Underway(m, UpdateSteps[m], {})'
    BY <2>2, <2>3, ListStarts
  <2>5. steps' \in Seq(StepNames \cup Services)
    BY <2>2, <2>3
  <2> QED
    BY <1>1, <1>3, <2>1, <2>4, <2>5
<1> QED
  BY <1>2, <1>3

LEMMA UpdateStartKeeps ==
  ASSUME DeployInv, UpdateStart
  PROVE  DeployInv'
<1>1. ScriptType /\ disk \in DiskType /\ run \in [Services -> RunType] /\ TypeOK
  BY TypeParts DEF DeployInv
<1>2. /\ UNCHANGED <<repo, disk, run, record, asked, result>> /\ pc' = "update"
      /\ mods' = UpdateOrder /\ status' = -1
  BY DEF UpdateStart
<1>3. steps' = IF mods' = << >> THEN RestartOrder ELSE UpdateSteps[Head(mods')]
  BY <1>2 DEF UpdateStart
<1>4. mods' \in Seq(Recorded) /\ ToSet(mods') = Recorded
  BY <1>2, RecordedIs
<1>5. /\ mods' \in Seq(Modules) /\ steps' \in Seq(StepNames \cup Services)
      /\ mods' # << >> => \E m \in Services : m = Head(mods') /\ Underway(m, UpdateSteps[m], {})'
      /\ mods' = << >> => steps' \in Seq(Recorded) /\ ToSet(steps') = Recorded \ {"wifi"}
  BY <1>3, <1>4, BlockStarts
<1>6. events' \in 0..MaxEvents
  BY <1>1, EventCounts DEF UpdateStart
<1>7. ScriptType'
  BY <1>1, <1>2, <1>5, <1>6 DEF ScriptType
<1>8. Recorded' = Recorded
  BY <1>2, RecordedFrame
<1>9. UpdateInv'
  BY <1>4, <1>5, <1>8 DEF UpdateInv
<1>10. InstallInv'
  BY <1>2 DEF InstallInv
<1> QED
  BY <1>1, <1>2, <1>7, <1>9, <1>10, TypeFromParts DEF DeployInv

LEMMA UpdateStepKeeps ==
  ASSUME DeployInv, UpdateStep
  PROVE  DeployInv'
<1>1. ScriptType /\ disk \in DiskType /\ run \in [Services -> RunType]
  BY TypeParts DEF DeployInv
<1>2. pc = "update" /\ mods # << >> /\ mods \in Seq(Recorded)
  BY DEF DeployInv, UpdateInv, UpdateStep
<1>3. PICK m \in Services : m = Head(mods) /\ Underway(m, UpdateSteps[m], {})
  BY <1>2 DEF DeployInv, UpdateInv
<1>4. /\ UNCHANGED <<repo, run, record, pc, asked, result, status, events>>
      /\ disk' = Write(disk, m, Head(steps))
      /\ repo \in 1..MaxVersion /\ MaxVersion \in Nat /\ m \in Modules
  BY <1>1, <1>3, Bounds, ServicesAre DEF UpdateStep, ScriptType
<1>e. StepEffect(m, Head(steps), {})
  BY <1>1, <1>4, WriteEffect
<1>5. /\ steps # << >>
      /\ Len(steps) > 1 /\ steps' = Tail(steps) => Underway(m, UpdateSteps[m], {})'
      /\ ~(Len(steps) > 1) => AllDone(m, UpdateSteps[m], {})'
  <2> DEFINE list == UpdateSteps[m]
  <2>1. list \in Seq(StepNames) /\ RendersLast(m, list) /\ Underway(m, list, {})
    BY <1>3, UpdateLists
  <2>2. repo' = repo
    BY <1>4
  <2> HIDE DEF list
  <2>3. /\ steps # << >>
        /\ Len(steps) > 1 /\ steps' = Tail(steps) => Underway(m, list, {})'
        /\ ~(Len(steps) > 1) => AllDone(m, list, {})'
    BY <1>4, <1>e, <2>1, <2>2, StepTaken
  <2> QED
    BY <2>3 DEF list
<1>6. ASSUME NEW n \in Recorded, n # m, AllDone(n, UpdateSteps[n], {})
      PROVE  AllDone(n, UpdateSteps[n], {})'
  <2>1. n \in Modules /\ repo' = repo
    BY <1>4, ServicesAre DEF Recorded
  <2> QED
    BY <1>4, <1>6, <1>e, <2>1, DoneStays
<1>7. disk' \in DiskType
  BY <1>1, <1>4, WriteIs
<1>8. Recorded' = Recorded
  BY <1>4, RecordedFrame
<1>9. Tail(mods) \in Seq(Recorded) /\ ToSet(mods) = {m} \cup ToSet(Tail(mods))
  BY <1>2, <1>3, ToSetHeadTail
<1>10. \A n \in Recorded : n \in ToSet(mods) \/ AllDone(n, UpdateSteps[n], {})
  BY <1>2 DEF DeployInv, UpdateInv
<1>11. InstallInv'
  BY <1>2, <1>4 DEF InstallInv
<1>12. CASE Len(steps) > 1
  <2>1. steps' = Tail(steps) /\ mods' = mods
    BY <1>12 DEF UpdateStep
  <2>2. steps' \in Seq(StepNames \cup Services)
    <3>1. steps \in Seq(StepNames \cup Services)
      BY <1>1 DEF ScriptType
    <3> QED
      BY <1>5, <2>1, <3>1, ToSetHeadTail
  <2>3. ScriptType'
    BY <1>1, <1>4, <2>1, <2>2 DEF ScriptType
  <2>4. \A n \in Recorded : n \in ToSet(mods') \/ AllDone(n, UpdateSteps[n], {})'
    BY <1>6, <1>9, <1>10, <2>1
  <2>5. \E n \in Services : n = Head(mods') /\ Underway(n, UpdateSteps[n], {})'
    BY <1>3, <1>5, <1>12, <2>1
  <2>6. UpdateInv'
    BY <1>2, <1>8, <2>1, <2>4, <2>5 DEF UpdateInv
  <2> QED
    BY <1>1, <1>4, <1>7, <1>11, <2>3, <2>6, TypeFromParts DEF DeployInv
<1>13. CASE ~(Len(steps) > 1)
  <2>1. mods' = Tail(mods)
    BY <1>13 DEF UpdateStep
  <2>2. steps' = IF mods' = << >> THEN RestartOrder ELSE UpdateSteps[Head(mods')]
    BY <1>13, <2>1 DEF UpdateStep
  <2>3. /\ mods' \in Seq(Modules) /\ steps' \in Seq(StepNames \cup Services)
        /\ mods' # << >> => \E n \in Services : n = Head(mods') /\ Underway(n, UpdateSteps[n], {})'
        /\ mods' = << >> => steps' \in Seq(Recorded) /\ ToSet(steps') = Recorded \ {"wifi"}
    BY <1>9, <2>1, <2>2, BlockStarts
  <2>4. ScriptType'
    BY <1>1, <1>4, <2>3 DEF ScriptType
  <2>5. \A n \in Recorded : n \in ToSet(mods') \/ AllDone(n, UpdateSteps[n], {})'
    BY <1>5, <1>6, <1>9, <1>10, <1>13, <2>1
  <2>6. UpdateInv'
    BY <1>8, <1>9, <2>1, <2>3, <2>5 DEF UpdateInv
  <2> QED
    BY <1>1, <1>4, <1>7, <1>11, <2>4, <2>6, TypeFromParts DEF DeployInv
<1> QED
  BY <1>12, <1>13

LEMMA UpdateRestartKeeps ==
  ASSUME DeployInv, UpdateRestart
  PROVE  DeployInv'
<1>1. ScriptType /\ disk \in DiskType /\ run \in [Services -> RunType]
  BY TypeParts DEF DeployInv
<1>2. /\ pc = "update" /\ mods = << >> /\ steps # << >>
      /\ UNCHANGED <<repo, disk, record, pc, asked, mods, result, status, events>>
      /\ steps' = Tail(steps)
  BY DEF UpdateRestart
<1>3. /\ steps \in Seq(Recorded)
      /\ \A n \in Recorded \ {"wifi"} : n \in ToSet(steps) \/ run[n] = Started(disk, n)
  BY <1>2 DEF DeployInv, UpdateInv
<1>4. PICK m : m = Head(steps)
  OBVIOUS
<1>5. /\ steps' \in Seq(Recorded) /\ ToSet(steps) = {m} \cup ToSet(steps')
      /\ steps' \in Seq(StepNames \cup Services)
  BY <1>2, <1>3, <1>4, ToSetHeadTail, SeqOfServices
<1>6. run' = Restarted(disk, run, m)
  BY <1>4 DEF UpdateRestart
<1>7. run' \in [Services -> RunType]
  BY <1>1, <1>6, Bounds, RestartedType
<1>8. \A n \in Recorded \ {"wifi"} : n \in ToSet(steps') \/ run'[n] = Started(disk', n)
  <2> SUFFICES ASSUME NEW n \in Recorded \ {"wifi"}, n \notin ToSet(steps')
               PROVE  run'[n] = Started(disk, n)
    BY <1>2
  <2>1. n \in Services /\ (n = m \/ run[n] = Started(disk, n))
    BY <1>3, <1>5 DEF Recorded
  <2> QED
    BY <1>1, <1>6, <2>1, RestartedKeeps
<1>9. ScriptType'
  BY <1>1, <1>2, <1>5 DEF ScriptType
<1>10. Recorded' = Recorded
  BY <1>2, RecordedFrame
<1>11. \A n \in Recorded : AllDone(n, UpdateSteps[n], {})'
  <2>1. \A n \in Recorded : AllDone(n, UpdateSteps[n], {})
    BY <1>2 DEF DeployInv, UpdateInv, ToSet
  <2> QED
    BY <1>2, <2>1, Frame
<1>12. UpdateInv'
  BY <1>2, <1>5, <1>8, <1>10, <1>11 DEF UpdateInv
<1>13. InstallInv'
  BY <1>2 DEF InstallInv
<1> QED
  BY <1>1, <1>2, <1>7, <1>9, <1>12, <1>13, TypeFromParts DEF DeployInv

LEMMA EmptyLists == << >> \in Seq(Modules) /\ << >> \in Seq(StepNames \cup Services)
  OBVIOUS

\* What leaves no script running.
LEMMA UpdateOutKeeps ==
  ASSUME DeployInv, UpdateStepFails \/ UpdateEnds
  PROVE  DeployInv'
<1>1. ScriptType /\ disk \in DiskType /\ run \in [Services -> RunType]
  BY TypeParts DEF DeployInv
<1>2. UNCHANGED <<repo, run, record, asked, result>> /\ pc' = "idle"
  BY DEF UpdateStepFails, UpdateEnds
<1>3. CASE UpdateStepFails
  <2>1. events' \in 0..MaxEvents
    BY <1>3, EventCounts DEF DeployInv, UpdateStepFails
  <2>2. mods' = << >> /\ steps' = << >> /\ status' \in {-1, 0, 1}
    BY <1>3 DEF UpdateStepFails
  <2>3. ScriptType'
    BY <1>1, <1>2, <2>1, <2>2, EmptyLists DEF ScriptType
  <2>4. disk' \in DiskType
    <3>1. mods \in Seq(Modules) /\ mods # << >>
      BY <1>1, <1>3 DEF ScriptType, UpdateStepFails
    <3>2. PICK m \in Modules : m = Head(mods)
      BY <3>1, ToSetHeadTail
    <3>3. disk' = disk \/ disk' = Torn(disk, m, Head(steps))
      BY <1>3, <3>2 DEF UpdateStepFails
    <3> QED
      BY <1>1, <3>3, Bounds, TornIs
  <2> QED
    BY <1>1, <1>2, <2>3, <2>4, TypeFromParts DEF DeployInv, InstallInv, UpdateInv
<1>4. CASE UpdateEnds
  <2>1. ScriptType'
    BY <1>1, <1>2, <1>4 DEF ScriptType, UpdateEnds
  <2> QED
    BY <1>1, <1>2, <1>4, <2>1, TypeFromParts DEF DeployInv, InstallInv, UpdateInv, UpdateEnds
<1> QED
  BY <1>3, <1>4

\* Power is lost in the middle of anything: no script survives it.
LEMMA PowerLossKeeps ==
  ASSUME DeployInv, PowerLoss
  PROVE  DeployInv'
<1>1. ScriptType /\ disk \in DiskType /\ run \in [Services -> RunType]
  BY TypeParts DEF DeployInv
<1>2. /\ pc' = "idle" /\ mods' = << >> /\ steps' = << >>
      /\ UNCHANGED <<repo, asked, result>>
  BY DEF PowerLoss
<1>3. disk' \in DiskType
  <2>1. CASE UNCHANGED disk
    BY <1>1, <2>1
  <2>2. CASE mods # << >> /\ disk' = Torn(disk, Head(mods), Head(steps))
    <3>0. mods \in Seq(Modules) /\ MaxVersion \in Nat
      BY <1>1, Bounds DEF ScriptType
    <3>1. Head(mods) \in Modules
      BY <2>2, <3>0, ToSetHeadTail
    <3>2. PICK m \in Modules : m = Head(mods)
      BY <3>1
    <3>3. disk' = Torn(disk, m, Head(steps))
      BY <2>2, <3>2
    <3> QED
      BY <1>1, <3>0, <3>3, TornIs
  <2> QED
    BY <2>1, <2>2 DEF PowerLoss
<1>4. run' \in [Services -> RunType]
  <2>1. Off \in RunType
    BY Bounds DEF Off, RunType, EnvValues
  <2>2. \A m \in Services : Started(disk', m) \in RunType
    BY <1>3, Bounds, StartedType
  <2> QED
    BY <2>1, <2>2 DEF PowerLoss
<1>5. status' \in {-1, 0, 1} /\ record' \in DOMAIN Profiles \cup {NoFile, ""}
  <2>1. status \in {-1, 0, 1} /\ record \in DOMAIN Profiles \cup {NoFile, ""}
    BY <1>1 DEF ScriptType
  <2>2. (status' = status \/ status' = -1) /\ (record' = record \/ record' = "")
    BY DEF PowerLoss
  <2> QED
    BY <2>1, <2>2
<1>6. events' \in 0..MaxEvents
  BY EventCounts DEF DeployInv, PowerLoss
<1>7. ScriptType'
  BY <1>1, <1>2, <1>5, <1>6, EmptyLists DEF ScriptType
<1> QED
  BY <1>2, <1>3, <1>4, <1>7, TypeFromParts DEF DeployInv, InstallInv, UpdateInv

LEMMA PullKeeps ==
  ASSUME DeployInv, Pull
  PROVE  DeployInv'
<1>1. ScriptType /\ disk \in DiskType /\ run \in [Services -> RunType]
  BY TypeParts DEF DeployInv
<1>2. /\ pc' = "idle"
      /\ UNCHANGED <<disk, run, record, pc, asked, mods, steps, result, status>>
  BY DEF Pull
<1>3. repo' \in 1..MaxVersion
  <2>1. repo \in 1..MaxVersion /\ repo < MaxVersion /\ repo' = repo + 1
    BY <1>1 DEF ScriptType, Pull
  <2> QED
    BY <2>1, Bounds
<1>4. events' \in 0..MaxEvents
  BY EventCounts DEF DeployInv, Pull
<1>5. ScriptType'
  BY <1>1, <1>2, <1>3, <1>4 DEF ScriptType
<1> QED
  BY <1>1, <1>2, <1>5, TypeFromParts DEF DeployInv, InstallInv, UpdateInv

LEMMA EditEnvKeeps ==
  ASSUME DeployInv, NEW m \in Modules, EditEnv(m)
  PROVE  DeployInv'
<1>1. ScriptType /\ disk \in DiskType /\ run \in [Services -> RunType]
  BY TypeParts DEF DeployInv
<1>2. /\ pc' = "idle"
      /\ UNCHANGED <<repo, run, record, pc, asked, mods, steps, result, status>>
  BY DEF EditEnv
<1>3. disk' \in DiskType
  <2>1. disk' = [disk EXCEPT ![m].env = "edited"] /\ "edited" \in EnvValues
    BY DEF EditEnv, EnvValues
  <2> QED
    BY <1>1, <2>1 DEF DiskType, Module
<1>4. events' \in 0..MaxEvents
  BY EventCounts DEF DeployInv, EditEnv
<1>5. ScriptType'
  BY <1>1, <1>2, <1>4 DEF ScriptType
<1> QED
  BY <1>1, <1>2, <1>3, <1>5, TypeFromParts DEF DeployInv, InstallInv, UpdateInv

\* A service that comes back while a script runs gets what the script would
\* have restarted it from.
LEMMA RestartServiceKeeps ==
  ASSUME DeployInv, NEW m \in Services, RestartService(m)
  PROVE  DeployInv'
<1>1. ScriptType /\ disk \in DiskType /\ run \in [Services -> RunType]
  BY TypeParts DEF DeployInv
<1>2. /\ UNCHANGED <<repo, disk, record, pc, asked, mods, steps, result, status>>
      /\ run' = Restarted(disk, run, m)
  BY DEF RestartService
<1>3. run' \in [Services -> RunType]
  BY <1>1, <1>2, Bounds, RestartedType
<1>4. events' \in 0..MaxEvents
  BY EventCounts DEF DeployInv, RestartService
<1>5. ScriptType'
  BY <1>1, <1>2, <1>4 DEF ScriptType
<1>6. \A n, list, failed : /\ AllDone(n, list, failed) => AllDone(n, list, failed)'
                           /\ Underway(n, list, failed) => Underway(n, list, failed)'
  BY <1>2, Frame
<1>7. InstallInv'
  BY <1>2, <1>6 DEF DeployInv, InstallInv
<1>8. Recorded' = Recorded
  BY <1>2, RecordedFrame
<1>9. \A n \in Services : run[n] = Started(disk, n) => run'[n] = Started(disk', n)
  BY <1>1, <1>2, RestartedKeeps
<1>10. Recorded \subseteq Services
  BY DEF Recorded
<1>11. UpdateInv'
  BY <1>2, <1>6, <1>8, <1>9, <1>10 DEF DeployInv, UpdateInv
<1> QED
  BY <1>1, <1>2, <1>3, <1>5, <1>7, <1>11, TypeFromParts DEF DeployInv

LEMMA StutterKeeps ==
  ASSUME DeployInv, UNCHANGED vars
  PROVE  DeployInv'
<1>1. UNCHANGED <<repo, disk, run, record, pc, asked, mods, steps, result, status, events>>
  BY DEF vars
<1>2. TypeOK'
  BY <1>1 DEF DeployInv, TypeOK
<1>3. \A n, list, failed : /\ AllDone(n, list, failed) => AllDone(n, list, failed)'
                           /\ Underway(n, list, failed) => Underway(n, list, failed)'
  BY <1>1, Frame
<1>4. InstallInv'
  BY <1>1, <1>3 DEF DeployInv, InstallInv
<1>5. Recorded' = Recorded
  BY <1>1, RecordedFrame
<1>6. UpdateInv'
  BY <1>1, <1>3, <1>5 DEF DeployInv, UpdateInv
<1> QED
  BY <1>2, <1>4, <1>6 DEF DeployInv

LEMMA DeployInvNext == DeployInv /\ [Next]_vars => DeployInv'
  BY InstallStartKeeps, SetupStepKeeps, SetupStepFailsKeeps, RenderFailsKeeps, InstallRestKeeps,
     UpdateStartKeeps, UpdateStepKeeps, UpdateRestartKeeps, UpdateOutKeeps,
     PowerLossKeeps, PullKeeps, EditEnvKeeps, RestartServiceKeeps, StutterKeeps
  DEF Next

LEMMA DeployInvariant == Spec => []DeployInv
  BY InitKeeps, DeployInvNext, PTL DEF Spec

-----------------------------------------------------------------------------
(***************************************************************************)
(* The results.                                                            *)
(***************************************************************************)
\* Every variable keeps its type under any faults: no script is left with a
\* step or a module it does not know (install.sh, setup_*.sh, update.sh).
THEOREM DeploymentTypeCorrect == Spec => []TypeOK
<1>1. DeployInv => TypeOK
  BY DEF DeployInv
<1> QED
  BY <1>1, DeployInvariant, PTL

LEMMA AllDoneHas ==
  ASSUME NEW m, NEW list, NEW step, NEW failed, AllDone(m, list, failed), Contains(list, step)
  PROVE  Done(m, step, failed)
  BY DEF AllDone, Contains

\* install.sh prints a verdict for every selected module, and a module it calls
\* OK is staged and enabled from the version checked out, with nothing stale in
\* what was rendered, whatever failed, was left over or lost power before
\* (install.sh 81-108); what it cannot have, for want of pipefail, is a rendered
\* file that is sure not to be empty (setup_mavlink.sh 24-25, setup_wifi.sh 34).
THEOREM SummaryIsHonest == Spec => []HonestSummary
<1>1. ASSUME DeployInv PROVE HonestSummary
  <2> SUFFICES ASSUME pc = "summary", NEW m \in Profiles[asked]
               PROVE  /\ result[m] # "none"
                      /\ result[m] = "OK" =>
                           /\ disk[m].env = "template"
                           /\ m \in Services => disk[m].art = repo /\ disk[m].unit = repo /\ disk[m].enabled
                           /\ m = "telemetry" => disk[m].lock = repo
                           /\ m \in {"wifi", "mavlink"} => disk[m].conf \in {disk[m].env, "empty"}
    BY DEF HonestSummary
  <2>1. asked \in DOMAIN Profiles /\ result[m] # "none"
    BY <1>1 DEF DeployInv, InstallInv
  <2>2. m \in Modules
    BY <2>1, ProfilesAssumption
  <2>3. ASSUME result[m] = "OK"
        PROVE  /\ disk[m].env = "template"
               /\ m \in Services => disk[m].art = repo /\ disk[m].unit = repo /\ disk[m].enabled
               /\ m = "telemetry" => disk[m].lock = repo
               /\ m \in {"wifi", "mavlink"} => disk[m].conf \in {disk[m].env, "empty"}
    <3> DEFINE list == SetupSteps[m]
    <3>1. AllDone(m, list, Blank)
      BY <1>1, <2>2, <2>3 DEF DeployInv, InstallInv
    <3>2. /\ Contains(list, "env")
          /\ m \in Services => Contains(list, "stage") /\ Contains(list, "unit")
                               /\ Contains(list, "enable")
          /\ m = "telemetry" => Contains(list, "lock")
          /\ m \in {"wifi", "mavlink"} => Contains(list, "config")
      BY <2>2, SetupLists
    <3> HIDE DEF list
    <3>3. /\ Done(m, "env", Blank)
          /\ m \in Services => Done(m, "stage", Blank) /\ Done(m, "unit", Blank) /\ Done(m, "enable", Blank)
          /\ m = "telemetry" => Done(m, "lock", Blank)
          /\ m \in {"wifi", "mavlink"} => Done(m, "config", Blank)
      BY <3>1, <3>2, AllDoneHas
    <3> QED
      BY <3>3 DEF Done, Blank
  <2> QED
    BY <2>1, <2>3
<1> QED
  BY <1>1, DeployInvariant, PTL

\* An update.sh that reaches its end leaves no module of the recorded profile
\* behind, on the disk or running, even if services crashed and came back
\* while it worked.
THEOREM UpdateIsComplete == Spec => []UpdateComplete
<1>1. ASSUME DeployInv PROVE UpdateComplete
  <2> SUFFICES ASSUME pc = "update", mods = << >>, steps = << >>,
                      NEW m \in Services, HasModule(UpdateProfile, m)
               PROVE  /\ disk[m].art = repo /\ disk[m].unit = repo
                      /\ m = "mavlink" => disk[m].conf = disk[m].env
                      /\ m # "wifi" => run[m] = Started(disk, m)
    BY DEF UpdateComplete
  <2>1. m \in Recorded
    BY DEF Recorded
  <2>2. m \notin ToSet(mods) /\ m \notin ToSet(steps)
    BY DEF ToSet
  <2>3. AllDone(m, UpdateSteps[m], {}) /\ (m # "wifi" => run[m] = Started(disk, m))
    BY <1>1, <2>1, <2>2 DEF DeployInv, UpdateInv
  <2> DEFINE list == UpdateSteps[m]
  <2>4. /\ Contains(list, "stage") /\ Contains(list, "unit")
        /\ m = "mavlink" => Contains(list, "config")
    BY UpdateLists
  <2>5. AllDone(m, list, {})
    BY <2>3
  <2> HIDE DEF list
  <2>6. Done(m, "stage", {}) /\ Done(m, "unit", {}) /\ (m = "mavlink" => Done(m, "config", {}))
    BY <2>4, <2>5, AllDoneHas
  <2> QED
    BY <2>3, <2>6 DEF Done
<1> QED
  BY <1>1, DeployInvariant, PTL

\* No step of update.sh touches a camera or a modem that the profile on record
\* does not have (has_module before each block of update.sh).
THEOREM UpdateStaysInProfile == Spec => UpdateWithinProfile
<1> DEFINE Within ==
      pc = "update" /\ pc' = "update" /\ steps' # steps /\ record # NoFile =>
        \A m \in {"camera", "cellular"} :
          \/ HasModule(record, m)
          \/ disk'[m] = disk[m] /\ (m \in Services => run'[m] = run[m])
<1>1. ASSUME DeployInv, Next PROVE Within
  <2> SUFFICES ASSUME pc = "update", pc' = "update", steps' # steps, record # NoFile,
                      NEW m \in {"camera", "cellular"}, ~HasModule(record, m)
               PROVE  disk'[m] = disk[m] /\ (m \in Services => run'[m] = run[m])
    OBVIOUS
  <2>1. ScriptType /\ disk \in DiskType
    BY <1>1, TypeParts DEF DeployInv
  <2>2. m \notin Recorded /\ m \in Modules
    BY ModulesAre DEF Recorded, UpdateProfile
  <2>3. mods \in Seq(Recorded) /\ (mods = << >> => steps \in Seq(Recorded))
    BY <1>1 DEF DeployInv, UpdateInv
  <2>4. UpdateStep \/ UpdateRestart
    BY <1>1 DEF Next, InstallStart, SetupStep, SetupStepFails, RenderFails, RecordProfile, InstallEnds,
                UpdateStart, UpdateStepFails, UpdateEnds, PowerLoss, Pull, EditEnv, RestartService
  <2>5. CASE UpdateStep
    <3>1. Head(mods) \in Recorded
      BY <2>3, <2>5, ToSetHeadTail DEF UpdateStep
    <3>2. PICK h \in Modules : h = Head(mods) /\ h # m
      BY <2>2, <3>1, ServicesAre DEF Recorded
    <3>3. /\ disk' = Write(disk, h, Head(steps)) /\ run' = run
          /\ repo \in 1..MaxVersion /\ MaxVersion \in Nat
      BY <2>1, <2>5, <3>2, Bounds DEF UpdateStep, ScriptType
    <3> QED
      BY <2>1, <2>2, <3>2, <3>3, WriteIs
  <2>6. CASE UpdateRestart
    <3>1. Head(steps) \in Recorded /\ disk' = disk
      BY <2>3, <2>6, ToSetHeadTail DEF UpdateRestart
    <3>2. PICK h \in Services : h = Head(steps) /\ h # m
      BY <2>2, <3>1 DEF Recorded
    <3>3. run' = Restarted(disk, run, h)
      BY <2>6, <3>2 DEF UpdateRestart
    <3> QED
      BY <3>1, <3>2, <3>3 DEF Restarted
  <2> QED
    BY <2>4, <2>5, <2>6
<1>2. DeployInv /\ [Next]_vars => [Within]_vars
  BY <1>1
<1> QED
  BY <1>2, DeployInvariant, PTL DEF Spec, UpdateWithinProfile
=============================================================================
