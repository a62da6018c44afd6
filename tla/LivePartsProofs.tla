--------------------------- MODULE LivePartsProofs ---------------------------
(***************************************************************************)
(* What module MCLiveParts checks of its components on small instances, for*)
(* every value of their constants: the inductive invariant of each of them,*)
(* and the theorems that join what these imply.  A behaviour of the parts, *)
(* seen through the variables of one of them, is one of that component.    *)
(* The proofs about Thread and Gui are in their own modules.               *)
(***************************************************************************)
EXTENDS MCLiveParts, ThreadProofs, WellFoundedInduction

GP == INSTANCE GuiProofs

-----------------------------------------------------------------------------
(* Induction, and loops over data. *)
LEMMA LeastOf ==
    ASSUME NEW S \in SUBSET Nat, S # {}
    PROVE  \E i \in S : \A j \in S : i <= j
<1> DEFINE less == OpToRel(<, Nat)
<1>1. IsWellFoundedOn(less, Nat)
  BY NatLessThanWellFounded, Zenon
<1>2. PICK i \in S : \A j \in S : <<j, i>> \notin less
  <2> HIDE DEF less
  <2> QED
    BY <1>1, WFMin
<1>3. \A j \in S : ~ j < i
  BY <1>2 DEF OpToRel
<1> QED
  BY <1>3

(* Induction: what holds of 0, and of each number if it holds of the one before. *)
LEMMA UpTo ==
    ASSUME NEW n \in Nat, NEW T, 0 \in T, \A k \in 1 .. n : k - 1 \in T => k \in T
    PROVE  0 .. n \subseteq T
<1> DEFINE Bad == {k \in 0 .. n : k \notin T}
<1>1. SUFFICES ASSUME Bad # {} PROVE FALSE
  OBVIOUS
<1>2. PICK k \in Bad : \A j \in Bad : k <= j
  <2>1. Bad \in SUBSET Nat
    OBVIOUS
  <2> HIDE DEF Bad
  <2> QED
    BY <1>1, <2>1, LeastOf
<1>3. k \in 1 .. n /\ k - 1 \in 0 .. n
  BY <1>2
<1>4. k - 1 \notin Bad
  BY <1>2, <1>3
<1> QED
  BY <1>2, <1>3, <1>4

(* A loop over n things: h[k] is what it has made of the first k. *)
Folds(h, n, begin, step) ==
    h = [k \in 0 .. n |-> IF k = 0 THEN begin ELSE step[<<k, h[k - 1]>>]]

LEMMA FoldExists ==
    ASSUME NEW n \in Nat, NEW begin, NEW step
    PROVE  \E h : Folds(h, n, begin, step)
<1> DEFINE T == {k \in Nat : \E h : Folds(h, k, begin, step)}
<1>1. 0 \in T
  <2>1. Folds([k \in 0 .. 0 |-> begin], 0, begin, step)
    BY DEF Folds
  <2> QED
    BY <2>1
<1>2. ASSUME NEW k \in 1 .. n, k - 1 \in T PROVE k \in T
  <2>1. PICK f : Folds(f, k - 1, begin, step)
    BY <1>2
  <2> DEFINE g == [j \in 0 .. k |-> IF j = 0 THEN begin ELSE step[<<j, f[j - 1]>>]]
  <2>2. ASSUME NEW j \in 0 .. k - 1
        PROVE  g[j] = f[j] /\ j \in 0 .. k
    <3>1. f[j] = IF j = 0 THEN begin ELSE step[<<j, f[j - 1]>>]
      BY <2>1 DEF Folds
    <3> QED
      BY <3>1
  <2>3. Folds(g, k, begin, step)
    <3>1. \A j \in 0 .. k : j # 0 => j - 1 \in 0 .. k - 1
      OBVIOUS
    <3>2. \A j \in 0 .. k : j # 0 => f[j - 1] = g[j - 1]
      <4> HIDE DEF g
      <4> QED
        BY <2>2, <3>1
    <3> QED
      BY <3>2, Zenon DEF Folds
  <2> QED
    BY <2>3
<1>3. 0 .. n \subseteq T
  <2> HIDE DEF T
  <2> QED
    BY <1>1, <1>2, UpTo
<1> QED
  BY <1>3

LEMMA FoldType ==
    ASSUME NEW n \in Nat, NEW begin, NEW step, NEW S, NEW h, Folds(h, n, begin, step),
           begin \in S, \A k \in 1 .. n : \A s \in S : step[<<k, s>>] \in S
    PROVE  \A k \in 0 .. n : h[k] \in S
<1> DEFINE T == {k \in 0 .. n : h[k] \in S}
<1>1. 0 \in T
  BY DEF Folds
<1>2. ASSUME NEW k \in 1 .. n, k - 1 \in T PROVE k \in T
  BY <1>2 DEF Folds
<1>3. 0 .. n \subseteq T
  <2> HIDE DEF T
  <2> QED
    BY <1>1, <1>2, UpTo
<1> QED
  BY <1>3

-----------------------------------------------------------------------------
(* The instance of Gui that moves in the run is the one that is proved about. *)
LEMMA SameGuiParameters == GP!GuiParameters
BY InstanceParameters DEF Gui1!GuiParameters, GP!GuiParameters

LEMMA SameGuiInit == Gui1!Init => GP!Init
BY DEF Gui1!Init, Gui1!Locks, Gui1!Threads, Gui1!Free, Gui1!NoApp, GP!Init,
       GP!Locks, GP!Threads, GP!Free, GP!NoApp

LEMMA SameGuiNext == Gui1!Next => GP!Next
BY DEF Gui1!Next, Gui1!ShowStep, Gui1!HideStep, Gui1!GuiStep, Gui1!LvglStep,
       Gui1!StopStep, Gui1!LoaderEvent, Gui1!ShowAppLock, Gui1!ShowApp,
       Gui1!RequestDraw, Gui1!HideAppLock, Gui1!HideAppLvgl, Gui1!OnHide,
       Gui1!HideApp, Gui1!AwaitFlags, Gui1!ClearFlagsQuery, Gui1!ClearDraw,
       Gui1!ClearExit, Gui1!RedrawLock, Gui1!RedrawLvgl, Gui1!OnShow,
       Gui1!RedrawGivesUp, Gui1!LvglEvent, Gui1!HandlerAsksLoader,
       Gui1!HandlerLocksGui, Gui1!HandlerReturns, Gui1!StopService,
       Gui1!StopSetsExit, Gui1!StopJoined, Gui1!Threads, Gui1!Locks, Gui1!Free,
       Gui1!Shown, Gui1!NoApp, Gui1!appVars, Gui1!flagVars, Gui1!At, Gui1!Goto,
       Gui1!Acquire, Gui1!Release, Gui1!SetFlag, Gui1!TakeLock,
       Gui1!ClearFlagsWrite, Gui1!PassLock, Gui1!WaitsFor, Gui1!Deadlocked,
       Gui1!LockCheckFails, GP!Next, GP!ShowStep, GP!HideStep, GP!GuiStep,
       GP!LvglStep, GP!StopStep, GP!LoaderEvent, GP!ShowAppLock, GP!ShowApp,
       GP!RequestDraw, GP!HideAppLock, GP!HideAppLvgl, GP!OnHide, GP!HideApp,
       GP!AwaitFlags, GP!ClearFlagsQuery, GP!ClearDraw, GP!ClearExit, GP!RedrawLock,
       GP!RedrawLvgl, GP!OnShow, GP!RedrawGivesUp, GP!LvglEvent,
       GP!HandlerAsksLoader, GP!HandlerLocksGui, GP!HandlerReturns, GP!StopService,
       GP!StopSetsExit, GP!StopJoined, GP!Threads, GP!Locks, GP!Free, GP!Shown,
       GP!NoApp, GP!appVars, GP!flagVars, GP!At, GP!Goto, GP!Acquire, GP!Release,
       GP!SetFlag, GP!TakeLock, GP!ClearFlagsWrite, GP!PassLock, GP!WaitsFor,
       GP!Deadlocked, GP!LockCheckFails

LEMMA SameGuiVars == UNCHANGED guiVars => UNCHANGED GP!vars
BY DEF guiVars, GP!vars, GP!appVars, GP!flagVars

(* A behaviour of the parts is one of Gui. *)
LEMMA PartsAreGui == PartsSpec => GP!Spec
<1>1. PartsInit => GP!Init
  BY SameGuiInit DEF PartsInit
<1>2. [PartsNext]_allVars => [GP!Next]_(GP!vars)
  <2>1. CASE part = "gui" /\ Gui1!Next
    BY <2>1, SameGuiNext
  <2>2. CASE UNCHANGED guiVars
    BY <2>2, SameGuiVars
  <2> QED
    BY <2>1, <2>2 DEF PartsNext, Rest, allVars
<1> QED
  BY <1>1, <1>2, PTL DEF PartsSpec, GP!Spec

(* What the types of Gui are called there. *)
LEMMA SameGuiSafe == GP!TypeOK => Gui1!TypeOK
BY DEF GP!TypeOK, Gui1!TypeOK, GP!Threads, Gui1!Threads, GP!Locks, Gui1!Locks, GP!Free,
       Gui1!Free, GP!NoApp, Gui1!NoApp, GP!Shown, Gui1!Shown

-----------------------------------------------------------------------------
(* EspNow: in which order the jobs wait for the main thread.  A user switches Wi-Fi on
   only while Chat is closed, so that before "wifiOn" there is the "disable" of an
   ESP-NOW that is on, and no "enable": unless Chat was closed before its enable(). *)
NowJobs == {"wifiOn", "wifiOff", "enable", "disable"}
Waits(job, s) == \E i \in DOMAIN s : s[i] = job
NoWifiAfterEnable(s) ==
    \A i, k \in DOMAIN s : i < k /\ s[i] = "enable" => s[k] # "wifiOn"
DisabledBeforeWifi(s) ==
    \A k \in DOMAIN s : s[k] = "wifiOn" => \E i \in DOMAIN s : i < k /\ s[i] = "disable"

(* What a job at the end of the queue changes of this, ... *)
LEMMA JobsAppended ==
    ASSUME NEW s \in Seq(NowJobs), NEW job \in NowJobs
    PROVE  /\ Append(s, job) \in Seq(NowJobs)
           /\ \A j : Waits(j, Append(s, job)) <=> Waits(j, s) \/ j = job
           /\ NoWifiAfterEnable(s) /\ (job # "wifiOn" \/ ~Waits("enable", s))
                 => NoWifiAfterEnable(Append(s, job))
           /\ DisabledBeforeWifi(s) /\ (job # "wifiOn" \/ Waits("disable", s))
                 => DisabledBeforeWifi(Append(s, job))
<1>1. /\ Append(s, job) \in Seq(NowJobs) /\ Len(Append(s, job)) = Len(s) + 1
      /\ Len(s) \in Nat
      /\ DOMAIN s = 1..Len(s) /\ DOMAIN Append(s, job) = 1..Len(s) + 1
      /\ \A i \in 1..Len(s) : Append(s, job)[i] = s[i]
      /\ Append(s, job)[Len(s) + 1] = job
  OBVIOUS
<1> DEFINE a == Append(s, job)
<1> HIDE DEF a
<1>2. \A j : Waits(j, a) <=> Waits(j, s) \/ j = job
  BY <1>1 DEF Waits, a
<1>3. ASSUME NoWifiAfterEnable(s), job # "wifiOn" \/ ~Waits("enable", s)
      PROVE  NoWifiAfterEnable(a)
  BY <1>1, <1>3 DEF NoWifiAfterEnable, Waits, a
<1>4. ASSUME DisabledBeforeWifi(s), job # "wifiOn" \/ Waits("disable", s)
      PROVE  DisabledBeforeWifi(a)
  BY <1>1, <1>4 DEF DisabledBeforeWifi, Waits, a
<1> QED
  BY <1>1, <1>2, <1>3, <1>4 DEF a

(* ... and what its first job. *)
LEMMA JobsTaken ==
    ASSUME NEW s \in Seq(NowJobs), s # <<>>
    PROVE  /\ Tail(s) \in Seq(NowJobs)
           /\ \A j : Waits(j, s) <=> Waits(j, Tail(s)) \/ j = Head(s)
           /\ NoWifiAfterEnable(s) => NoWifiAfterEnable(Tail(s))
           /\ NoWifiAfterEnable(s) /\ Head(s) = "enable" => ~Waits("wifiOn", Tail(s))
           /\ DisabledBeforeWifi(s) => Head(s) # "wifiOn"
           /\ DisabledBeforeWifi(s) /\ Head(s) # "disable" => DisabledBeforeWifi(Tail(s))
<1>1. /\ Tail(s) \in Seq(NowJobs) /\ Len(Tail(s)) = Len(s) - 1
      /\ Len(s) \in Nat /\ Len(s) # 0
      /\ DOMAIN s = 1..Len(s) /\ DOMAIN Tail(s) = 1..Len(s) - 1
      /\ \A i \in 1..Len(s) - 1 : Tail(s)[i] = s[i + 1]
      /\ Head(s) = s[1]
  OBVIOUS
<1> DEFINE t == Tail(s) h == Head(s)
<1> HIDE DEF t, h
<1>2. \A i \in DOMAIN s : i = 1 \/ (i - 1 \in DOMAIN t /\ s[i] = t[i - 1])
  BY <1>1 DEF t
<1>3. \A i \in DOMAIN t : i + 1 \in DOMAIN s /\ t[i] = s[i + 1]
  BY <1>1 DEF t
<1>4. /\ 1 \in DOMAIN s /\ h = s[1]
      /\ DOMAIN s \subseteq Nat \ {0} /\ DOMAIN t \subseteq Nat \ {0}
  BY <1>1 DEF h, t
<1>5. \A j : Waits(j, s) <=> Waits(j, t) \/ j = h
  BY <1>2, <1>3, <1>4 DEF Waits
<1>6. NoWifiAfterEnable(s) => NoWifiAfterEnable(t)
  BY <1>3, <1>4 DEF NoWifiAfterEnable
<1>7. ASSUME NoWifiAfterEnable(s), h = "enable" PROVE ~Waits("wifiOn", t)
  <2> SUFFICES ASSUME NEW k \in DOMAIN t PROVE t[k] # "wifiOn"
    BY DEF Waits
  <2>1. k + 1 \in DOMAIN s /\ t[k] = s[k + 1] /\ 1 < k + 1
    BY <1>3, <1>4
  <2> QED
    BY <1>4, <1>7, <2>1 DEF NoWifiAfterEnable
<1>8. DisabledBeforeWifi(s) => h # "wifiOn"
  BY <1>4 DEF DisabledBeforeWifi
<1>9. ASSUME DisabledBeforeWifi(s), h # "disable" PROVE DisabledBeforeWifi(t)
  <2> SUFFICES ASSUME NEW k \in DOMAIN t, t[k] = "wifiOn"
               PROVE  \E i \in DOMAIN t : i < k /\ t[i] = "disable"
    BY DEF DisabledBeforeWifi
  <2>1. PICK i \in DOMAIN s : i < k + 1 /\ s[i] = "disable"
    BY <1>3, <1>9 DEF DisabledBeforeWifi
  <2>2. i # 1
    BY <1>4, <1>9, <2>1
  <2>3. i - 1 \in DOMAIN t /\ t[i - 1] = "disable" /\ i - 1 < k
    BY <1>2, <1>4, <2>1, <2>2
  <2> QED
    BY <2>3
<1> QED
  BY <1>1, <1>5, <1>6, <1>7, <1>8, <1>9 DEF t, h

(* Chat is open from the call of enable() to the end of onDestroy(). *)
ChatOpen == chat # "none" \/ chatPc # "idle"

NowTypes ==
    /\ jobs \in Seq(NowJobs)
    /\ mainPc \in {"idle", "poll", "setup"}
    /\ radio \in {"On", "Off"} /\ driver \in {"none", "wifi", "espnow"}
    /\ chat \in {"none", "created", "shown", "hidden"}
    /\ chatPc \in {"idle", "subscribe", "unsubscribe", "query"}
    /\ recvPc \in {"idle", "want", "draw"} /\ sendPc \in {"idle", "send"}
    /\ nowEnabled \in BOOLEAN /\ receiving \in BOOLEAN /\ closedEarly \in BOOLEAN
    /\ msgList \in {"none", "live", "dead"} /\ leftOn \in BOOLEAN

NowChat ==
    /\ recvPc # "idle" => receiving /\ mainPc = "idle"
    /\ receiving => chat # "none" /\ chatPc # "query"
    /\ chatPc = "subscribe" => chat = "none"
    /\ chat = "shown" => msgList = "live"

NowQueue ==
    ~closedEarly =>
       /\ Waits("enable", jobs) \/ mainPc # "idle" => ChatOpen
       /\ NoWifiAfterEnable(jobs)
       /\ mainPc # "idle" => ~Waits("wifiOn", jobs)
       /\ nowEnabled => DisabledBeforeWifi(jobs)
       /\ nowEnabled /\ ~ChatOpen => Waits("disable", jobs)

NowRadio ==
    /\ ~closedEarly =>
          /\ nowEnabled => radio = "Off" /\ driver = "espnow"
          /\ mainPc = "setup" => radio = "Off"
    /\ driver = "espnow" => nowEnabled \/ leftOn

NowInv == NowTypes /\ NowChat /\ NowQueue /\ NowRadio

LEMMA NowInvHolds == Now!Spec => []NowInv
<1>1. Now!Init => NowInv
  <2> SUFFICES ASSUME Now!Init PROVE NowInv
    OBVIOUS
  <2>1. jobs \in Seq(NowJobs) /\ DOMAIN jobs = {}
    BY DEF Now!Init
  <2>2. NowTypes
    BY <2>1 DEF Now!Init, NowTypes
  <2> QED
    BY <2>1, <2>2 DEF Now!Init, NowInv, NowChat, NowQueue, NowRadio, Waits,
       NoWifiAfterEnable, DisabledBeforeWifi
<1>2. NowInv /\ [Now!Next]_(Now!vars) => NowInv'
  <2> SUFFICES ASSUME NowInv, [Now!Next]_(Now!vars) PROVE NowInv'
    OBVIOUS
  <2> USE DEF NowInv, NowTypes, NowChat, NowQueue, NowRadio, ChatOpen, NowJobs,
          Now!mainVars, Now!chatVars
  <2> DEFINE h == Head(jobs)
             t == Tail(jobs)
  <2>1. ASSUME NEW job, Now!Take(job)
        PROVE  /\ mainPc = "idle" /\ job = h
               /\ t \in Seq(NowJobs)
               /\ \A j : Waits(j, jobs) <=> Waits(j, t) \/ j = h
               /\ NoWifiAfterEnable(jobs) => NoWifiAfterEnable(t)
               /\ NoWifiAfterEnable(jobs) /\ h = "enable" => ~Waits("wifiOn", t)
               /\ DisabledBeforeWifi(jobs) => h # "wifiOn"
               /\ DisabledBeforeWifi(jobs) /\ h # "disable" => DisabledBeforeWifi(t)
    BY <2>1, JobsTaken DEF Now!Take
  <2>2. ASSUME NEW s \in Seq(NowJobs), NEW job \in NowJobs
        PROVE  /\ Append(s, job) \in Seq(NowJobs)
               /\ \A j : Waits(j, Append(s, job)) <=> Waits(j, s) \/ j = job
               /\ NoWifiAfterEnable(s) /\ (job # "wifiOn" \/ ~Waits("enable", s))
                     => NoWifiAfterEnable(Append(s, job))
               /\ DisabledBeforeWifi(s) /\ (job # "wifiOn" \/ Waits("disable", s))
                     => DisabledBeforeWifi(Append(s, job))
    BY JobsAppended
  <2> HIDE DEF h, t
  <2>3. ASSUME Now!WifiOn PROVE NowInv'
    <3>1. Now!Take("wifiOn") /\ jobs' = t /\ mainPc = "idle"
      BY <2>1, <2>3 DEF Now!WifiOn, t
    <3>2. NowTypes' /\ NowChat'
      <4>1. /\ t \in Seq(NowJobs)
            /\ radio' \in {"On", "Off"} /\ driver' \in {"none", "wifi", "espnow"}
            /\ UNCHANGED <<mainPc, nowEnabled, leftOn, Now!chatVars, recvPc, sendPc>>
        BY <2>1, <2>3, <3>1 DEF Now!WifiOn
      <4>2. NowTypes'
        BY <3>1, <4>1
      <4>3. NowChat'
        BY <4>1
      <4> QED
        BY <4>2, <4>3
    <3>3. NowQueue'
      <4>1. h = "wifiOn" /\ \A j : Waits(j, t) => Waits(j, jobs)
        BY <2>1, <3>1
      <4>2. NoWifiAfterEnable(jobs) => NoWifiAfterEnable(t)
        BY <2>1, <3>1
      <4>3. ~closedEarly => ~nowEnabled
        BY <2>1, <3>1, <4>1
      <4>4. UNCHANGED <<mainPc, nowEnabled, chat, chatPc, closedEarly>>
        BY <2>3 DEF Now!WifiOn
      <4> QED
        BY <3>1, <4>1, <4>2, <4>3, <4>4
    <3>4. NowRadio'
      <4>1. ~closedEarly => ~nowEnabled
        BY <2>1, <3>1
      <4> QED
        BY <2>3, <3>1, <4>1 DEF Now!WifiOn
    <3> QED
      BY <3>2, <3>3, <3>4
  <2>4. ASSUME Now!WifiOff PROVE NowInv'
    <3>1. Now!Take("wifiOff") /\ jobs' = t
      BY <2>4 DEF Now!WifiOff, t
    <3>2. NowTypes' /\ NowChat'
      <4>1. t \in Seq(NowJobs) /\ jobs' = t
        BY <2>1, <3>1
      <4>2. /\ radio' \in {"On", "Off"} /\ driver' \in {"none", "wifi", "espnow"}
            /\ UNCHANGED <<mainPc, nowEnabled, leftOn, Now!chatVars, recvPc, sendPc>>
        BY <2>4 DEF Now!WifiOff
      <4> QED
        BY <4>1, <4>2
    <3>3. NowQueue'
      <4>1. h = "wifiOff" /\ \A j : Waits(j, jobs) <=> Waits(j, t) \/ j = "wifiOff"
        BY <2>1, <3>1
      <4>2. /\ NoWifiAfterEnable(jobs) => NoWifiAfterEnable(t)
            /\ DisabledBeforeWifi(jobs) => DisabledBeforeWifi(t)
        BY <2>1, <3>1, <4>1
      <4> QED
        BY <2>4, <3>1, <4>1, <4>2 DEF Now!WifiOff
    <3>4. NowRadio'
      BY <2>1, <2>4, <3>1 DEF Now!WifiOff
    <3> QED
      BY <3>2, <3>3, <3>4
  <2>5. ASSUME Now!Enable PROVE NowInv'
    <3>1. Now!Take("enable") /\ Now!MutexFree
      BY <2>5 DEF Now!Enable
    <3>2. jobs' = IF mainPc' = "poll" THEN Append(t, "wifiOff") ELSE t
      BY <2>5 DEF Now!Enable, t
    <3>3. /\ jobs' \in Seq(NowJobs)
          /\ ~closedEarly => ChatOpen
          /\ ~closedEarly =>
               /\ NoWifiAfterEnable(jobs') /\ ~Waits("wifiOn", jobs')
               /\ nowEnabled => DisabledBeforeWifi(jobs')
      BY <2>1, <2>2, <3>1, <3>2
    <3> QED
      BY <2>5, <3>1, <3>3 DEF Now!Enable, Now!MutexFree
  <2>6. ASSUME Now!PollEnd PROVE NowInv'
    BY <2>6 DEF Now!PollEnd
  <2>7. ASSUME Now!Setup PROVE NowInv'
    <3>1. ~Waits("wifiOn", jobs) => DisabledBeforeWifi(jobs)
      BY DEF Waits, DisabledBeforeWifi
    <3>2. /\ nowEnabled' \in BOOLEAN /\ driver' \in {"none", "wifi", "espnow"}
          /\ leftOn' \in BOOLEAN
          /\ nowEnabled' => driver' = "espnow"
          /\ driver' = "espnow" => nowEnabled' \/ leftOn'
      <4>1. PICK ok \in BOOLEAN, left \in {driver, "espnow"} :
              /\ ok => left = "espnow"
              /\ nowEnabled' = ok
              /\ driver' = left
              /\ leftOn' = (~ok /\ left = "espnow")
        BY <2>7, Zenon DEF Now!Setup
      <4>2. CASE ok
        BY <4>1, <4>2
      <4>3. CASE ~ok /\ left = "espnow"
        BY <4>1, <4>3
      <4>4. CASE ~ok /\ left # "espnow"
        BY <4>1, <4>4
      <4> QED
        BY <4>2, <4>3, <4>4
    <3>3. /\ mainPc = "setup" /\ mainPc' = "idle"
          /\ UNCHANGED <<jobs, radio, Now!chatVars, recvPc, sendPc>>
      BY <2>7 DEF Now!Setup
    <3>4. NowTypes' /\ NowChat'
      <4>1. NowTypes'
        BY <3>2, <3>3
      <4>2. NowChat'
        BY <3>3
      <4> QED
        BY <4>1, <4>2
    <3>5. NowQueue'
      BY <3>1, <3>3
    <3>6. NowRadio'
      BY <3>2, <3>3
    <3> QED
      BY <3>4, <3>5, <3>6
  <2>8. ASSUME Now!Disable PROVE NowInv'
    <3>1. Now!Take("disable") /\ jobs' = t
      BY <2>8 DEF Now!Disable, t
    <3>2. /\ nowEnabled' = FALSE /\ driver' \in {"none", "wifi", "espnow"}
          /\ leftOn' \in BOOLEAN
          /\ driver' = "espnow" => leftOn'
      <4>1. /\ nowEnabled' = FALSE
            /\ \/ ~nowEnabled /\ driver' = driver /\ leftOn' = leftOn
               \/ driver' = "none" /\ leftOn' = FALSE
               \/ driver' = driver /\ leftOn' = TRUE
        BY <2>8 DEF Now!Disable
      <4>2. CASE ~nowEnabled /\ driver' = driver /\ leftOn' = leftOn
        BY <4>1, <4>2, Zenon
      <4> QED
        BY <4>1, <4>2
    <3>3. mainPc = "idle" /\ UNCHANGED <<mainPc, radio, Now!chatVars, recvPc, sendPc>>
      BY <2>1, <2>8, <3>1 DEF Now!Disable
    <3>4. NowTypes' /\ NowChat'
      <4>1. t \in Seq(NowJobs)
        BY <2>1, <3>1
      <4>2. NowTypes'
        BY <3>1, <3>2, <3>3, <4>1
      <4>3. NowChat'
        BY <3>3
      <4> QED
        BY <4>2, <4>3
    <3>5. NowQueue'
      BY <2>1, <3>1, <3>2, <3>3
    <3>6. NowRadio'
      BY <3>2, <3>3
    <3> QED
      BY <3>4, <3>5, <3>6
  <2>9. ASSUME NEW job \in {"wifiOn", "wifiOff"}, Now!UserWifi(job) PROVE NowInv'
    BY <2>2, <2>9 DEF Now!UserWifi
  <2>10. ASSUME Now!Create PROVE NowInv'
    BY <2>2, <2>10 DEF Now!Create
  <2>11. ASSUME Now!Subscribe PROVE NowInv'
    BY <2>11 DEF Now!Subscribe, Now!MutexFree
  <2>12. ASSUME Now!Show PROVE NowInv'
    BY <2>12 DEF Now!Show
  <2>13. ASSUME Now!Hide PROVE NowInv'
    BY <2>13 DEF Now!Hide
  <2>23. ASSUME Now!Redraw PROVE NowInv'
    BY <2>23 DEF Now!Redraw
  <2>14. ASSUME Now!Destroy PROVE NowInv'
    BY <2>14 DEF Now!Destroy
  <2>15. ASSUME Now!Unsubscribe PROVE NowInv'
    BY <2>15 DEF Now!Unsubscribe, Now!MutexFree
  <2>16. ASSUME Now!Query PROVE NowInv'
    <3>1. Now!EnableQueued <=> Waits("enable", jobs)
      BY DEF Now!EnableQueued, Waits
    <3> QED
      BY <2>2, <2>16, <3>1 DEF Now!Query, Now!MutexFree
  <2>17. ASSUME Now!Press PROVE NowInv'
    BY <2>17 DEF Now!Press
  <2>18. ASSUME Now!Send PROVE NowInv'
    BY <2>18 DEF Now!Send
  <2>19. ASSUME Now!Receive PROVE NowInv'
    BY <2>19 DEF Now!Receive, Now!MutexFree
  <2>20. ASSUME Now!ReceiveLock PROVE NowInv'
    BY <2>20 DEF Now!ReceiveLock
  <2>21. ASSUME Now!ReceiveDraw PROVE NowInv'
    BY <2>21 DEF Now!ReceiveDraw
  <2>22. ASSUME UNCHANGED Now!vars PROVE NowInv'
    BY <2>22 DEF Now!vars
  <2> QED
    BY <2>3, <2>4, <2>5, <2>6, <2>7, <2>8, <2>9, <2>10, <2>11, <2>12, <2>13, <2>14,
       <2>15, <2>16, <2>17, <2>18, <2>19, <2>20, <2>21, <2>22, <2>23
    DEF Now!Next, Now!MainStep, Now!ChatStep, Now!ReceiveStep
<1> QED
  BY <1>1, <1>2, PTL DEF Now!Spec

LEMMA NowSafe == NowInv => /\ Now!EspNowTypeOK /\ Now!OneRadioUser
                           /\ Now!OffWhenClosed /\ Now!DeliversToLiveApp
<1> SUFFICES ASSUME NowInv
             PROVE  /\ Now!EspNowTypeOK /\ Now!OneRadioUser
                    /\ Now!OffWhenClosed /\ Now!DeliversToLiveApp
  OBVIOUS
<1>1. Now!EspNowTypeOK
  BY DEF NowInv, NowTypes, NowJobs, Now!EspNowTypeOK
<1>2. Now!OneRadioUser
  BY DEF NowInv, NowTypes, NowRadio, Now!OneRadioUser
<1>3. jobs = <<>> => ~Waits("disable", jobs)
  BY DEF Waits
<1>4. Now!OffWhenClosed
  BY <1>3 DEF NowInv, NowTypes, NowQueue, NowRadio, ChatOpen, Now!OffWhenClosed
<1>5. Now!DeliversToLiveApp
  BY DEF NowInv, NowChat, Now!DeliversToLiveApp
<1> QED
  BY <1>1, <1>2, <1>4, <1>5

-----------------------------------------------------------------------------
(* Gps: which devices may be doing anything at each place of the main thread.  The
   others are silent, so that a new session finds every UART closed.            *)
SatBusy == CASE mpc = "startLock" \/ (mpc = "idle" /\ gpsState = "Off") -> {}
             [] mpc = "idle" /\ gpsState # "Off" -> records
             [] mpc \in {"add", "subscribeGga", "subscribeRmc"} -> records \ todo
             [] mpc = "stopLock" -> records
             [] mpc = "remove" -> todo
             [] OTHER -> todo \cup {current}

SatPlaces == {"none", "open", "start", "configure", "loop", "read", "publish", "callback",
              "close", "ended"}
SatOpened == SatPlaces \ {"none", "open", "ended"}

SatTypes ==
    /\ session \in 0..MaxSessions
    /\ records \in SUBSET Sat!Devices /\ todo \in SUBSET records
    /\ current \in records \cup {NoDevice}
    /\ fix \in Sat!Devices \cup {NoDevice}
    /\ rpc \in [Sat!Devices -> SatPlaces]
    /\ interrupted \in [Sat!Devices -> BOOLEAN]
    /\ devState \in [Sat!Devices -> {"PendingOn", "On", "Error", "PendingOff", "Off"}]
    /\ attached \in [Sat!Devices -> BOOLEAN]
    /\ subs \in [Sat!Devices -> SUBSET Sat!Kinds]
    /\ gpsUart \in [Uarts -> Sat!Devices \cup {NoDevice}]

SatMain ==
    /\ mpc \in {"idle", "startLock", "add", "subscribeGga", "subscribeRmc", "stopLock",
                "remove", "unsubscribeRmc", "stopDevice", "join"}
    /\ gpsState \in IF mpc = "idle" THEN {"Off", "On"}
                    ELSE IF mpc \in {"startLock", "add", "subscribeGga", "subscribeRmc"}
                         THEN {"OnPending"} ELSE {"OffPending"}
    /\ mpc \in {"idle", "startLock", "stopLock"} => todo = {} /\ current = NoDevice
    /\ mpc \in {"subscribeGga", "subscribeRmc", "unsubscribeRmc", "stopDevice", "join"}
          => current \in records \ todo
    /\ mpc = "startLock" => session < MaxSessions
    /\ mpc = "startLock" \/ (mpc = "idle" /\ gpsState = "Off") => fix = NoDevice
    /\ \A d, e \in records : d[1] = e[1] => d = e

SatDevices ==
    /\ \A d \in Sat!Devices : d \notin SatBusy =>
          rpc[d] \in {"none", "ended"} /\ subs[d] = {} /\ devState[d] = "Off"
    /\ \A d \in Sat!Devices : rpc[d] \notin {"none", "ended"} =>
          attached[d] \/ (mpc = "join" /\ d = current)
    /\ mpc = "unsubscribeRmc" => subs[current] \subseteq {"rmc"}
    /\ mpc \in {"stopDevice", "join"} => subs[current] = {}

SatUarts ==
    /\ \A d \in Sat!Devices : rpc[d] \in SatOpened => gpsUart[d[1]] = d
    /\ \A u \in Uarts :
          gpsUart[u] = NoDevice \/ (gpsUart[u][1] = u /\ rpc[gpsUart[u]] \in SatOpened)
    /\ refused = {}

SatInv == SatTypes /\ SatMain /\ SatDevices /\ SatUarts

LEMMA SatParameters ==
    /\ NoDevice \notin Sat!Devices /\ MaxSessions \in Nat
    /\ \A d \in Sat!Devices : d[1] \in Uarts
<1>1. Sat!GpsParameters
  BY InstanceParameters
<1> QED
  BY <1>1 DEF Sat!GpsParameters, Sat!Devices

(* One device for each UART: the configurations with the number of the session. *)
LEMMA OneSessionOneDevice ==
    ASSUME NEW us \in SUBSET Uarts, NEW s \in Sat!Sessions
    PROVE  /\ us \X {s} \in SUBSET Sat!Devices
           /\ \A d, e \in us \X {s} : d[1] = e[1] => d = e
<1>1. us \X {s} \in SUBSET Sat!Devices
  BY DEF Sat!Devices
<1>2. ASSUME NEW d \in us \X {s}, NEW e \in us \X {s}, d[1] = e[1] PROVE d = e
  <2>1. d = <<d[1], s>> /\ e = <<e[1], s>>
    OBVIOUS
  <2> QED
    BY <1>2, <2>1
<1> QED
  BY <1>1, <1>2

LEMMA SatInvHolds == Sat!Spec => []SatInv
<1>1. Sat!Init => SatInv
  BY SatParameters DEF Sat!Init, SatInv, SatTypes, SatMain, SatDevices, SatUarts, SatBusy,
     SatPlaces, SatOpened, Sat!Kinds
<1>2. SatInv /\ [Sat!Next]_(Sat!vars) => SatInv'
  <2> SUFFICES ASSUME SatInv, [Sat!Next]_(Sat!vars) PROVE SatInv'
    OBVIOUS
  <2> USE SatParameters DEF SatInv, SatTypes, SatMain, SatDevices, SatUarts, SatPlaces,
          SatOpened, Sat!Kinds, Sat!mainVars, Sat!deviceVars, Sat!uartVars, Sat!Main,
          Sat!DeviceFree
  <2>1. ASSUME Sat!StartReceiving PROVE SatInv'
    <3>0. SatBusy = {} /\ SatBusy' = {}
      BY <2>1 DEF Sat!StartReceiving, SatBusy
    <3>1. SatTypes'
      BY <2>1, <3>0 DEF Sat!StartReceiving
    <3>2. SatMain'
      BY <2>1, <3>0 DEF Sat!StartReceiving
    <3>3. SatDevices'
      BY <2>1, <3>0 DEF Sat!StartReceiving
    <3>4. SatUarts'
      BY <2>1, <3>0 DEF Sat!StartReceiving
    <3> QED
      BY <3>1, <3>2, <3>3, <3>4
  <2>2. ASSUME Sat!StartClear PROVE SatInv'
    <3>0. PICK us \in SUBSET Uarts :
            IF us = {} THEN /\ gpsState' = "Off" /\ mpc' = "idle" /\ records' = {}
                            /\ UNCHANGED <<session, todo>>
            ELSE /\ session' = session + 1 /\ records' = us \X {session'}
                 /\ todo' = records' /\ mpc' = "add" /\ UNCHANGED gpsState
      BY <2>2 DEF Sat!StartClear
    <3>5. SatBusy = {} /\ SatBusy' = {}
      BY <2>2, <3>0 DEF Sat!StartClear, SatBusy
    <3>6. /\ session' \in 0..MaxSessions
          /\ records' \in SUBSET Sat!Devices
          /\ \A d, e \in records' : d[1] = e[1] => d = e
      <4>1. us # {} => session + 1 \in Sat!Sessions
        BY <2>2 DEF Sat!StartClear, Sat!Sessions
      <4> QED
        BY <2>2, <3>0, <4>1, OneSessionOneDevice DEF Sat!StartClear
    <3>1. SatTypes'
      BY <2>2, <3>0, <3>5, <3>6 DEF Sat!StartClear
    <3>2. SatMain'
      BY <2>2, <3>0, <3>5, <3>6 DEF Sat!StartClear
    <3>3. SatDevices'
      BY <2>2, <3>0, <3>5, <3>6 DEF Sat!StartClear
    <3>4. SatUarts'
      BY <2>2, <3>0, <3>5, <3>6 DEF Sat!StartClear
    <3> QED
      BY <3>1, <3>2, <3>3, <3>4
  <2>3. ASSUME NEW d \in Sat!Devices, Sat!StartDevice(d) PROVE SatInv'
    <3>0. SatBusy = records \ todo /\ SatBusy' = SatBusy \cup {d} /\ d \notin SatBusy
      BY <2>3 DEF Sat!StartDevice, SatBusy
    <3>1. SatTypes'
      BY <2>3, <3>0 DEF Sat!StartDevice
    <3>2. SatMain'
      BY <2>3, <3>0 DEF Sat!StartDevice
    <3>3. SatDevices'
      BY <2>3, <3>0 DEF Sat!StartDevice
    <3>4. SatUarts'
      BY <2>3, <3>0 DEF Sat!StartDevice
    <3> QED
      BY <3>1, <3>2, <3>3, <3>4
  <2>4. ASSUME Sat!SubscribeGga PROVE SatInv'
    <3>0. SatBusy = records \ todo /\ SatBusy' = SatBusy
      BY <2>4 DEF Sat!SubscribeGga, SatBusy, Sat!Subscribe
    <3>1. SatTypes'
      BY <2>4, <3>0 DEF Sat!SubscribeGga, Sat!Subscribe
    <3>2. SatMain'
      BY <2>4, <3>0 DEF Sat!SubscribeGga, Sat!Subscribe
    <3>3. SatDevices'
      BY <2>4, <3>0 DEF Sat!SubscribeGga, Sat!Subscribe
    <3>4. SatUarts'
      BY <2>4, <3>0 DEF Sat!SubscribeGga, Sat!Subscribe
    <3> QED
      BY <3>1, <3>2, <3>3, <3>4
  <2>5. ASSUME Sat!SubscribeRmc PROVE SatInv'
    <3>0. SatBusy = records \ todo /\ SatBusy' = SatBusy
      BY <2>5 DEF Sat!SubscribeRmc, SatBusy, Sat!Subscribe
    <3>1. SatTypes'
      BY <2>5, <3>0 DEF Sat!SubscribeRmc, Sat!Subscribe
    <3>2. SatMain'
      BY <2>5, <3>0 DEF Sat!SubscribeRmc, Sat!Subscribe
    <3>3. SatDevices'
      BY <2>5, <3>0 DEF Sat!SubscribeRmc, Sat!Subscribe
    <3>4. SatUarts'
      BY <2>5, <3>0 DEF Sat!SubscribeRmc, Sat!Subscribe
    <3> QED
      BY <3>1, <3>2, <3>3, <3>4
  <2>6. ASSUME Sat!StartDone PROVE SatInv'
    <3>0. SatBusy' = SatBusy
      BY <2>6 DEF Sat!StartDone, SatBusy
    <3>1. SatTypes'
      BY <2>6, <3>0 DEF Sat!StartDone
    <3>2. SatMain'
      BY <2>6, <3>0 DEF Sat!StartDone
    <3>3. SatDevices'
      BY <2>6, <3>0 DEF Sat!StartDone
    <3>4. SatUarts'
      BY <2>6, <3>0 DEF Sat!StartDone
    <3> QED
      BY <3>1, <3>2, <3>3, <3>4
  <2>7. ASSUME Sat!StopReceiving PROVE SatInv'
    <3>0. SatBusy \subseteq SatBusy'
      BY <2>7 DEF Sat!StopReceiving, SatBusy
    <3>1. SatTypes'
      BY <2>7, <3>0 DEF Sat!StopReceiving
    <3>2. SatMain'
      BY <2>7, <3>0 DEF Sat!StopReceiving
    <3>3. SatDevices'
      BY <2>7, <3>0 DEF Sat!StopReceiving
    <3>4. SatUarts'
      BY <2>7, <3>0 DEF Sat!StopReceiving
    <3> QED
      BY <3>1, <3>2, <3>3, <3>4
  <2>8. ASSUME Sat!StopLock PROVE SatInv'
    <3>0. SatBusy' = SatBusy
      BY <2>8 DEF Sat!StopLock, SatBusy
    <3>1. SatTypes'
      BY <2>8, <3>0 DEF Sat!StopLock
    <3>2. SatMain'
      BY <2>8, <3>0 DEF Sat!StopLock
    <3>3. SatDevices'
      BY <2>8, <3>0 DEF Sat!StopLock
    <3>4. SatUarts'
      BY <2>8, <3>0 DEF Sat!StopLock
    <3> QED
      BY <3>1, <3>2, <3>3, <3>4
  <2>9. ASSUME NEW d \in Sat!Devices, Sat!UnsubscribeGga(d) PROVE SatInv'
    <3>0. SatBusy' = SatBusy /\ d \in SatBusy
      BY <2>9 DEF Sat!UnsubscribeGga, SatBusy, Sat!Unsubscribe
    <3>1. SatTypes'
      BY <2>9, <3>0 DEF Sat!UnsubscribeGga, Sat!Unsubscribe
    <3>2. SatMain'
      BY <2>9, <3>0 DEF Sat!UnsubscribeGga, Sat!Unsubscribe
    <3>3. SatDevices'
      BY <2>9, <3>0 DEF Sat!UnsubscribeGga, Sat!Unsubscribe
    <3>4. SatUarts'
      BY <2>9, <3>0 DEF Sat!UnsubscribeGga, Sat!Unsubscribe
    <3> QED
      BY <3>1, <3>2, <3>3, <3>4
  <2>10. ASSUME Sat!UnsubscribeRmc PROVE SatInv'
    <3>0. SatBusy' = SatBusy /\ current \in SatBusy
      BY <2>10 DEF Sat!UnsubscribeRmc, SatBusy, Sat!Unsubscribe
    <3>1. SatTypes'
      BY <2>10, <3>0 DEF Sat!UnsubscribeRmc, Sat!Unsubscribe
    <3>2. SatMain'
      BY <2>10, <3>0 DEF Sat!UnsubscribeRmc, Sat!Unsubscribe
    <3>3. SatDevices'
      BY <2>10, <3>0 DEF Sat!UnsubscribeRmc, Sat!Unsubscribe
    <3>4. SatUarts'
      BY <2>10, <3>0 DEF Sat!UnsubscribeRmc, Sat!Unsubscribe
    <3> QED
      BY <3>1, <3>2, <3>3, <3>4
  <2>11. ASSUME Sat!StopDevice PROVE SatInv'
    <3>0. SatBusy = todo \cup {current} /\ SatBusy' \in {SatBusy, SatBusy \ {current}}
          /\ (SatBusy' = SatBusy <=> mpc' = "join")
      BY <2>11 DEF Sat!StopDevice, SatBusy
    <3>1. SatTypes'
      BY <2>11, <3>0 DEF Sat!StopDevice
    <3>2. SatMain'
      BY <2>11, <3>0 DEF Sat!StopDevice
    <3>3. SatDevices'
      BY <2>11, <3>0 DEF Sat!StopDevice
    <3>4. SatUarts'
      BY <2>11, <3>0 DEF Sat!StopDevice
    <3> QED
      BY <3>1, <3>2, <3>3, <3>4
  <2>12. ASSUME Sat!Joined PROVE SatInv'
    <3>0. SatBusy = todo \cup {current} /\ SatBusy' = SatBusy \ {current}
      BY <2>12 DEF Sat!Joined, SatBusy
    <3>1. SatTypes'
      BY <2>12, <3>0 DEF Sat!Joined
    <3>2. SatMain'
      BY <2>12, <3>0 DEF Sat!Joined
    <3>3. SatDevices'
      BY <2>12, <3>0 DEF Sat!Joined
    <3>4. SatUarts'
      BY <2>12, <3>0 DEF Sat!Joined
    <3> QED
      BY <3>1, <3>2, <3>3, <3>4
  <2>13. ASSUME Sat!StopDone PROVE SatInv'
    <3>0. SatBusy = {} /\ SatBusy' = {}
      BY <2>13 DEF Sat!StopDone, SatBusy
    <3>1. SatTypes'
      BY <2>13, <3>0 DEF Sat!StopDone
    <3>2. SatMain'
      BY <2>13, <3>0 DEF Sat!StopDone
    <3>3. SatDevices'
      BY <2>13, <3>0 DEF Sat!StopDone
    <3>4. SatUarts'
      BY <2>13, <3>0 DEF Sat!StopDone
    <3> QED
      BY <3>1, <3>2, <3>3, <3>4
  <2>14. ASSUME NEW d \in Sat!Devices, Sat!Open(d) PROVE SatInv'
    <3>0. SatBusy' = SatBusy /\ d \in SatBusy /\ SatBusy \subseteq records
      BY <2>14 DEF Sat!Open, SatBusy, Sat!UartOf, Sat!Goto
    <3>1. SatTypes'
      BY <2>14, <3>0 DEF Sat!Open, Sat!UartOf, Sat!Goto
    <3>2. SatMain'
      BY <2>14, <3>0 DEF Sat!Open, Sat!UartOf, Sat!Goto
    <3>3. SatDevices'
      BY <2>14, <3>0 DEF Sat!Open, Sat!UartOf, Sat!Goto
    <3>4. SatUarts'
      BY <2>14, <3>0 DEF Sat!Open, Sat!UartOf, Sat!Goto
    <3> QED
      BY <3>1, <3>2, <3>3, <3>4
  <2>15. ASSUME NEW d \in Sat!Devices, Sat!StartUart(d) PROVE SatInv'
    <3>0. SatBusy' = SatBusy /\ d \in SatBusy /\ SatBusy \subseteq records
      BY <2>15 DEF Sat!StartUart, SatBusy, Sat!UartOf, Sat!Goto, Sat!CloseUart
    <3>1. SatTypes'
      BY <2>15, <3>0 DEF Sat!StartUart, Sat!UartOf, Sat!Goto, Sat!CloseUart
    <3>2. SatMain'
      BY <2>15, <3>0 DEF Sat!StartUart, Sat!UartOf, Sat!Goto, Sat!CloseUart
    <3>3. SatDevices'
      BY <2>15, <3>0 DEF Sat!StartUart, Sat!UartOf, Sat!Goto, Sat!CloseUart
    <3>4. SatUarts'
      BY <2>15, <3>0 DEF Sat!StartUart, Sat!UartOf, Sat!Goto, Sat!CloseUart
    <3> QED
      BY <3>1, <3>2, <3>3, <3>4
  <2>16. ASSUME NEW d \in Sat!Devices, Sat!Configure(d) PROVE SatInv'
    <3>0. SatBusy' = SatBusy /\ d \in SatBusy /\ SatBusy \subseteq records
      BY <2>16 DEF Sat!Configure, SatBusy, Sat!UartOf, Sat!Goto, Sat!CloseUart
    <3>1. SatTypes'
      BY <2>16, <3>0 DEF Sat!Configure, Sat!UartOf, Sat!Goto, Sat!CloseUart
    <3>2. SatMain'
      BY <2>16, <3>0 DEF Sat!Configure, Sat!UartOf, Sat!Goto, Sat!CloseUart
    <3>3. SatDevices'
      BY <2>16, <3>0 DEF Sat!Configure, Sat!UartOf, Sat!Goto, Sat!CloseUart
    <3>4. SatUarts'
      BY <2>16, <3>0 DEF Sat!Configure, Sat!UartOf, Sat!Goto, Sat!CloseUart
    <3> QED
      BY <3>1, <3>2, <3>3, <3>4
  <2>17. ASSUME NEW d \in Sat!Devices, Sat!Loop(d) PROVE SatInv'
    <3>0. SatBusy' = SatBusy /\ d \in SatBusy /\ SatBusy \subseteq records
      BY <2>17 DEF Sat!Loop, SatBusy, Sat!Goto
    <3>1. SatTypes'
      BY <2>17, <3>0 DEF Sat!Loop, Sat!Goto
    <3>2. SatMain'
      BY <2>17, <3>0 DEF Sat!Loop, Sat!Goto
    <3>3. SatDevices'
      BY <2>17, <3>0 DEF Sat!Loop, Sat!Goto
    <3>4. SatUarts'
      BY <2>17, <3>0 DEF Sat!Loop, Sat!Goto
    <3> QED
      BY <3>1, <3>2, <3>3, <3>4
  <2>18. ASSUME NEW d \in Sat!Devices, Sat!Read(d) PROVE SatInv'
    <3>5. /\ rpc[d] = "read"
          /\ UNCHANGED <<Sat!mainVars, fix, interrupted, devState, attached, subs, gpsUart,
                         refused>>
      BY <2>18 DEF Sat!Read
    <3>6. PICK there \in {"close", "loop", "publish"} : rpc' = [rpc EXCEPT ![d] = there]
      BY <2>18 DEF Sat!Read, Sat!Goto
    <3>0. SatBusy' = SatBusy /\ d \in SatBusy
      BY <3>5 DEF SatBusy
    <3>1. SatTypes'
      BY <3>0, <3>5, <3>6
    <3>2. SatMain'
      BY <3>0, <3>5, <3>6
    <3>3. SatDevices'
      BY <3>0, <3>5, <3>6
    <3>4. SatUarts'
      BY <3>0, <3>5, <3>6
    <3> QED
      BY <3>1, <3>2, <3>3, <3>4
  <2>19. ASSUME NEW d \in Sat!Devices, Sat!Publish(d) PROVE SatInv'
    <3>0. SatBusy' = SatBusy /\ d \in SatBusy /\ SatBusy \subseteq records
      BY <2>19 DEF Sat!Publish, SatBusy, Sat!Goto
    <3>1. SatTypes'
      BY <2>19, <3>0 DEF Sat!Publish, Sat!Goto
    <3>2. SatMain'
      BY <2>19, <3>0 DEF Sat!Publish, Sat!Goto
    <3>3. SatDevices'
      BY <2>19, <3>0 DEF Sat!Publish, Sat!Goto
    <3>4. SatUarts'
      BY <2>19, <3>0 DEF Sat!Publish, Sat!Goto
    <3> QED
      BY <3>1, <3>2, <3>3, <3>4
  <2>20. ASSUME NEW d \in Sat!Devices, Sat!Callback(d) PROVE SatInv'
    <3>0. SatBusy' = SatBusy /\ d \in SatBusy /\ SatBusy \subseteq records
      BY <2>20 DEF Sat!Callback, SatBusy, Sat!Goto, Sat!ServiceFree
    <3>1. SatTypes'
      BY <2>20, <3>0 DEF Sat!Callback, Sat!Goto, Sat!ServiceFree
    <3>2. SatMain'
      <4>1. ~(mpc = "startLock" \/ (mpc = "idle" /\ gpsState = "Off"))
        BY <3>0 DEF SatBusy
      <4> QED
        BY <2>20, <4>1 DEF Sat!Callback
    <3>3. SatDevices'
      BY <2>20, <3>0 DEF Sat!Callback, Sat!Goto, Sat!ServiceFree
    <3>4. SatUarts'
      BY <2>20, <3>0 DEF Sat!Callback, Sat!Goto, Sat!ServiceFree
    <3> QED
      BY <3>1, <3>2, <3>3, <3>4
  <2>21. ASSUME NEW d \in Sat!Devices, Sat!Close(d) PROVE SatInv'
    <3>0. SatBusy' = SatBusy /\ d \in SatBusy /\ SatBusy \subseteq records
      BY <2>21 DEF Sat!Close, SatBusy, Sat!UartOf, Sat!Goto, Sat!CloseUart
    <3>1. SatTypes'
      BY <2>21, <3>0 DEF Sat!Close, Sat!UartOf, Sat!Goto, Sat!CloseUart
    <3>2. SatMain'
      BY <2>21, <3>0 DEF Sat!Close, Sat!UartOf, Sat!Goto, Sat!CloseUart
    <3>3. SatDevices'
      BY <2>21, <3>0 DEF Sat!Close, Sat!UartOf, Sat!Goto, Sat!CloseUart
    <3>4. SatUarts'
      BY <2>21, <3>0 DEF Sat!Close, Sat!UartOf, Sat!Goto, Sat!CloseUart
    <3> QED
      BY <3>1, <3>2, <3>3, <3>4
  <2>22. ASSUME UNCHANGED Sat!vars PROVE SatInv'
    BY <2>22 DEF Sat!vars, SatBusy
  <2> QED
    BY <2>1, <2>2, <2>3, <2>4, <2>5, <2>6, <2>7, <2>8, <2>9, <2>10, <2>11, <2>12,
       <2>13, <2>14, <2>15, <2>16, <2>17, <2>18, <2>19, <2>20, <2>21, <2>22
    DEF Sat!Next, Sat!MainStep, Sat!ReceiverStep
<1> QED
  BY <1>1, <1>2, PTL DEF Sat!Spec

LEMMA SatSafe == SatInv => /\ Sat!GpsTypeOK /\ Sat!QuietWhenOff /\ Sat!ReceiverHasDevice
                           /\ Sat!UartNeverRefused
<1> SUFFICES ASSUME SatInv
             PROVE  /\ Sat!GpsTypeOK /\ Sat!QuietWhenOff /\ Sat!ReceiverHasDevice
                    /\ Sat!UartNeverRefused
  OBVIOUS
<1> USE SatParameters DEF SatInv, SatTypes, SatMain, SatDevices, SatUarts, SatPlaces,
        SatOpened
<1>1. Sat!GpsTypeOK
  BY DEF Sat!GpsTypeOK
<1>2. SatBusy \subseteq records
  BY DEF SatBusy
<1>3. Sat!ReceiverHasDevice
  BY <1>2 DEF Sat!ReceiverHasDevice, Sat!Receiving
<1>4. Sat!QuietWhenOff
  <2> SUFFICES ASSUME mpc = "idle", gpsState = "Off"
               PROVE  /\ \A d \in Sat!Devices : /\ ~Sat!Receiving(d) /\ subs[d] = {}
                                                /\ devState[d] = "Off"
                      /\ \A u \in Uarts : gpsUart[u] = NoDevice
                      /\ fix = NoDevice
    BY DEF Sat!QuietWhenOff
  <2>1. SatBusy = {}
    BY DEF SatBusy
  <2>2. \A d \in Sat!Devices :
          rpc[d] \in {"none", "ended"} /\ subs[d] = {} /\ devState[d] = "Off"
    BY <2>1
  <2>3. \A u \in Uarts : gpsUart[u] = NoDevice
    BY <2>2
  <2> QED
    BY <2>2, <2>3 DEF Sat!Receiving
<1> QED
  BY <1>1, <1>3, <1>4 DEF Sat!UartNeverRefused

-----------------------------------------------------------------------------
(* I2cScanner: what is listed lies below the address that the callback is at.  A scan
   that starts clears the list, whatever the callback was doing for the one before. *)
Listed(s) == {s[i] : i \in DOMAIN s}
Ascends(s) == \A i, j \in DOMAIN s : i < j => s[i] < s[j]

LEMMA AddressAppended ==
    ASSUME NEW N \in SUBSET Nat, NEW s \in Seq(N), NEW a \in N,
           Ascends(s), \A b \in Listed(s) : b < a
    PROVE  /\ Ascends(Append(s, a))
           /\ Listed(Append(s, a)) = Listed(s) \cup {a}
<1> DEFINE n == Len(s)
           t == Append(s, a)
<1>0. /\ n \in Nat /\ DOMAIN s = 1..n /\ DOMAIN t = 1..n + 1
      /\ \A i \in 1..n : t[i] = s[i] /\ s[i] \in N
      /\ t[n + 1] = a
  OBVIOUS
<1> HIDE DEF n, t
<1>1. /\ n \in Nat /\ DOMAIN s = 1..n /\ DOMAIN t = 1..n + 1
      /\ \A i \in 1..n : t[i] = s[i] /\ s[i] \in Nat
      /\ t[n + 1] = a /\ a \in Nat
  BY <1>0
<1>2. \A i \in 1..n : s[i] < a
  BY <1>1 DEF Listed
<1>3. Ascends(t)
  <2> SUFFICES ASSUME NEW i \in 1..n + 1, NEW j \in 1..n + 1, i < j PROVE t[i] < t[j]
    BY <1>1 DEF Ascends
  <2>1. i \in 1..n
    BY <1>1
  <2>2. CASE j = n + 1
    BY <1>1, <1>2, <2>1, <2>2
  <2>3. CASE j # n + 1
    <3>1. j \in 1..n
      BY <1>1, <2>3
    <3> QED
      BY <1>1, <2>1, <3>1 DEF Ascends
  <2> QED
    BY <2>2, <2>3
<1>4. Listed(t) = Listed(s) \cup {a}
  <2>1. 1..n + 1 = (1..n) \cup {n + 1}
    BY <1>1
  <2> QED
    BY <1>1, <2>1 DEF Listed
<1> QED
  BY <1>3, <1>4 DEF t

ScanTypes ==
    /\ scanState \in {"Initial", "Scanning", "Stopped"} /\ busPort \in Ports
    /\ addresses \in Seq(Scan!Addresses)
    /\ timerSet \in BOOLEAN /\ appShown \in BOOLEAN /\ selecting \in BOOLEAN
    /\ restarted \in BOOLEAN /\ missed \in BOOLEAN
    /\ button \in {"Initial", "Scanning", "Stopped"}
    /\ scanPc \in {"idle", "probe", "found", "add", "next", "finish", "update",
                  "dead"}
    /\ address \in Scan!Addresses /\ presses \in 0..MaxPresses

ScanOrder ==
    /\ Ascends(addresses)
    /\ (scanState = "Scanning" /\ scanPc \in {"probe", "found"}) \/ scanPc = "add"
          => \A a \in Listed(addresses) : a < address
    /\ scanState = "Scanning" /\ scanPc = "next"
          => \A a \in Listed(addresses) : a <= address
    /\ scanState = "Scanning" /\ timerSet /\ scanPc \in {"idle", "update"}
          => addresses = <<>>

(* The scan that the views show is going on, and no other was before. *)
OneScan == button = "Scanning" /\ appShown /\ ~selecting /\ ~restarted

ScanComplete ==
    /\ ~restarted /\ scanPc # "idle" => ~timerSet
    /\ OneScan /\ timerSet => scanState = "Scanning" /\ addresses = <<>>
    /\ OneScan /\ scanPc \in {"probe", "found", "add", "next"}
          => scanState = "Scanning" /\ busPort \in StartedPorts
    /\ OneScan /\ scanPc \in {"probe", "found", "add"}
          => Listed(addresses) = {a \in Answering[busPort] : a < address}
    /\ OneScan /\ scanPc \in {"found", "add"} => address \in Answering[busPort]
    /\ OneScan /\ scanPc = "next"
          => Listed(addresses) = {a \in Answering[busPort] : a <= address}
    /\ OneScan /\ scanPc \in {"finish", "update"} => Listed(addresses) = Scan!Expected

ScanInv == ScanTypes /\ ScanOrder /\ ScanComplete /\ Scan!ButtonFollows

LEMMA ScanParameters ==
    /\ LastAddress \in Nat /\ MaxPresses \in Nat
    /\ \A p \in Ports \cap StartedPorts : Answering[p] \subseteq 0..LastAddress
BY InstanceParameters DEF Scan!I2cParameters, Scan!Addresses

LEMMA ScanInvHolds == Scan!Spec => []ScanInv
<1>1. Scan!Init => ScanInv
  <2> SUFFICES ASSUME Scan!Init PROVE ScanInv
    OBVIOUS
  <2>1. /\ DOMAIN <<>> = {} /\ addresses = <<>> /\ addresses \in Seq(Scan!Addresses)
        /\ 0 \in Scan!Addresses /\ 0 \in 0..MaxPresses
    BY ScanParameters DEF Scan!Init, Scan!Addresses
  <2>2. ScanTypes
    BY <2>1 DEF Scan!Init, ScanTypes
  <2>3. ScanOrder
    BY <2>1 DEF Scan!Init, ScanOrder, Ascends
  <2> QED
    BY <2>2, <2>3 DEF Scan!Init, ScanInv, ScanComplete, OneScan, Scan!ButtonFollows
<1>2. ScanInv /\ [Scan!Next]_(Scan!vars) => ScanInv'
  <2> SUFFICES ASSUME ScanInv, [Scan!Next]_(Scan!vars) PROVE ScanInv'
    OBVIOUS
  <2>0. /\ LastAddress \in Nat /\ MaxPresses \in Nat
        /\ <<>> \in Seq(Scan!Addresses) /\ Ascends(<<>>) /\ Listed(<<>>) = {}
        /\ 0 \in Scan!Addresses /\ address \in 0..LastAddress /\ address \in Nat
        /\ \A a \in Listed(addresses) : a \in 0..LastAddress
        /\ \A a \in 0..LastAddress : a \in Scan!Addresses
        /\ busPort \in StartedPorts => \A a \in Answering[busPort] : a \in 0..LastAddress
    BY ScanParameters DEF Ascends, Listed, Scan!Addresses, ScanInv, ScanTypes
  <2> USE <2>0 DEF ScanInv, ScanTypes, ScanOrder, ScanComplete, OneScan, Scan!ButtonFollows,
          Scan!viewVars, Scan!scanVars, Scan!historyVars, Scan!Scan, Scan!Expected
  <2>1. ASSUME Scan!PressStop PROVE ScanInv'
    BY <2>1 DEF Scan!PressStop
  <2>2. ASSUME Scan!StartScanning, selecting' = FALSE PROVE ScanInv'
    <3>1. ScanTypes'
      <4>1. restarted' \in BOOLEAN
        BY <2>2 DEF Scan!StartScanning
      <4>2. presses' \in 0..MaxPresses
        BY <2>2 DEF Scan!StartScanning
      <4> QED
        BY <2>2, <4>1, <4>2 DEF Scan!StartScanning
    <3>2. ScanOrder'
      BY <2>2 DEF Scan!StartScanning
    <3>3. ScanComplete'
      BY <2>2 DEF Scan!StartScanning
    <3>4. Scan!ButtonFollows'
      BY <2>2 DEF Scan!StartScanning
    <3> QED
      BY <3>1, <3>2, <3>3, <3>4
  <2>3. ASSUME Scan!PressStart PROVE ScanInv'
    BY <2>2, <2>3 DEF Scan!PressStart
  <2>4. ASSUME Scan!SelectStart PROVE ScanInv'
    BY <2>2, <2>4 DEF Scan!SelectStart
  <2>5. ASSUME Scan!Hide PROVE ScanInv'
    BY <2>5 DEF Scan!Hide
  <2>6. ASSUME NEW p \in Ports, Scan!SelectBus(p) PROVE ScanInv'
    BY <2>6 DEF Scan!SelectBus
  <2>7. ASSUME Scan!Fire PROVE ScanInv'
    <3>1. ScanTypes'
      BY <2>7 DEF Scan!Fire
    <3>2. ScanOrder'
      BY <2>7 DEF Scan!Fire
    <3>3. ScanComplete'
      <4>1. OneScan /\ scanPc' = "probe"
              => Listed(addresses) = {} /\ {a \in Answering[busPort] : a < 0} = {}
        BY <2>7 DEF Scan!Fire
      <4> QED
        BY <2>7, <4>1 DEF Scan!Fire
    <3>4. Scan!ButtonFollows'
      BY <2>7 DEF Scan!Fire
    <3> QED
      BY <3>1, <3>2, <3>3, <3>4
  <2>8. ASSUME Scan!Probe PROVE ScanInv'
    <3>1. ScanTypes'
      BY <2>8 DEF Scan!Probe
    <3>2. ScanOrder'
      BY <2>8 DEF Scan!Probe
    <3>3. ScanComplete'
      <4>1. busPort \in StartedPorts /\ address \notin Answering[busPort]
              => {a \in Answering[busPort] : a < address}
                     = {a \in Answering[busPort] : a <= address}
        OBVIOUS
      <4> QED
        BY <2>8, <4>1 DEF Scan!Probe
    <3>4. Scan!ButtonFollows'
      BY <2>8 DEF Scan!Probe
    <3> QED
      BY <3>1, <3>2, <3>3, <3>4
  <2>9. ASSUME Scan!Found PROVE ScanInv'
    BY <2>9 DEF Scan!Found
  <2>10. ASSUME Scan!Add PROVE ScanInv'
    <3>0. Scan!Addresses \in SUBSET Nat
      BY DEF Scan!Addresses
    <3>5. /\ addresses \in Seq(Scan!Addresses) /\ address \in Scan!Addresses
          /\ addresses' = Append(addresses, address)
          /\ Ascends(addresses) /\ \A a \in Listed(addresses) : a < address
      BY <2>10 DEF Scan!Add
    <3>6. /\ Ascends(addresses') /\ Listed(addresses') = Listed(addresses) \cup {address}
      BY <3>0, <3>5, AddressAppended
    <3>1. ScanTypes'
      BY <2>10, <3>6 DEF Scan!Add
    <3>2. ScanOrder'
      BY <2>10, <3>6 DEF Scan!Add
    <3>3. ScanComplete'
      <4>1. busPort \in StartedPorts /\ address \in Answering[busPort]
              => {a \in Answering[busPort] : a < address} \cup {address}
                     = {a \in Answering[busPort] : a <= address}
        OBVIOUS
      <4> QED
        BY <2>10, <3>6, <4>1 DEF Scan!Add
    <3>4. Scan!ButtonFollows'
      BY <2>10, <3>6 DEF Scan!Add
    <3> QED
      BY <3>1, <3>2, <3>3, <3>4
  <2>11. ASSUME Scan!NextAddress PROVE ScanInv'
    <3>1. ScanTypes'
      BY <2>11, ScanParameters DEF Scan!NextAddress
    <3>2. ScanOrder'
      BY <2>11, ScanParameters DEF Scan!NextAddress
    <3>3. ScanComplete'
      <4>1. busPort \in StartedPorts
              => {a \in Answering[busPort] : a < address + 1}
                     = {a \in Answering[busPort] : a <= address}
        OBVIOUS
      <4>2. busPort \in StartedPorts
              => Answering[busPort] = {a \in Answering[busPort] : a <= LastAddress}
        OBVIOUS
      <4>3. address < LastAddress \/ address = LastAddress
        OBVIOUS
      <4> QED
        BY <2>11, <4>1, <4>2, <4>3 DEF Scan!NextAddress
    <3>4. Scan!ButtonFollows'
      BY <2>11, ScanParameters DEF Scan!NextAddress
    <3> QED
      BY <3>1, <3>2, <3>3, <3>4
  <2>12. ASSUME Scan!Finish PROVE ScanInv'
    BY <2>12 DEF Scan!Finish
  <2>13. ASSUME Scan!Update PROVE ScanInv'
    BY <2>13 DEF Scan!Update
  <2>14. ASSUME Scan!UpdateTimeout PROVE ScanInv'
    BY <2>14 DEF Scan!UpdateTimeout
  <2>15. ASSUME UNCHANGED Scan!vars PROVE ScanInv'
    BY <2>15 DEF Scan!vars
  <2> QED
    BY <2>1, <2>3, <2>4, <2>5, <2>6, <2>7, <2>8, <2>9, <2>10, <2>11, <2>12, <2>13,
       <2>14, <2>15
    DEF Scan!Next, Scan!CallbackStep
<1> QED
  BY <1>1, <1>2, PTL DEF Scan!Spec

LEMMA ScanSafe == ScanInv => /\ Scan!I2cTypeOK /\ Scan!ListAscends
                             /\ Scan!ListIsComplete /\ Scan!ButtonFollows
BY DEF ScanInv, ScanTypes, ScanOrder, ScanComplete, OneScan, Listed, Ascends,
       Scan!I2cTypeOK, Scan!ListAscends, Scan!ListIsComplete

-----------------------------------------------------------------------------
(* PubSub: who has which lock where, and what the views and the subscription of an
   app say of its life.  A callback keeps its subscription, since unsubscribe()
   waits for publish(), and with LVGL it keeps the app where it is.            *)
PubLocks ==
    /\ uiPc \in {"idle", "createSubscribe", "showSubscribe", "showLock", "hideLock",
                 "hideUnsubscribe", "hideViews"}
    /\ pubPc \in {"idle", "iterate", "wantApp", "wantLvgl", "update", "end"}
    /\ psOwner = IF pubPc = "idle" THEN "free" ELSE "pub"
    /\ lvglOwner = "pub" <=> pubPc = "update"
    /\ lvglOwner = "ui" <=> uiPc \notin {"idle", "createSubscribe"}
    /\ appOwner = "pub" <=> pubPc \in {"wantLvgl", "update"} /\ psApp # "settings"
    /\ appOwner = "ui" => psApp = "manage" /\ uiPc \in {"hideUnsubscribe", "hideViews"}
    /\ uiPc = "hideLock" => psApp = "manage"
    /\ pubPc = "wantApp" => psApp # "settings"

PubLife ==
    /\ uiPc = "createSubscribe" => psApp = "connect" /\ psLife = "created"
    /\ uiPc \in {"showSubscribe", "showLock"} => psLife \in {"created", "hidden"}
    /\ uiPc \in {"hideLock", "hideUnsubscribe", "hideViews"} => psLife = "shown"
    /\ psViews <=> psLife = "shown"

PubCalls ==
    /\ subscribed => psLife # "none"
    /\ subscribed /\ psApp # "connect" => psLife = "shown" \/ uiPc = "showLock"
    /\ uiPc = "hideViews" /\ psApp # "connect" => ~subscribed
    /\ pubPc \in {"wantApp", "wantLvgl", "update"} => subscribed
    /\ pubPc \in {"wantLvgl", "update"} /\ psApp # "settings" => psViews

PubTypes ==
    /\ psApp \in Apps /\ psLife \in {"none", "created", "shown", "hidden"}
    /\ psViews \in BOOLEAN /\ subscribed \in BOOLEAN
    /\ lvglOwner \in {"free", "ui", "pub"} /\ appOwner \in {"free", "ui", "pub"}

PubInv == PubTypes /\ PubLocks /\ PubLife /\ PubCalls

LEMMA PubKinds == PubInv => psApp \in {"manage", "connect", "settings"}
<1>1. Pub!PubSubParameters
  BY InstanceParameters
<1> QED
  BY <1>1 DEF PubInv, PubTypes, Pub!PubSubParameters

LEMMA PubInvHolds == Pub!Spec => []PubInv
<1>1. Pub!Init => PubInv
  <2> SUFFICES ASSUME Pub!Init PROVE PubInv
    OBVIOUS
  <2> QED
    BY DEF Pub!Init, PubInv, PubTypes, PubLocks, PubLife, PubCalls
<1>2. PubInv /\ [Pub!Next]_(Pub!vars) => PubInv'
  <2> SUFFICES ASSUME PubInv, [Pub!Next]_(Pub!vars) PROVE PubInv'
    OBVIOUS
  <2>0. psApp \in {"manage", "connect", "settings"}
    BY PubKinds
  <2> USE <2>0 DEF PubInv, PubTypes, PubLocks, PubLife, PubCalls, Pub!Ui, Pub!Pub,
          Pub!psLocks
  <2>1. ASSUME Pub!Create PROVE PubInv'
    BY <2>1 DEF Pub!Create
  <2>2. ASSUME Pub!CreateSubscribe PROVE PubInv'
    BY <2>2 DEF Pub!CreateSubscribe, Pub!Subscribe
  <2>3. ASSUME Pub!Show PROVE PubInv'
    BY <2>3 DEF Pub!Show, Pub!BeginHook
  <2>4. ASSUME Pub!ShowSubscribe PROVE PubInv'
    BY <2>4 DEF Pub!ShowSubscribe, Pub!Subscribe
  <2>5. ASSUME Pub!ShowViews PROVE PubInv'
    BY <2>5 DEF Pub!ShowViews
  <2>6. ASSUME Pub!Hide PROVE PubInv'
    BY <2>6 DEF Pub!Hide, Pub!BeginHook
  <2>7. ASSUME Pub!HideLock PROVE PubInv'
    <3>1. PubTypes'
      BY <2>7 DEF Pub!HideLock
    <3>2. PubLocks'
      BY <2>7 DEF Pub!HideLock
    <3>3. PubLife'
      BY <2>7 DEF Pub!HideLock
    <3>4. PubCalls'
      BY <2>7 DEF Pub!HideLock
    <3> QED
      BY <3>1, <3>2, <3>3, <3>4
  <2>8. ASSUME Pub!HideUnsubscribe PROVE PubInv'
    BY <2>8 DEF Pub!HideUnsubscribe
  <2>9. ASSUME Pub!HideViews PROVE PubInv'
    <3>1. PubTypes'
      BY <2>9 DEF Pub!HideViews
    <3>2. PubLocks'
      BY <2>9 DEF Pub!HideViews
    <3>3. PubLife'
      BY <2>9 DEF Pub!HideViews
    <3>4. PubCalls'
      BY <2>9 DEF Pub!HideViews
    <3> QED
      BY <3>1, <3>2, <3>3, <3>4
  <2>10. ASSUME Pub!Destroy PROVE PubInv'
    BY <2>10 DEF Pub!Destroy
  <2>11. ASSUME Pub!Publish PROVE PubInv'
    BY <2>11 DEF Pub!Publish
  <2>12. ASSUME Pub!Call PROVE PubInv'
    <3>1. PubTypes'
      BY <2>12 DEF Pub!Call
    <3>2. PubLocks'
      BY <2>12 DEF Pub!Call
    <3>3. PubLife'
      BY <2>12 DEF Pub!Call
    <3>4. PubCalls'
      BY <2>12 DEF Pub!Call
    <3> QED
      BY <3>1, <3>2, <3>3, <3>4
  <2>13. ASSUME Pub!PublishEnd PROVE PubInv'
    BY <2>13 DEF Pub!PublishEnd
  <2>14. ASSUME Pub!CallbackLock PROVE PubInv'
    <3>1. PubTypes'
      BY <2>14 DEF Pub!CallbackLock
    <3>2. PubLocks'
      BY <2>14 DEF Pub!CallbackLock
    <3>3. PubLife'
      BY <2>14 DEF Pub!CallbackLock
    <3>4. PubCalls'
      BY <2>14 DEF Pub!CallbackLock
    <3> QED
      BY <3>1, <3>2, <3>3, <3>4
  <2>15. ASSUME Pub!CallbackLvgl PROVE PubInv'
    BY <2>15 DEF Pub!CallbackLvgl
  <2>16. ASSUME Pub!CallbackTimeout PROVE PubInv'
    BY <2>16 DEF Pub!CallbackTimeout
  <2>17. ASSUME Pub!CallbackUpdate PROVE PubInv'
    BY <2>17 DEF Pub!CallbackUpdate
  <2>18. ASSUME UNCHANGED Pub!vars PROVE PubInv'
    BY <2>18 DEF Pub!vars
  <2> QED
    BY <2>1, <2>2, <2>3, <2>4, <2>5, <2>6, <2>7, <2>8, <2>9,
       <2>10, <2>11, <2>12, <2>13, <2>14, <2>15, <2>16, <2>17, <2>18
    DEF Pub!Next, Pub!HookStep, Pub!PublishStep
<1> QED
  BY <1>1, <1>2, PTL DEF Pub!Spec

LEMMA PubSafe == PubInv => Pub!PubSubTypeOK /\ Pub!UpdatesShownViews /\ Pub!CallsLiveApp
<1> SUFFICES ASSUME PubInv
             PROVE Pub!PubSubTypeOK /\ Pub!UpdatesShownViews /\ Pub!CallsLiveApp
  OBVIOUS
<1>1. psApp \in {"manage", "connect", "settings"}
  BY PubKinds
<1>2. psOwner \in {"free", "pub"}
  BY DEF PubInv, PubLocks
<1>3. Pub!PubSubTypeOK
  BY <1>2 DEF PubInv, PubTypes, PubLocks, Pub!PubSubTypeOK
<1>4. Pub!UpdatesShownViews
  BY <1>1 DEF PubInv, PubLocks, PubLife, PubCalls, Pub!UpdatesShownViews
<1>5. Pub!CallsLiveApp
  BY <1>1 DEF PubInv, PubTypes, PubLocks, PubLife, PubCalls, Pub!CallsLiveApp
<1> QED
  BY <1>3, <1>4, <1>5

-----------------------------------------------------------------------------
(* Restart: after a panic the crash data is of that panic, and a flag that is set,
   or was reset for the boot that is going on, has been counted but not yet used. *)
FlagsPending == IF bootFlag \/ bootPc = "storage" THEN 1 ELSE 0

BootInv ==
    /\ bootFlag \in BOOLEAN
    /\ crashData \in 0..MaxPanics /\ reported \in 0..MaxPanics /\ panics \in 0..MaxPanics
    /\ resetReason \in {"power", "software", "panic", "watchdog"}
    /\ bootPc \in {"start", "usb", "storage", "init", "next", "massStorage", "splash",
                   "app"}
    /\ firstApp \in {"none", "CrashDiagnostics", "Launcher"}
    /\ requests \in 0..MaxRequests /\ flagsFound \in 0..MaxRequests
    /\ storageBoots \in Nat
    /\ storageBoots + FlagsPending <= requests + flagsFound
    /\ bootPc = "storage" => ~bootFlag
    /\ bootPc = "usb" => bootFlag
    /\ resetReason = "panic" => crashData = panics /\ panics > 0
    /\ Boot!ShowsTheLastCrash

LEMMA BootParameters == Boot!RestartParameters
BY InstanceParameters

LEMMA BootInvHolds == Boot!Spec => []BootInv
<1> USE BootParameters DEF Boot!RestartParameters, BootInv, FlagsPending,
        Boot!ShowsTheLastCrash
<1>1. Boot!Init => BootInv
  BY DEF Boot!Init
<1>2. BootInv /\ [Boot!Next]_(Boot!vars) => BootInv'
  <2> SUFFICES ASSUME BootInv, [Boot!Next]_(Boot!vars) PROVE BootInv'
    OBVIOUS
  <2> USE DEF Boot!At, Boot!Reset, Boot!rtc, Boot!boot, Boot!history
  <2>1. CASE Boot!Start
    BY <2>1 DEF Boot!Start
  <2>9. CASE Boot!ResetFlag
    BY <2>9 DEF Boot!ResetFlag
  <2>10. CASE Boot!InitApps
    BY <2>10 DEF Boot!InitApps
  <2>2. CASE Boot!StartStorage
    BY <2>2 DEF Boot!StartStorage
  <2>3. CASE Boot!StartNextApp
    BY <2>3 DEF Boot!StartNextApp
  <2>4. CASE Boot!RequestFlag
    BY <2>4 DEF Boot!RequestFlag
  <2>5. CASE Boot!Restarts
    BY <2>5 DEF Boot!Restarts
  <2>6. CASE Boot!Panic
    <3>1. PICK reason \in {"panic", "watchdog"} : Boot!Reset(reason)
      BY <2>6 DEF Boot!Panic
    <3> QED
      BY <2>6, <3>1 DEF Boot!Panic
  <2>11. CASE Boot!HardReset
    BY <2>11 DEF Boot!HardReset
  <2>7. CASE Boot!PowerCycle
    BY <2>7 DEF Boot!PowerCycle
  <2>8. CASE UNCHANGED Boot!vars
    BY <2>8 DEF Boot!vars
  <2> QED
    BY <2>1, <2>2, <2>3, <2>4, <2>5, <2>6, <2>7, <2>8, <2>9, <2>10, <2>11
    DEF Boot!Next, Boot!BootStep
<1> QED
  BY <1>1, <1>2, PTL DEF Boot!Spec

LEMMA BootSafe ==
    BootInv => Boot!RestartTypeOK /\ Boot!ShowsTheLastCrash /\ Boot!OneStorageBootPerRequest
BY BootParameters
DEF BootInv, FlagsPending, Boot!RestartTypeOK, Boot!OneStorageBootPerRequest,
    Boot!RestartParameters

-----------------------------------------------------------------------------
(* Screenshot: a thread runs for no task but the service's, or the one that the press
   handler is destroying.                                                       *)
ShotPlaces == {"none", "loop", "delay", "context", "want", "shoot", "finish", "return",
               "ended"}

ShotTypes ==
    /\ task \in 0..made /\ old \in 0..made /\ made \in 0..MaxTasks
    /\ shotMode \in {"None", "Timed", "Apps"}
    /\ pressPc \in {"idle", "ask", "stop", "start"}
    /\ kind \in [Shot!Tasks -> {"None", "Timed", "Apps"}]
    /\ shotPc \in [Shot!Tasks -> ShotPlaces]
    /\ seen \in [Shot!Tasks -> AppIds \cup {"none"}]
    /\ interrupt \in [Shot!Tasks -> BOOLEAN] /\ finished \in [Shot!Tasks -> BOOLEAN]
    /\ label \in {"Start", "Stop"} /\ topApp \in AppIds
    /\ loaderPc \in {"idle", "want", "draw"}

ShotThreads ==
    /\ \A t \in Shot!Tasks : t > made => shotPc[t] = "none"
    /\ pressPc \in {"idle", "ask"} => old = 0
    /\ pressPc = "stop" => task = 0
    /\ pressPc = "start" => task = made /\ task # 0 /\ old # task /\ shotPc[task] = "none"
    /\ \A t \in Shot!Tasks :
          Shot!Running(t) => t = IF pressPc \in {"idle", "ask"} THEN task ELSE old

ShotInv == ShotTypes /\ ShotThreads

LEMMA ShotParameters == MaxTasks \in Nat
BY InstanceParameters DEF Shot!ScreenshotParameters

LEMMA ShotInvHolds == Shot!Spec => []ShotInv
<1> USE ShotParameters DEF Shot!Tasks, Shot!NoTask
<1>1. Shot!Init => ShotInv
  BY DEF Shot!Init, ShotInv, ShotTypes, ShotThreads, ShotPlaces, Shot!Running
<1>2. ShotInv /\ [Shot!Next]_(Shot!vars) => ShotInv'
  <2> SUFFICES ASSUME ShotInv, [Shot!Next]_(Shot!vars) PROVE ShotInv'
    OBVIOUS
  <2> USE DEF ShotInv, ShotTypes, ShotThreads, ShotPlaces, Shot!Running, Shot!taskVars,
          Shot!uiVars, Shot!loaderVars
  <2>1. ASSUME Shot!PressStop PROVE ShotInv'
    BY <2>1 DEF Shot!PressStop, Shot!Asked, Shot!IsTaskStarted
  <2>2. ASSUME NEW k \in {"Timed", "Apps"}, Shot!PressStart(k) PROVE ShotInv'
    <3>1. ShotTypes'
      BY <2>2 DEF Shot!PressStart, Shot!Asked
    <3>2. ShotThreads'
      BY <2>2 DEF Shot!PressStart, Shot!Asked
    <3> QED
      BY <3>1, <3>2
  <2>3. ASSUME Shot!StopJoined PROVE ShotInv'
    BY <2>3 DEF Shot!StopJoined, Shot!Ended
  <2>4. ASSUME Shot!StartThread PROVE ShotInv'
    <3>1. ShotTypes'
      BY <2>4 DEF Shot!StartThread
    <3>2. ShotThreads'
      BY <2>4 DEF Shot!StartThread, Shot!Ended
    <3> QED
      BY <3>1, <3>2
  <2>5. ASSUME Shot!TimerTick PROVE ShotInv'
    BY <2>5 DEF Shot!TimerTick
  <2>6. ASSUME NEW t \in Shot!Tasks, Shot!Running(t), NEW there \in ShotPlaces \ {"none"},
               shotPc' = [shotPc EXCEPT ![t] = there],
               UNCHANGED <<Shot!uiVars, Shot!loaderVars, interrupt, kind>>,
               seen' \in [Shot!Tasks -> AppIds \cup {"none"}],
               finished' \in [Shot!Tasks -> BOOLEAN]
        PROVE  ShotInv'
    <3>1. ShotTypes'
      BY <2>6
    <3>2. ShotThreads'
      BY <2>6
    <3> QED
      BY <3>1, <3>2
  <2>7. ASSUME NEW t \in Shot!Tasks, Shot!TaskStep(t) PROVE ShotInv'
    <3> USE DEF Shot!Go, Shot!After
    <3>1. CASE Shot!Loop(t)
      <4>1. PICK there \in {"finish", "delay", "context"} :
              shotPc' = [shotPc EXCEPT ![t] = there]
        BY <3>1 DEF Shot!Loop
      <4> QED
        BY <2>6, <3>1, <4>1 DEF Shot!Loop
    <3>2. CASE Shot!Delay(t)
      BY <2>6, <3>2 DEF Shot!Delay
    <3>3. CASE Shot!Context(t)
      BY <2>6, <3>3 DEF Shot!Context
    <3>4. CASE Shot!LockLvgl(t)
      BY <2>6, <3>4 DEF Shot!LockLvgl
    <3>5. CASE Shot!GiveUp(t)
      BY <2>6, <3>5 DEF Shot!GiveUp
    <3>6. CASE Shot!Shoot(t)
      BY <2>6, <3>6 DEF Shot!Shoot
    <3>7. CASE Shot!SetFinished(t)
      BY <2>6, <3>7 DEF Shot!SetFinished
    <3>8. CASE Shot!ThreadEnd(t)
      BY <2>6, <3>8 DEF Shot!ThreadEnd
    <3> QED
      BY <2>7, <3>1, <3>2, <3>3, <3>4, <3>5, <3>6, <3>7, <3>8 DEF Shot!TaskStep
  <2>8. ASSUME NEW a \in AppIds, Shot!LoaderTake(a) PROVE ShotInv'
    BY <2>8 DEF Shot!LoaderTake
  <2>9. ASSUME Shot!LoaderDraw PROVE ShotInv'
    BY <2>9 DEF Shot!LoaderDraw
  <2>10. ASSUME Shot!LoaderRelease PROVE ShotInv'
    BY <2>10 DEF Shot!LoaderRelease
  <2>12. ASSUME Shot!Press PROVE ShotInv'
    BY <2>12 DEF Shot!Press, Shot!LvglFree
  <2>13. ASSUME Shot!PressIgnored PROVE ShotInv'
    BY <2>13 DEF Shot!PressIgnored, Shot!Asked
  <2>11. ASSUME UNCHANGED Shot!vars PROVE ShotInv'
    BY <2>11 DEF Shot!vars
  <2> QED
    BY <2>1, <2>2, <2>3, <2>4, <2>5, <2>7, <2>8, <2>9, <2>10, <2>11, <2>12, <2>13
    DEF Shot!Next, Shot!PressStep, Shot!LoaderStep
<1> QED
  BY <1>1, <1>2, PTL DEF Shot!Spec

LEMMA ShotSafe == ShotInv => Shot!ScreenshotTypeOK /\ Shot!ThreadHasTask
<1> USE ShotParameters DEF Shot!Tasks, Shot!NoTask, ShotInv, ShotTypes, ShotThreads,
        ShotPlaces
<1>1. ShotInv => Shot!ScreenshotTypeOK
  BY DEF Shot!ScreenshotTypeOK
<1>2. ShotInv => Shot!ThreadHasTask
  BY DEF Shot!ThreadHasTask
<1> QED
  BY <1>1, <1>2

(* What is listed are names, and no more than the guard of readTimeZones() lets through. *)
Lists == {s \in Seq(Zone!Names) : Len(s) <= MaxEntries}

LEMMA FoundType == ASSUME NEW text PROVE Zone!Found(text) \in Lists
<1> DEFINE m == Len(Zones)
           Grows(n, s) == Zones[n] \in Matches[text] /\ Len(s) < MaxEntries
           step == [x \in (1 .. m) \X Lists |->
                      IF Grows(x[1], x[2]) THEN Append(x[2], Zones[x[1]]) ELSE x[2]]
           Is(h) == h = [n \in 0 .. m |->
                          IF n = 0 THEN <<>>
                          ELSE IF Zones[n] \in Matches[text] /\ Len(h[n - 1]) < MaxEntries
                          THEN Append(h[n - 1], Zones[n])
                          ELSE h[n - 1]]
           kept == CHOOSE h : Is(h)
<1>1. MaxEntries \in Nat
  BY InstanceParameters DEF Zone!TimeZoneParameters
<1>2. m \in Nat /\ \A n \in 1 .. m : Zones[n] \in Zone!Names
  <2>1. Zones \in Seq({"Aa", "Ab", "Bb"})
    BY DEF Zones
  <2> HIDE DEF Zones
  <2> QED
    BY <2>1 DEF Zone!Names, Zone!ToSet
<1>3. ASSUME NEW n \in 1 .. m, NEW s \in Lists, Grows(n, s)
      PROVE  Append(s, Zones[n]) \in Lists
  <2>1. s \in Seq(Zone!Names) /\ Zones[n] \in Zone!Names /\ Len(s) < MaxEntries
    BY <1>2, <1>3 DEF Lists
  <2>2. Append(s, Zones[n]) \in Seq(Zone!Names) /\ Len(Append(s, Zones[n])) = Len(s) + 1
        /\ Len(s) \in Nat
    BY <2>1
  <2> QED
    BY <1>1, <2>1, <2>2 DEF Lists
<1>4. <<>> \in Lists
  BY <1>1 DEF Lists
<1> HIDE DEF Lists, Zones
<1>5. ASSUME NEW n \in 1 .. m, NEW s \in Lists
      PROVE  step[<<n, s>>] = IF Grows(n, s) THEN Append(s, Zones[n]) ELSE s
  <2> HIDE DEF m, Grows
  <2> QED
    OBVIOUS
<1>6. \A n \in 1 .. m : \A s \in Lists : step[<<n, s>>] \in Lists
  <2> HIDE DEF m, Grows, step
  <2> QED
    BY <1>3, <1>5
<1>7. \E h : Is(h)
  <2>1. PICK h : Folds(h, m, <<>>, step)
    BY <1>2, FoldExists
  <2>2. \A n \in 0 .. m : h[n] \in Lists
    <3> HIDE DEF step, m
    <3> QED
      BY <1>2, <1>4, <1>6, <2>1, FoldType, Zenon
  <2>3. ASSUME NEW n \in 0 .. m, n # 0
        PROVE  step[<<n, h[n - 1]>>] =
                   IF Grows(n, h[n - 1]) THEN Append(h[n - 1], Zones[n]) ELSE h[n - 1]
    <3>1. n \in 1 .. m /\ n - 1 \in 0 .. m
      BY <1>2, <2>3
    <3>2. h[n - 1] \in Lists
      BY <2>2, <3>1
    <3> HIDE DEF m, Grows, step
    <3> QED
      BY <1>5, <3>1, <3>2
  <2>4. Is(h)
    <3> HIDE DEF step
    <3> QED
      BY <2>1, <2>3, Zenon DEF Folds
  <2> QED
    BY <2>4
<1>8. Is(kept)
  <2> HIDE DEF Is
  <2> QED
    BY <1>7, Zenon
<1>9. Zone!Found(text) = kept[m]
  BY DEF Zone!Found
<1> DEFINE T == {n \in 0 .. m : kept[n] \in Lists}
<1> HIDE DEF kept
<1>10. 0 \in T
  BY <1>2, <1>4, <1>8
<1>11. ASSUME NEW n \in 1 .. m, n - 1 \in T PROVE n \in T
  <2>1. n \in 0 .. m /\ n # 0 /\ kept[n - 1] \in Lists
    BY <1>2, <1>11
  <2>2. kept[n] = IF Grows(n, kept[n - 1]) THEN Append(kept[n - 1], Zones[n])
                  ELSE kept[n - 1]
    <3> HIDE DEF m, step
    <3> QED
      BY <1>8, <2>1
  <2>3. kept[n] \in Lists
    <3> HIDE DEF m, step, Grows
    <3> QED
      BY <1>3, <2>1, <2>2
  <2> QED
    BY <2>1, <2>3
<1>12. 0 .. m \subseteq T
  <2> HIDE DEF T, Is
  <2> QED
    BY <1>2, <1>10, <1>11, UpTo
<1> QED
  BY <1>2, <1>9, <1>12

ZoneTypes ==
    /\ tzText \in Texts
    /\ tzEntries \in Lists /\ tzList \in Lists
    /\ tzShown \in BOOLEAN /\ tzTimer \in BOOLEAN
    /\ tzStopping \in BOOLEAN /\ tzSkipped \in BOOLEAN
    /\ tzPc \in {"idle", "read", "rebuild", "dead"}
    /\ tzPicked \in (Zone!Names \cup {NoZone}) \X (Zone!Names \cup {NoZone})

LEMMA ZoneTyped == ZoneTypes => Zone!TimeZoneTypeOK
<1> SUFFICES ASSUME ZoneTypes PROVE Zone!TimeZoneTypeOK
  OBVIOUS
<1>1. MaxEntries \in Nat
  BY InstanceParameters DEF Zone!TimeZoneParameters
<1>2. ASSUME NEW s \in Lists PROVE s \in Zone!BoundedSeq(Zone!Names, MaxEntries)
  <2>1. s \in [1 .. Len(s) -> Zone!Names] /\ Len(s) \in 0 .. MaxEntries
    BY <1>1 DEF Lists
  <2> QED
    BY <2>1 DEF Zone!BoundedSeq, Zone!SeqOf
<1> QED
  BY <1>2 DEF ZoneTypes, Zone!TimeZoneTypeOK

LEMMA ZoneKeepsTypes == Zone!Spec => []Zone!TimeZoneTypeOK
<1>1. Zone!Init => ZoneTypes
  <2>1. <<>> \in Lists
    BY InstanceParameters DEF Zone!TimeZoneParameters, Lists
  <2> SUFFICES ASSUME Zone!Init PROVE ZoneTypes
    OBVIOUS
  <2>2. tzEntries \in Lists /\ tzList \in Lists
    BY <2>1, Zenon DEF Zone!Init
  <2>3. <<NoZone, NoZone>> \in (Zone!Names \cup {NoZone}) \X (Zone!Names \cup {NoZone})
    OBVIOUS
  <2>4. tzPicked \in (Zone!Names \cup {NoZone}) \X (Zone!Names \cup {NoZone})
    BY <2>3, Zenon DEF Zone!Init
  <2> QED
    BY <2>2, <2>4 DEF Zone!Init, ZoneTypes
<1>2. ZoneTypes /\ [Zone!Next]_(Zone!vars) => ZoneTypes'
  <2> SUFFICES ASSUME ZoneTypes, [Zone!Next]_(Zone!vars) PROVE ZoneTypes'
    OBVIOUS
  <2> USE DEF ZoneTypes, Zone!appSide
  <2>1. ASSUME NEW t \in Texts, Zone!Type(t) PROVE ZoneTypes'
    BY <2>1 DEF Zone!Type
  <2>2. ASSUME NEW i \in DOMAIN tzList, Zone!Select(i) PROVE ZoneTypes'
    <3>1. tzList[i] \in Zone!Names /\ (i <= Len(tzEntries) => tzEntries[i] \in Zone!Names)
      BY DEF Lists
    <3> QED
      BY <2>2, <3>1 DEF Zone!Select
  <2>3. ASSUME Zone!Hide PROVE ZoneTypes'
    <3>1. <<>> \in Lists
      BY InstanceParameters DEF Zone!TimeZoneParameters, Lists
    <3> QED
      BY <2>3, <3>1 DEF Zone!Hide
  <2>4. ASSUME Zone!Fire PROVE ZoneTypes'
    BY <2>4 DEF Zone!Fire
  <2>5. ASSUME Zone!Read PROVE ZoneTypes'
    BY <2>5, FoundType DEF Zone!Read
  <2>6. ASSUME Zone!Rebuild PROVE ZoneTypes'
    BY <2>6 DEF Zone!Rebuild
  <2>7. ASSUME Zone!GiveUp PROVE ZoneTypes'
    BY <2>7 DEF Zone!GiveUp
  <2>9. ASSUME Zone!Close PROVE ZoneTypes'
    BY <2>9 DEF Zone!Close
  <2>8. ASSUME UNCHANGED Zone!vars PROVE ZoneTypes'
    BY <2>8 DEF Zone!vars
  <2> QED
    BY <2>1, <2>2, <2>3, <2>4, <2>5, <2>6, <2>7, <2>8, <2>9 DEF Zone!Next, Zone!Callback
<1> QED
  BY <1>1, <1>2, ZoneTyped, PTL DEF Zone!Spec

(* TimeZone: the callback gives up, or it leaves the list as it leaves the entries. *)
LEMMA ZoneSafe == Zone!Spec => []Zone!ItemsMeanEntries
<1> USE DEF Zone!ItemsMeanEntries, Zone!appSide
<1>1. Zone!Init => Zone!ItemsMeanEntries
  BY DEF Zone!Init
<1>2. Zone!ItemsMeanEntries /\ [Zone!Next]_(Zone!vars) => Zone!ItemsMeanEntries'
  <2> SUFFICES ASSUME Zone!ItemsMeanEntries, [Zone!Next]_(Zone!vars)
               PROVE  Zone!ItemsMeanEntries'
    OBVIOUS
  <2>1. ASSUME NEW t \in Texts, Zone!Type(t) PROVE Zone!ItemsMeanEntries'
    BY <2>1 DEF Zone!Type
  <2>2. ASSUME NEW i \in DOMAIN tzList, Zone!Select(i) PROVE Zone!ItemsMeanEntries'
    BY <2>2 DEF Zone!Select
  <2>3. ASSUME Zone!Hide PROVE Zone!ItemsMeanEntries'
    BY <2>3 DEF Zone!Hide
  <2>4. ASSUME Zone!Fire PROVE Zone!ItemsMeanEntries'
    BY <2>4 DEF Zone!Fire
  <2>5. ASSUME Zone!Read PROVE Zone!ItemsMeanEntries'
    BY <2>5 DEF Zone!Read
  <2>6. ASSUME Zone!Rebuild PROVE Zone!ItemsMeanEntries'
    BY <2>6 DEF Zone!Rebuild
  <2>7. ASSUME Zone!GiveUp PROVE Zone!ItemsMeanEntries'
    BY <2>7 DEF Zone!GiveUp
  <2>9. ASSUME Zone!Close PROVE Zone!ItemsMeanEntries'
    BY <2>9 DEF Zone!Close
  <2>8. ASSUME UNCHANGED Zone!vars PROVE Zone!ItemsMeanEntries'
    BY <2>8 DEF Zone!vars
  <2> QED
    BY <2>1, <2>2, <2>3, <2>4, <2>5, <2>6, <2>7, <2>8, <2>9 DEF Zone!Next, Zone!Callback
<1> QED
  BY <1>1, <1>2, PTL DEF Zone!Spec

-----------------------------------------------------------------------------
(* The SD card: who has the bus where, and a card is there from getState() on until
   the service itself has unmounted it.                                        *)
SdInv ==
    /\ Sd!SdCardTypeOK
    /\ sdBus = "service" <=> probePc = "status"
    /\ sdBus = "user" <=> userPc \in {"status", "locked"}
    /\ probePc # "idle" => card

LEMMA SdInvHolds == Sd!Spec => []SdInv
<1> USE DEF SdInv, Sd!SdCardTypeOK
<1>1. Sd!Init => SdInv
  BY DEF Sd!Init
<1>2. SdInv /\ [Sd!Next]_(Sd!vars) => SdInv'
  <2> SUFFICES ASSUME SdInv, [Sd!Next]_(Sd!vars) PROVE SdInv'
    OBVIOUS
  <2> USE DEF Sd!Lock, Sd!Unlock, Sd!Probing, Sd!Using, Sd!deviceVars, Sd!probeVars,
              Sd!userVars
  <2>1. CASE Sd!Eject \/ Sd!Draw \/ Sd!Drawn \/ UNCHANGED Sd!vars
    BY <2>1 DEF Sd!Eject, Sd!Draw, Sd!Drawn, Sd!vars
  <2>2. CASE Sd!ProbeStep
    BY <2>2 DEF Sd!ProbeStep, Sd!Probe, Sd!ProbeLock, Sd!ProbeLockTimeout, Sd!Status,
       Sd!Unmount, Sd!UnmountFails
  <2>3. CASE Sd!UserStep
    BY <2>3 DEF Sd!UserStep, Sd!Find, Sd!FindLock, Sd!FindLockTimeout, Sd!FindStatus,
       Sd!FileLock, Sd!FileUnlock, Sd!FileDone
  <2> QED
    BY <2>1, <2>2, <2>3 DEF Sd!Next
<1> QED
  BY <1>1, <1>2, PTL DEF Sd!Spec

LEMMA SdSafe == SdInv => Sd!SdCardTypeOK /\ Sd!ProbesAlone
BY DEF SdInv, Sd!ProbesAlone

-----------------------------------------------------------------------------
(* SerialConsole: what each thread and the handler say of the UART and of the view.
   The handler comes to the UART only after it has waited for both threads.      *)
ConsTypes ==
    /\ activeView \in {"none", "connect", "console"} /\ nextView \in {"none", "connect"}
    /\ consPc \in {"idle", "stopViews", "joinViews", "stopLogic", "joinLogic", "stopUart"}
    /\ readerPc \in {"none", "check", "read", "store", "ended"}
    /\ drawerPc \in {"none", "check", "lock", "draw", "ended"}
    /\ uartOpen \in BOOLEAN /\ uartOn \in BOOLEAN /\ fresh \in BOOLEAN
    /\ readerStop \in BOOLEAN /\ drawerStop \in BOOLEAN
    /\ position \in 0..BufferSize - 1 /\ stored \in 0..BufferSize

ConsThreads ==
    /\ uartOpen <=> activeView = "console"
    /\ uartOn <=> uartOpen
    /\ consPc # "idle" => activeView = "console"
    /\ activeView # "console" => Cons!Ended(readerPc) /\ Cons!Ended(drawerPc)
    /\ consPc \in {"stopLogic", "joinLogic", "stopUart"} => Cons!Ended(drawerPc)
    /\ consPc = "stopUart" => Cons!Ended(readerPc)

ConsInv == ConsTypes /\ ConsThreads

LEMMA ConsParameters == Cons!ConsoleParameters
BY InstanceParameters

LEMMA ConsInvHolds == Cons!Spec => []ConsInv
<1>1. Cons!Init => ConsInv
  <2> SUFFICES ASSUME Cons!Init PROVE ConsInv
    OBVIOUS
  <2>1. 0 \in 0..BufferSize - 1 /\ 0 \in 0..BufferSize
    BY ConsParameters DEF Cons!ConsoleParameters
  <2>2. ConsTypes
    BY <2>1 DEF Cons!Init, ConsTypes
  <2>3. ConsThreads
    BY DEF Cons!Init, ConsThreads, Cons!Ended
  <2> QED
    BY <2>2, <2>3 DEF ConsInv
<1>2. ConsInv /\ [Cons!Next]_(Cons!vars) => ConsInv'
  <2> SUFFICES ASSUME ConsInv, [Cons!Next]_(Cons!vars) PROVE ConsInv'
    OBVIOUS
  <2> USE ConsParameters DEF ConsInv, ConsTypes, ConsThreads, Cons!Ended, Cons!LvglFree,
          Cons!handlerVars, Cons!consUart, Cons!receiveVars, Cons!readerVars,
          Cons!drawerVars, Cons!ConsoleParameters
  <2>1. ASSUME Cons!Show PROVE ConsInv'
    BY <2>1 DEF Cons!Show
  <2>2. ASSUME Cons!ConnectFail PROVE ConsInv'
    BY <2>2 DEF Cons!ConnectFail, Cons!vars
  <2>3. ASSUME Cons!Connect PROVE ConsInv'
    <3>1. 0 \in 0..BufferSize
      OBVIOUS
    <3>2. ConsTypes'
      BY <2>3, <3>1 DEF Cons!Connect
    <3>3. ConsThreads'
      BY <2>3 DEF Cons!Connect
    <3> QED
      BY <3>2, <3>3
  <2>4. ASSUME NEW view \in {"none", "connect"}, Cons!Leave(view) PROVE ConsInv'
    BY <2>4 DEF Cons!Leave
  <2>5. ASSUME Cons!StopViews PROVE ConsInv'
    BY <2>5 DEF Cons!StopViews, Cons!Handler
  <2>6. ASSUME Cons!JoinViews PROVE ConsInv'
    BY <2>6 DEF Cons!JoinViews, Cons!Handler
  <2>7. ASSUME Cons!StopLogic PROVE ConsInv'
    BY <2>7 DEF Cons!StopLogic, Cons!Handler
  <2>8. ASSUME Cons!JoinLogic PROVE ConsInv'
    BY <2>8 DEF Cons!JoinLogic, Cons!Handler
  <2>9. ASSUME Cons!StopUart PROVE ConsInv'
    BY <2>9 DEF Cons!StopUart, Cons!Handler
  <2>10. ASSUME Cons!ReaderCheck PROVE ConsInv'
    BY <2>10 DEF Cons!ReaderCheck, Cons!Reader
  <2>11. ASSUME Cons!ReaderRead PROVE ConsInv'
    BY <2>11 DEF Cons!ReaderRead, Cons!Reader
  <2>12. ASSUME Cons!ReaderStore PROVE ConsInv'
    BY <2>12 DEF Cons!ReaderStore, Cons!Reader, Cons!Counted
  <2>13. ASSUME Cons!DrawerCheck PROVE ConsInv'
    BY <2>13 DEF Cons!DrawerCheck, Cons!Drawer
  <2>14. ASSUME Cons!DrawerLock PROVE ConsInv'
    BY <2>14 DEF Cons!DrawerLock, Cons!Drawer
  <2>15. ASSUME Cons!DrawerTimeout PROVE ConsInv'
    BY <2>15 DEF Cons!DrawerTimeout, Cons!Drawer
  <2>16. ASSUME Cons!DrawerDraw PROVE ConsInv'
    BY <2>16 DEF Cons!DrawerDraw, Cons!Drawer
  <2>17. ASSUME UNCHANGED Cons!vars PROVE ConsInv'
    BY <2>17 DEF Cons!vars
  <2> QED
    BY <2>1, <2>2, <2>3, <2>4, <2>5, <2>6, <2>7, <2>8, <2>9, <2>10, <2>11, <2>12,
       <2>13, <2>14, <2>15, <2>16, <2>17
    DEF Cons!Next, Cons!HandlerStep, Cons!ReaderStep, Cons!DrawerStep
<1> QED
  BY <1>1, <1>2, PTL DEF Cons!Spec

LEMMA ConsSafe ==
    ConsInv => Cons!ConsoleTypeOK /\ Cons!ThreadsUseLiveObjects /\ Cons!QuietUnlessConsole
BY DEF ConsInv, ConsTypes, ConsThreads, Cons!Ended, Cons!ConsoleTypeOK,
       Cons!ThreadsUseLiveObjects, Cons!QuietUnlessConsole

-----------------------------------------------------------------------------
(* Statusbar: the mutex is held from a change of the icon to its drawing, by the
   thread that is about to draw.                                             *)
BarPlaces == {"add", "drawAdded", "update", "setImage", "drawImage", "show", "hide",
              "drawVisible", "remember", "updated", "done", "idle", "clock", "drawClock"}
BarDrawing == {"drawAdded", "drawImage", "drawVisible", "drawClock"}

BarInv ==
    /\ desired \in Images \cup {NoImage, Unknown} /\ lastIcon \in Images \cup {NoImage}
    /\ image \in Images \cup {NoImage} /\ sbDrawn \in Images \cup {NoImage}
    /\ visible \in BOOLEAN /\ claimed \in BOOLEAN /\ lvglBusy \in BOOLEAN
    /\ armed \in BOOLEAN /\ started \in BOOLEAN /\ undrawn \in BOOLEAN
    /\ iconLost \in BOOLEAN /\ tickLost \in BOOLEAN
    /\ sbPc \in [Bar!Threads -> BarPlaces]
    /\ wanted \in [Bar!Threads -> Images \cup {NoImage}]
    /\ sbOwner \in Bar!Threads \cup {"free"}
    /\ \A t \in Bar!Threads : sbOwner = t <=> sbPc[t] \in BarDrawing
    /\ Bar!WidgetShowsIcons

LEMMA BarInvHolds == Bar!Spec => []BarInv
<1> USE DEF BarInv, BarPlaces, BarDrawing, Bar!Threads, Bar!WidgetShowsIcons, Bar!Look
<1>1. Bar!Init => BarInv
  BY DEF Bar!Init
<1>2. BarInv /\ [Bar!Next]_(Bar!vars) => BarInv'
  <2> SUFFICES ASSUME BarInv, [Bar!Next]_(Bar!vars) PROVE BarInv'
    OBVIOUS
  <2> USE DEF Bar!iconVars, Bar!misses, Bar!Step
  <2>1. ASSUME NEW t \in Bar!Threads, NEW here \in BarDrawing, NEW there \in BarPlaces,
               there \notin BarDrawing, Bar!Publish(t, here, there)
        PROVE  BarInv'
    <3>1. CASE Bar!Draw(t, here, there)
      BY <2>1, <3>1 DEF Bar!Draw
    <3>2. CASE Bar!DrawTimeout(t, here, there)
      BY <2>1, <3>2 DEF Bar!DrawTimeout
    <3> QED
      BY <2>1, <3>1, <3>2 DEF Bar!Publish
  <2>2. ASSUME NEW t \in Bar!Threads, Bar!UpdateStep(t) PROVE BarInv'
    <3>1. CASE Bar!Update(t)
      <4>1. CASE desired \in {lastIcon, Unknown}
        BY <3>1, <4>1 DEF Bar!Update
      <4>2. CASE desired \notin {lastIcon, Unknown}
        <5>1. /\ desired \in Images \cup {NoImage}
              /\ wanted' = [wanted EXCEPT ![t] = desired]
              /\ iconLost' = FALSE
              /\ UNCHANGED <<desired, Bar!iconVars, sbDrawn, sbOwner, lvglBusy, armed,
                             started, undrawn, tickLost>>
          BY <3>1, <4>2 DEF Bar!Update
        <5>2. PICK there \in {"hide", "setImage"} : Bar!Step(t, "update", there)
          BY <3>1, <4>2 DEF Bar!Update
        <5>3. /\ sbPc' \in [Bar!Threads -> BarPlaces]
              /\ wanted' \in [Bar!Threads -> Images \cup {NoImage}]
          BY <5>1, <5>2
        <5>4. \A u \in Bar!Threads : sbOwner' = u <=> sbPc'[u] \in BarDrawing
          BY <5>1, <5>2
        <5>5. UNCHANGED <<desired, lastIcon, image, visible, claimed, sbDrawn, sbOwner,
                          lvglBusy, armed, started, undrawn, tickLost>>
          BY <5>1
        <5>6. Bar!WidgetShowsIcons'
          BY <5>5, Zenon
        <5> QED
          BY <5>1, <5>3, <5>4, <5>5, <5>6, Zenon
      <4> QED
        BY <4>1, <4>2
    <3>2. CASE Bar!SetImage(t)
      <4>1. CASE /\ Bar!Step(t, "setImage", "drawImage") /\ Bar!Lock(t)
                 /\ image' = wanted[t]
                 /\ UNCHANGED <<desired, lastIcon, visible, claimed, sbDrawn, wanted, lvglBusy,
                                armed, started, undrawn, Bar!misses>>
        BY <4>1 DEF Bar!Lock
      <4>2. CASE /\ Bar!Step(t, "setImage", "show") /\ Bar!LockTimeout(t)
                 /\ iconLost' = TRUE
                 /\ UNCHANGED <<desired, Bar!iconVars, sbDrawn, wanted, sbOwner, lvglBusy,
                                armed, started, undrawn, tickLost>>
        BY <4>2 DEF Bar!LockTimeout
      <4> QED
        BY <3>2, <4>1, <4>2 DEF Bar!SetImage
    <3>3. CASE Bar!DrawImage(t)
      BY <2>1, <3>3 DEF Bar!DrawImage
    <3>4. CASE Bar!SetVisible(t)
      <4> SUFFICES ASSUME NEW at \in {"show", "hide"},
                          \/ /\ Bar!Step(t, at, "drawVisible")
                             /\ Bar!Lock(t)
                             /\ visible' = (at = "show")
                             /\ UNCHANGED <<desired, lastIcon, image, claimed, sbDrawn, wanted,
                                            lvglBusy, armed, started, undrawn, Bar!misses>>
                          \/ /\ Bar!Step(t, at, "remember")
                             /\ Bar!LockTimeout(t)
                             /\ iconLost' = TRUE
                             /\ UNCHANGED <<desired, Bar!iconVars, sbDrawn, wanted, sbOwner,
                                            lvglBusy, armed, started, undrawn, tickLost>>
                   PROVE  BarInv'
        BY <3>4 DEF Bar!SetVisible
      <4>1. CASE Bar!Step(t, at, "drawVisible") /\ Bar!Lock(t)
        BY <4>1 DEF Bar!Lock, Bar!LockTimeout
      <4>2. CASE Bar!Step(t, at, "remember") /\ Bar!LockTimeout(t)
        BY <4>2, ZenonT(30) DEF Bar!Lock, Bar!LockTimeout
      <4> QED
        BY <4>1, <4>2
    <3>5. CASE Bar!DrawVisible(t)
      BY <2>1, <3>5 DEF Bar!DrawVisible
    <3>6. CASE Bar!Remember(t)
      BY <3>6 DEF Bar!Remember
    <3>7. CASE Bar!Updated(t)
      BY <3>7 DEF Bar!Updated
    <3> QED
      BY <2>2, <3>1, <3>2, <3>3, <3>4, <3>5, <3>6, <3>7 DEF Bar!UpdateStep
  <2>3. ASSUME Bar!IconAdd PROVE BarInv'
    BY <2>3 DEF Bar!IconAdd, Bar!Lock
  <2>4. ASSUME Bar!DrawAdded PROVE BarInv'
    BY <2>1, <2>4 DEF Bar!DrawAdded
  <2>5. ASSUME Bar!Clock PROVE BarInv'
    <3>1. CASE Bar!Lock("timer")
      BY <2>5, <3>1 DEF Bar!Clock, Bar!Lock, Bar!LockTimeout
    <3>2. CASE Bar!LockTimeout("timer")
      BY <2>5, <3>2, ZenonT(30) DEF Bar!Clock, Bar!Lock, Bar!LockTimeout
    <3>3. ASSUME Bar!Step("timer", "clock", "idle"), sbOwner = "free",
                 UNCHANGED <<desired, Bar!iconVars, sbDrawn, wanted, sbOwner, lvglBusy,
                             started, undrawn, Bar!misses>>,
                 armed' = TRUE
          PROVE  BarInv'
      BY <3>3
    <3> QED
      BY <2>5, <3>1, <3>2, <3>3 DEF Bar!Clock
  <2>6. ASSUME Bar!DrawClock PROVE BarInv'
    BY <2>1, <2>6 DEF Bar!DrawClock
  <2>7. ASSUME Bar!ServiceTimer PROVE BarInv'
    BY <2>7 DEF Bar!ServiceTimer
  <2>8. ASSUME Bar!ClockTimer PROVE BarInv'
    BY <2>8, ZenonT(30) DEF Bar!ClockTimer
  <2>9. ASSUME Bar!TimeEvent PROVE BarInv'
    BY <2>9 DEF Bar!TimeEvent
  <2>10. ASSUME Bar!StateChanges PROVE BarInv'
    BY <2>10 DEF Bar!StateChanges
  <2>11. ASSUME Bar!LvglUse PROVE BarInv'
    BY <2>11 DEF Bar!LvglUse
  <2>12. ASSUME UNCHANGED Bar!vars PROVE BarInv'
    BY <2>12 DEF Bar!vars
  <2> QED
    BY <2>2, <2>3, <2>4, <2>5, <2>6, <2>7, <2>8, <2>9, <2>10, <2>11, <2>12
    DEF Bar!Next, Bar!MainStep, Bar!TimerStep
<1> QED
  BY <1>1, <1>2, PTL DEF Bar!Spec

LEMMA BarSafe == BarInv => Bar!StatusbarTypeOK /\ Bar!WidgetShowsIcons
BY DEF BarInv, Bar!StatusbarTypeOK

-----------------------------------------------------------------------------
(* A behaviour of the parts, seen through the variables of one of them, is a
   behaviour of that component.                                              *)
LEMMA PartsAreThread == PartsSpec => Spec
<1>1. PartsInit => Init
  BY DEF PartsInit
<1>2. [PartsNext]_allVars => [Next]_vars
  BY DEF PartsNext, Rest, allVars
<1> QED
  BY <1>1, <1>2, PTL DEF PartsSpec, Spec

LEMMA PartsAreNow == PartsSpec => Now!Spec
<1>1. PartsInit => Now!Init
  BY DEF PartsInit
<1>2. [PartsNext]_allVars => [Now!Next]_(Now!vars)
  BY DEF PartsNext, Rest, allVars, nowVars, Now!vars, Now!mainVars, Now!chatVars
<1> QED
  BY <1>1, <1>2, PTL DEF PartsSpec, Now!Spec

LEMMA PartsAreSat == PartsSpec => Sat!Spec
<1>1. PartsInit => Sat!Init
  BY DEF PartsInit
<1>2. [PartsNext]_allVars => [Sat!Next]_(Sat!vars)
  BY DEF PartsNext, Rest, allVars, satVars, Sat!vars, Sat!mainVars,
     Sat!deviceVars, Sat!uartVars
<1> QED
  BY <1>1, <1>2, PTL DEF PartsSpec, Sat!Spec

LEMMA PartsAreScan == PartsSpec => Scan!Spec
<1>1. PartsInit => Scan!Init
  BY DEF PartsInit
<1>2. [PartsNext]_allVars => [Scan!Next]_(Scan!vars)
  BY DEF PartsNext, Rest, allVars, scanVars, Scan!vars, Scan!viewVars,
     Scan!scanVars, Scan!historyVars
<1> QED
  BY <1>1, <1>2, PTL DEF PartsSpec, Scan!Spec

LEMMA PartsArePub == PartsSpec => Pub!Spec
<1>1. PartsInit => Pub!Init
  BY DEF PartsInit
<1>2. [PartsNext]_allVars => [Pub!Next]_(Pub!vars)
  BY DEF PartsNext, Rest, allVars, pubVars, Pub!vars, Pub!psLocks
<1> QED
  BY <1>1, <1>2, PTL DEF PartsSpec, Pub!Spec

LEMMA PartsAreBoot == PartsSpec => Boot!Spec
<1>1. PartsInit => Boot!Init
  BY DEF PartsInit
<1>2. [PartsNext]_allVars => [Boot!Next]_(Boot!vars)
  BY DEF PartsNext, Rest, allVars, bootVars, Boot!vars, Boot!rtc, Boot!boot,
     Boot!history
<1> QED
  BY <1>1, <1>2, PTL DEF PartsSpec, Boot!Spec

LEMMA PartsAreShot == PartsSpec => Shot!Spec
<1>1. PartsInit => Shot!Init
  BY DEF PartsInit
<1>2. [PartsNext]_allVars => [Shot!Next]_(Shot!vars)
  BY DEF PartsNext, Rest, allVars, shotVars, Shot!vars, Shot!taskVars,
     Shot!uiVars, Shot!loaderVars
<1> QED
  BY <1>1, <1>2, PTL DEF PartsSpec, Shot!Spec

LEMMA PartsAreSd == PartsSpec => Sd!Spec
<1>1. PartsInit => Sd!Init
  BY DEF PartsInit
<1>2. [PartsNext]_allVars => [Sd!Next]_(Sd!vars)
  BY DEF PartsNext, Rest, allVars, sdVars, Sd!vars, Sd!deviceVars, Sd!probeVars,
     Sd!userVars
<1> QED
  BY <1>1, <1>2, PTL DEF PartsSpec, Sd!Spec

LEMMA PartsAreCons == PartsSpec => Cons!Spec
<1>1. PartsInit => Cons!Init
  BY DEF PartsInit
<1>2. [PartsNext]_allVars => [Cons!Next]_(Cons!vars)
  BY DEF PartsNext, Rest, allVars, consVars, Cons!vars, Cons!consUart,
     Cons!receiveVars, Cons!readerVars, Cons!drawerVars, Cons!handlerVars
<1> QED
  BY <1>1, <1>2, PTL DEF PartsSpec, Cons!Spec

LEMMA PartsAreBar == PartsSpec => Bar!Spec
<1>1. PartsInit => Bar!Init
  BY DEF PartsInit
<1>2. [PartsNext]_allVars => [Bar!Next]_(Bar!vars)
  BY DEF PartsNext, Rest, allVars, barVars, Bar!vars, Bar!iconVars, Bar!misses
<1> QED
  BY <1>1, <1>2, PTL DEF PartsSpec, Bar!Spec

LEMMA PartsAreZone == PartsSpec => Zone!Spec
<1>1. PartsInit => Zone!Init
  BY DEF PartsInit
<1>2. [PartsNext]_allVars => [Zone!Next]_(Zone!vars)
  BY DEF PartsNext, Rest, allVars, zoneVars, Zone!vars, Zone!appSide
<1> QED
  BY <1>1, <1>2, PTL DEF PartsSpec, Zone!Spec

-----------------------------------------------------------------------------
(* No callback and no thread uses an app, a device or a buffer that is gone, nor a
   view of an app that is shown and has none (ChatApp, GpsService, the subscribers
   of PubSub, ScreenshotTask, the threads of the serial console), for any number of
   jobs, devices, tasks and bytes. That Chat draws while it is not shown is not
   excluded: it does. *)
THEOREM LiveThingsAreUsed == PartsSpec => []OnlyLiveIsUsed
<1>1. NowInv /\ SatInv /\ PubInv /\ ShotInv /\ ConsInv => OnlyLiveIsUsed
  BY NowSafe, SatSafe, PubSafe, ShotSafe, ConsSafe DEF OnlyLiveIsUsed
<1> QED
  BY <1>1, PartsAreNow, NowInvHolds, PartsAreSat, SatInvHolds, PartsArePub, PubInvHolds,
     PartsAreShot, ShotInvHolds, PartsAreCons, ConsInvHolds, PTL

(* The radio has one user unless Chat was closed before its enable(), a UART is never
   found in use by the GPS, and the SD card is probed with its bus locked, for any
   configurations, sessions and requests of the user (EspNowService, GpsDevice,
   SpiSdCardDevice).                                                               *)
THEOREM NothingIsShared == PartsSpec => []UsedAlone
<1>1. NowInv /\ SatInv /\ SdInv => UsedAlone
  BY NowSafe, SatSafe, SdSafe DEF UsedAlone
<1> QED
  BY <1>1, PartsAreNow, NowInvHolds, PartsAreSat, SatInvHolds, PartsAreSd, SdInvHolds, PTL

(* ESP-NOW with Chat closed, a GPS that is off and a serial console that is left
   keep nothing running or open, however often they were used before (disable(),
   stopReceiving(), onStop() of the ConsoleView), but for an ESP-NOW whose enable()
   was still queued or whose driver failed. *)
THEOREM WhatIsOffIsQuiet == PartsSpec => []OffIsQuiet
<1>1. NowInv /\ SatInv /\ ConsInv => OffIsQuiet
  BY NowSafe, SatSafe, ConsSafe DEF OffIsQuiet
<1> QED
  BY <1>1, PartsAreNow, NowInvHolds, PartsAreSat, SatInvHolds, PartsAreCons, ConsInvHolds,
     PTL

(* What the I2C scanner lists, what its button says, what boot reports, the icons of
   the statusbar and the list of time zones are true whenever their modules promise it
   (onScanTimer(), updateViews(), boot, statusbar_pubsub_event(),
   onListItemSelected()), for any ports, addresses, panics, images and texts.       *)
THEOREM WhatIsShownIsTrue == PartsSpec => []ShownIsTrue
<1>1. ScanInv /\ BootInv /\ BarInv /\ Zone!ItemsMeanEntries => ShownIsTrue
  BY ScanSafe, BootSafe, BarSafe DEF ShownIsTrue
<1> QED
  BY <1>1, PartsAreScan, ScanInvHolds, PartsAreBoot, BootInvHolds, PartsAreBar,
     BarInvHolds, PartsAreZone, ZoneSafe, PTL

(* Every variable of every component keeps its type, for every value of the constants. *)
THEOREM TypesAreKept == PartsSpec => []TypesOK
<1>1. ASSUME NowInv, SatInv, ScanInv, PubInv, BootInv, ShotInv, SdInv, ConsInv, BarInv,
             TypeOK, Gui1!TypeOK, Zone!TimeZoneTypeOK
      PROVE  TypesOK
  <2>1. Now!EspNowTypeOK /\ Sat!GpsTypeOK /\ Scan!I2cTypeOK /\ Pub!PubSubTypeOK
    BY <1>1, NowSafe, SatSafe, ScanSafe, PubSafe
  <2>2. Boot!RestartTypeOK /\ Shot!ScreenshotTypeOK /\ Sd!SdCardTypeOK
    BY <1>1, BootSafe, ShotSafe, SdSafe
  <2>3. Cons!ConsoleTypeOK /\ Bar!StatusbarTypeOK
    BY <1>1, ConsSafe, BarSafe
  <2> QED
    BY <1>1, <2>1, <2>2, <2>3 DEF TypesOK
<1>2. GP!Spec => []GP!TypeOK
  BY SameGuiParameters, GP!TypeCorrect
<1> QED
  BY <1>1, <1>2, SameGuiSafe, PartsAreGui, PartsAreThread, TypeCorrect,
     PartsAreNow, NowInvHolds, PartsAreSat, SatInvHolds, PartsAreScan, ScanInvHolds,
     PartsArePub, PubInvHolds, PartsAreBoot, BootInvHolds, PartsAreShot, ShotInvHolds,
     PartsAreSd, SdInvHolds, PartsAreCons, ConsInvHolds, PartsAreBar, BarInvHolds,
     PartsAreZone, ZoneKeepsTypes, PTL
=============================================================================
