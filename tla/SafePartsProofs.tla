--------------------------- MODULE SafePartsProofs ---------------------------
(***************************************************************************)
(* What module MCSafeParts checks of its components on small instances, for*)
(* every value of their constants: a behaviour of the parts, seen through  *)
(* the variables of one of them, is a behaviour of that component.  What is*)
(* proved of Gui is in a module of its own.                                *)
(***************************************************************************)
EXTENDS MCSafeParts, WifiProofs, FiniteSetTheorems

GP == INSTANCE GuiProofs

-----------------------------------------------------------------------------
(* Induction, and loops over data. *)
LEMMA LeastOf ==
    ASSUME NEW S \in SUBSET Nat, S # {}
    PROVE  \E i \in S : \A j \in S : i <= j
<1> DEFINE less == OpToRel(<, Nat)
<1>1. IsWellFoundedOn(less, Nat)
  BY NatLessThanWellFounded, Zenon
<1>2. PICK i \in S : \A j \in S : <<j, i>> \notin less
  <2> HIDE DEF less
  <2> QED
    BY <1>1, WFMin
<1>3. \A j \in S : ~ j < i
  BY <1>2 DEF OpToRel
<1> QED
  BY <1>3

(* Induction: what holds of 0, and of each number if it holds of the one before. *)
LEMMA UpTo ==
    ASSUME NEW n \in Nat, NEW T, 0 \in T, \A k \in 1 .. n : k - 1 \in T => k \in T
    PROVE  0 .. n \subseteq T
<1> DEFINE Bad == {k \in 0 .. n : k \notin T}
<1>1. SUFFICES ASSUME Bad # {} PROVE FALSE
  OBVIOUS
<1>2. PICK k \in Bad : \A j \in Bad : k <= j
  <2>1. Bad \in SUBSET Nat
    OBVIOUS
  <2> HIDE DEF Bad
  <2> QED
    BY <1>1, <2>1, LeastOf
<1>3. k \in 1 .. n /\ k - 1 \in 0 .. n
  BY <1>2
<1>4. k - 1 \notin Bad
  BY <1>2, <1>3
<1> QED
  BY <1>2, <1>3, <1>4

(* A loop over n things: h[k] is what it has made of the first k. *)
Folds(h, n, begin, step) ==
    h = [k \in 0 .. n |-> IF k = 0 THEN begin ELSE step[<<k, h[k - 1]>>]]

LEMMA FoldExists ==
    ASSUME NEW n \in Nat, NEW begin, NEW step
    PROVE  \E h : Folds(h, n, begin, step)
<1> DEFINE T == {k \in Nat : \E h : Folds(h, k, begin, step)}
<1>1. 0 \in T
  <2>1. Folds([k \in 0 .. 0 |-> begin], 0, begin, step)
    BY DEF Folds
  <2> QED
    BY <2>1
<1>2. ASSUME NEW k \in 1 .. n, k - 1 \in T PROVE k \in T
  <2>1. PICK f : Folds(f, k - 1, begin, step)
    BY <1>2
  <2> DEFINE g == [j \in 0 .. k |-> IF j = 0 THEN begin ELSE step[<<j, f[j - 1]>>]]
  <2>2. ASSUME NEW j \in 0 .. k - 1
        PROVE  g[j] = f[j] /\ j \in 0 .. k
    <3>1. f[j] = IF j = 0 THEN begin ELSE step[<<j, f[j - 1]>>]
      BY <2>1 DEF Folds
    <3> QED
      BY <3>1
  <2>3. Folds(g, k, begin, step)
    <3>1. \A j \in 0 .. k : j # 0 => j - 1 \in 0 .. k - 1
      OBVIOUS
    <3>2. \A j \in 0 .. k : j # 0 => f[j - 1] = g[j - 1]
      <4> HIDE DEF g
      <4> QED
        BY <2>2, <3>1
    <3> QED
      BY <3>2, Zenon DEF Folds
  <2> QED
    BY <2>3
<1>3. 0 .. n \subseteq T
  <2> HIDE DEF T
  <2> QED
    BY <1>1, <1>2, UpTo
<1> QED
  BY <1>3

LEMMA FoldType ==
    ASSUME NEW n \in Nat, NEW begin, NEW step, NEW S, NEW h, Folds(h, n, begin, step),
           begin \in S, \A k \in 1 .. n : \A s \in S : step[<<k, s>>] \in S
    PROVE  \A k \in 0 .. n : h[k] \in S
<1> DEFINE T == {k \in 0 .. n : h[k] \in S}
<1>1. 0 \in T
  BY DEF Folds
<1>2. ASSUME NEW k \in 1 .. n, k - 1 \in T PROVE k \in T
  BY <1>2 DEF Folds
<1>3. 0 .. n \subseteq T
  <2> HIDE DEF T
  <2> QED
    BY <1>1, <1>2, UpTo
<1> QED
  BY <1>3

-----------------------------------------------------------------------------
(* The instance of Gui that moves in the run is the one that is proved about. *)
LEMMA SameGuiParameters == GP!GuiParameters
BY InstanceParameters DEF Gui1!GuiParameters, GP!GuiParameters

LEMMA SameGuiInit == Gui1!Init => GP!Init
BY DEF Gui1!Init, Gui1!Locks, Gui1!Threads, Gui1!Free, Gui1!NoApp, GP!Init,
       GP!Locks, GP!Threads, GP!Free, GP!NoApp

LEMMA SameGuiNext == Gui1!Next => GP!Next
BY DEF Gui1!Next, Gui1!ShowStep, Gui1!HideStep, Gui1!GuiStep, Gui1!LvglStep,
       Gui1!StopStep, Gui1!LoaderEvent, Gui1!ShowAppLock, Gui1!ShowApp,
       Gui1!RequestDraw, Gui1!HideAppLock, Gui1!HideAppLvgl, Gui1!OnHide,
       Gui1!HideApp, Gui1!AwaitFlags, Gui1!ClearFlagsQuery, Gui1!ClearDraw,
       Gui1!ClearExit, Gui1!RedrawLock, Gui1!RedrawLvgl, Gui1!OnShow,
       Gui1!RedrawGivesUp, Gui1!LvglEvent, Gui1!HandlerAsksLoader,
       Gui1!HandlerLocksGui, Gui1!HandlerReturns, Gui1!StopService,
       Gui1!StopSetsExit, Gui1!StopJoined, Gui1!Threads, Gui1!Locks, Gui1!Free,
       Gui1!Shown, Gui1!NoApp, Gui1!appVars, Gui1!flagVars, Gui1!At, Gui1!Goto,
       Gui1!Acquire, Gui1!Release, Gui1!SetFlag, Gui1!TakeLock,
       Gui1!ClearFlagsWrite, Gui1!PassLock, Gui1!WaitsFor, Gui1!Deadlocked,
       Gui1!LockCheckFails, GP!Next, GP!ShowStep, GP!HideStep, GP!GuiStep,
       GP!LvglStep, GP!StopStep, GP!LoaderEvent, GP!ShowAppLock, GP!ShowApp,
       GP!RequestDraw, GP!HideAppLock, GP!HideAppLvgl, GP!OnHide, GP!HideApp,
       GP!AwaitFlags, GP!ClearFlagsQuery, GP!ClearDraw, GP!ClearExit, GP!RedrawLock,
       GP!RedrawLvgl, GP!OnShow, GP!RedrawGivesUp, GP!LvglEvent,
       GP!HandlerAsksLoader, GP!HandlerLocksGui, GP!HandlerReturns, GP!StopService,
       GP!StopSetsExit, GP!StopJoined, GP!Threads, GP!Locks, GP!Free, GP!Shown,
       GP!NoApp, GP!appVars, GP!flagVars, GP!At, GP!Goto, GP!Acquire, GP!Release,
       GP!SetFlag, GP!TakeLock, GP!ClearFlagsWrite, GP!PassLock, GP!WaitsFor,
       GP!Deadlocked, GP!LockCheckFails

LEMMA SameGuiVars == UNCHANGED guiVars => UNCHANGED GP!vars
BY DEF guiVars, GP!vars, GP!appVars, GP!flagVars

LEMMA SameHooks == GP!HooksExclusive /\ GP!NeverDrawsHidden => HooksApart
BY DEF HooksApart, Gui1!HooksExclusive, GP!HooksExclusive, Gui1!NeverDrawsHidden,
       GP!NeverDrawsHidden, Gui1!Threads, GP!Threads, Gui1!At, GP!At

(* A behaviour of the parts is one of Gui. *)
LEMMA PartsAreGui == PartsSpec => GP!Spec
<1>1. PartsInit => GP!Init
  BY SameGuiInit DEF PartsInit
<1>2. [PartsNext]_allVars => [GP!Next]_(GP!vars)
  <2>1. CASE part = "gui" /\ Gui1!Next
    BY <2>1, SameGuiNext
  <2>2. CASE UNCHANGED guiVars
    BY <2>2, SameGuiVars
  <2> QED
    BY <2>1, <2>2 DEF PartsNext, Rest, allVars
<1> QED
  BY <1>1, <1>2, PTL DEF PartsSpec, GP!Spec

(* onShow(), onHide() and event handlers exclude each other, and no hidden app is
   drawn (showApp(), hideApp(), redraw()), for any number of apps shown, whatever
   locks the handlers take.                                                     *)
THEOREM HooksStayApart == PartsSpec => []HooksApart
<1>1. GP!Spec => []GP!HooksExclusive
  BY SameGuiParameters, GP!HooksNeverMeet
<1>2. GP!Spec => []GP!NeverDrawsHidden
  BY SameGuiParameters, GP!HiddenIsNotDrawn
<1> QED
  BY <1>1, <1>2, PartsAreGui, SameHooks, PTL

-----------------------------------------------------------------------------
(* Which uses keep a mutex a mutex, for any set of threads and any depth of nested
   sections. *)
MutexStep(t) == \/ Mtx!Construct(t) \/ Mtx!TakeMutex(t) \/ Mtx!LockTimeout(t)
                \/ Mtx!UnlockEarly(t) \/ Mtx!Leave(t) \/ Mtx!LeaveUnlocked(t)

(* A section that a thread is in has been counted. *)
Counted == \A t \in Users : at[t] = "in" => inside[t] > 0

MutexTypeInv == Mtx!MutexTypeOK /\ Counted

(* The types of the variables survive every use, careful or not. *)
LEMMA MutexTypeInvHolds ==
    ASSUME Mtx!MutexParameters
    PROVE  Mtx!Spec => []MutexTypeInv
<1>1. Mtx!Init => MutexTypeInv
  BY DEF Mtx!Init, MutexTypeInv, Mtx!MutexTypeOK, Counted
<1>2. ASSUME MutexTypeInv, [Mtx!Next]_(Mtx!vars)
      PROVE  MutexTypeInv'
  <2>1. CASE UNCHANGED Mtx!vars
    BY <1>2, <2>1 DEF MutexTypeInv, Mtx!MutexTypeOK, Counted, Mtx!vars
  <2>2. ASSUME NEW t \in Users, Mtx!Construct(t) \/ Mtx!LockTimeout(t)
        PROVE  MutexTypeInv'
    BY <1>2, <2>2 DEF MutexTypeInv, Mtx!MutexTypeOK, Counted, Mtx!Construct,
       Mtx!LockTimeout
  <2>3. ASSUME NEW t \in Users, Mtx!TakeMutex(t)
        PROVE  MutexTypeInv'
    BY <1>2, <2>3 DEF MutexTypeInv, Mtx!MutexTypeOK, Counted, Mtx!TakeMutex
  <2>4. ASSUME NEW t \in Users, Mtx!Give(t)
        PROVE  holder' \in Users \cup {NoUser} /\ count' \in Nat
    BY <1>2, <2>4 DEF MutexTypeInv, Mtx!MutexTypeOK, Mtx!Give
  <2>5. ASSUME NEW t \in Users, Mtx!UnlockEarly(t) \/ Mtx!Leave(t)
        PROVE  MutexTypeInv'
    <3>1. Mtx!Give(t)
      BY <2>5 DEF Mtx!UnlockEarly, Mtx!Leave
    <3>2. inside' \in [Users -> Nat]
      BY <1>2, <2>5 DEF MutexTypeInv, Mtx!MutexTypeOK, Counted, Mtx!UnlockEarly,
         Mtx!Leave
    <3>3. at' \in [Users -> {"out", "lock", "in", "failed", "early"}] /\ use' \in Mtx!Uses
      BY <1>2, <2>5 DEF MutexTypeInv, Mtx!MutexTypeOK, Mtx!UnlockEarly, Mtx!Leave,
         Mtx!Outside
    <3>4. Counted'
      BY <1>2, <2>5, <3>2 DEF MutexTypeInv, Mtx!MutexTypeOK, Counted,
         Mtx!UnlockEarly, Mtx!Leave, Mtx!Outside
    <3> QED
      BY <2>4, <3>1, <3>2, <3>3, <3>4 DEF MutexTypeInv, Mtx!MutexTypeOK
  <2>6. ASSUME NEW t \in Users, Mtx!LeaveUnlocked(t)
        PROVE  MutexTypeInv'
    <3>1. Mtx!Give(t)
      BY <2>6 DEF Mtx!LeaveUnlocked
    <3>2. /\ inside' \in [Users -> Nat] /\ use' \in Mtx!Uses
          /\ at' \in [Users -> {"out", "lock", "in", "failed", "early"}]
      BY <1>2, <2>6 DEF MutexTypeInv, Mtx!MutexTypeOK, Mtx!LeaveUnlocked, Mtx!Outside
    <3>3. Counted'
      BY <1>2, <2>6, <3>2 DEF MutexTypeInv, Mtx!MutexTypeOK, Counted,
         Mtx!LeaveUnlocked, Mtx!Outside
    <3> QED
      BY <2>4, <3>1, <3>2, <3>3 DEF MutexTypeInv, Mtx!MutexTypeOK
  <2> QED
    BY <1>2, <2>1, <2>2, <2>3, <2>5, <2>6 DEF Mtx!Next
<1> QED
  BY <1>1, <1>2, PTL DEF Mtx!Spec

(* Every variable of the mutex keeps its type, whatever use the code makes of it
   (Mutex::lock(), Mutex::unlock(), ScopedLock).                               *)
THEOREM MutexTypeCorrect ==
    ASSUME Mtx!MutexParameters
    PROVE  Mtx!Spec => []Mtx!MutexTypeOK
<1>1. MutexTypeInv => Mtx!MutexTypeOK
  BY DEF MutexTypeInv
<1> QED
  BY <1>1, MutexTypeInvHolds, PTL

-----------------------------------------------------------------------------
(* The holder is in as many sections as it has to give the mutex, and no other
   thread is in one.                                                          *)
HolderIsInside ==
    /\ holder = NoUser => count = 0
    /\ holder # NoUser => count > 0
    /\ \A t \in Users : inside[t] = IF t = holder THEN count ELSE 0

(* Where a thread is that holds the mutex, and which uses bring it elsewhere. *)
HolderIsThere ==
    \A t \in Users : /\ at[t] = "in" => holder = t
                     /\ at[t] \in {"out", "failed", "early"} => holder # t
                     /\ at[t] = "lock" /\ ~use.nested => holder # t
                     /\ at[t] = "failed" => use.timed
                     /\ at[t] = "early" => use.early

Shallow == use.type = "Normal" \/ ~use.nested => count <= 1

CarefulInv == Mtx!Careful => HolderIsInside /\ HolderIsThere /\ Shallow

LEMMA CarefulInvStep ==
    ASSUME Mtx!MutexParameters, MutexTypeInv, CarefulInv, NEW t \in Users, MutexStep(t)
    PROVE  CarefulInv'
<1> SUFFICES ASSUME Mtx!Careful'
             PROVE  (HolderIsInside /\ HolderIsThere /\ Shallow)'
  BY DEF CarefulInv
<1>1. use' = use /\ Mtx!Careful
  BY DEF MutexStep, Mtx!Construct, Mtx!TakeMutex, Mtx!LockTimeout, Mtx!UnlockEarly,
     Mtx!Leave, Mtx!LeaveUnlocked, Mtx!Careful
<1>2. HolderIsInside /\ HolderIsThere /\ Shallow
  BY <1>1 DEF CarefulInv
<1> USE DEF MutexTypeInv, Mtx!MutexTypeOK, Counted, HolderIsInside, HolderIsThere, Shallow
<1>3. CASE Mtx!Construct(t)
  BY <1>2, <1>3 DEF Mtx!Construct
<1>4. CASE Mtx!TakeMutex(t)
  BY <1>1, <1>2, <1>4 DEF Mtx!TakeMutex, Mtx!Free, Mtx!Careful, Mtx!MutexParameters,
     Mtx!Uses
<1>5. CASE Mtx!LockTimeout(t)
  BY <1>1, <1>2, <1>5 DEF Mtx!LockTimeout, Mtx!Free, Mtx!Careful, Mtx!Uses
<1>6. CASE Mtx!UnlockEarly(t)
  BY <1>1, <1>2, <1>6 DEF Mtx!UnlockEarly, Mtx!Give, Mtx!Careful,
     Mtx!MutexParameters, Mtx!Uses
<1>7. CASE Mtx!Leave(t)
  BY <1>1, <1>2, <1>7 DEF Mtx!Leave, Mtx!Give, Mtx!Outside, Mtx!MutexParameters,
     Mtx!Uses
<1>8. CASE Mtx!LeaveUnlocked(t)
  BY <1>1, <1>2, <1>8 DEF Mtx!LeaveUnlocked, Mtx!Give, Mtx!Outside, Mtx!Careful,
     Mtx!MutexParameters, Mtx!Uses
<1> QED
  BY <1>3, <1>4, <1>5, <1>6, <1>7, <1>8 DEF MutexStep

(* A normal mutex that is locked without a time limit and left by the destructor
   alone, and a recursive one of which an early unlock() is not nested, let one
   thread in at a time: what the destructor of a ScopedLock gives is its own.   *)
THEOREM CarefulUsesExclude ==
    ASSUME Mtx!MutexParameters
    PROVE  Mtx!Spec => []Mtx!CarefulUseExcludes
<1>1. Mtx!Init => CarefulInv
  BY DEF Mtx!Init, CarefulInv, HolderIsInside, HolderIsThere, Shallow,
     Mtx!MutexParameters
<1>2. MutexTypeInv /\ CarefulInv /\ [Mtx!Next]_(Mtx!vars) => CarefulInv'
  <2> SUFFICES ASSUME MutexTypeInv, CarefulInv, [Mtx!Next]_(Mtx!vars)
               PROVE  CarefulInv'
    OBVIOUS
  <2>1. CASE UNCHANGED Mtx!vars
    BY <2>1 DEF CarefulInv, Mtx!Careful, HolderIsInside, HolderIsThere, Shallow,
       Mtx!vars
  <2>2. ASSUME NEW t \in Users, MutexStep(t)
        PROVE  CarefulInv'
    BY <2>2, CarefulInvStep
  <2> QED
    BY <2>1, <2>2 DEF Mtx!Next, MutexStep
<1>3. MutexTypeInv /\ CarefulInv => Mtx!CarefulUseExcludes
  BY DEF CarefulInv, Mtx!CarefulUseExcludes, Mtx!MutualExclusion, HolderIsInside,
     MutexTypeInv, Mtx!MutexTypeOK
<1> QED
  BY <1>1, <1>2, <1>3, MutexTypeInvHolds, PTL DEF Mtx!Spec

LEMMA PartsAreMutex == PartsSpec => Mtx!Spec
<1>1. PartsInit => Mtx!Init
  BY DEF PartsInit
<1>2. [PartsNext]_allVars => [Mtx!Next]_(Mtx!vars)
  BY DEF PartsNext, Rest, allVars, mutexVars, Mtx!vars
<1> QED
  BY <1>1, <1>2, PTL DEF PartsSpec, Mtx!Spec

(* Scoped locks that succeed and are not unlocked early exclude (Mutex, ScopedLock),
   for any threads and any depth of nested sections.                            *)
THEOREM CareAlwaysExcludes == PartsSpec => []CarefulUseExcludes
<1>1. Mtx!CarefulUseExcludes => CarefulUseExcludes
  BY DEF CarefulUseExcludes
<1> QED
  BY <1>1, InstanceParameters, CarefulUsesExclude, PartsAreMutex, PTL

-----------------------------------------------------------------------------
(* What an Ok means while a u-blox receiver is configured, for each of the scripts
   and any number of commands and answers that are lost, refused or late.  The
   invariant follows the order of commands and of answers: both arrive as they
   were sent, so that a late confirmation that is taken for another's leaves an
   earlier command of the same id without its own, and the save, whose id no
   other command has, cannot be mistaken.                                       *)
Ids == {"01", "02", "08", "09", "11", "17", "23", "39", "3B", "3E", "86", "8A"}
Sendings == [id : Ids, flush : BOOLEAN]

(* Scripts, and parts of scripts, of which only the last command saves. *)
NoSave(s) == s \in Seq(Sendings) /\ \A n \in 1 .. Len(s) : s[n].id # "09"
SavesLast(s) ==
    /\ s \in Seq(Sendings) /\ Len(s) > 0
    /\ \A n \in 1 .. Len(s) : s[n].id = "09" <=> n = Len(s)

(* What the provers need to know of sequences, each fact on its own. *)
LEMMA MakesSeq ==
    ASSUME NEW S, NEW k \in Nat, NEW f \in [1 .. k -> S]
    PROVE  f \in Seq(S) /\ Len(f) = k
OBVIOUS

LEMMA TailOf ==
    ASSUME NEW S, NEW s \in Seq(S), s # <<>>
    PROVE  /\ Tail(s) \in Seq(S) /\ Len(Tail(s)) = Len(s) - 1 /\ Len(s) \in Nat \ {0}
           /\ \A i \in 1 .. Len(Tail(s)) : Tail(s)[i] = s[i + 1] /\ i + 1 \in 1 .. Len(s)
           /\ Head(s) = s[1]
OBVIOUS

LEMMA ElementsOf ==
    ASSUME NEW S, NEW s \in Seq(S)
    PROVE  Len(s) \in Nat /\ \A i \in 1 .. Len(s) : s[i] \in S
OBVIOUS

LEMMA AppendOf ==
    ASSUME NEW S, NEW s \in Seq(S), NEW e \in S
    PROVE  /\ Append(s, e) \in Seq(S) /\ Len(Append(s, e)) = Len(s) + 1 /\ Len(s) \in Nat
           /\ \A i \in 1 .. Len(s) : Append(s, e)[i] = s[i]
           /\ Append(s, e)[Len(s) + 1] = e
OBVIOUS

(* What is joined saves last if the last part does and no other part saves. *)
LEMMA Joined ==
    ASSUME NEW s, NEW t, NoSave(s)
    PROVE  (NoSave(t) => NoSave(s \o t)) /\ (SavesLast(t) => SavesLast(s \o t))
<1>1. ASSUME NoSave(t) PROVE NoSave(s \o t)
  BY <1>1 DEF NoSave
<1>2. ASSUME SavesLast(t) PROVE SavesLast(s \o t)
  <2>1. s \in Seq(Sendings) /\ t \in Seq(Sendings) /\ Len(t) > 0
    BY <1>2 DEF NoSave, SavesLast
  <2>2. s \o t \in Seq(Sendings) /\ Len(s \o t) = Len(s) + Len(t)
    BY <2>1
  <2>3. ASSUME NEW n \in 1 .. Len(s \o t)
        PROVE  (s \o t)[n].id = "09" <=> n = Len(s \o t)
    <3>1. CASE n <= Len(s)
      <4>1. n \in 1 .. Len(s) /\ (s \o t)[n] = s[n] /\ n # Len(s \o t)
        BY <2>1, <2>2, <3>1
      <4> QED
        BY <4>1 DEF NoSave
    <3>2. CASE n > Len(s)
      <4>1. /\ n - Len(s) \in 1 .. Len(t) /\ (s \o t)[n] = t[n - Len(s)]
            /\ n = Len(s \o t) <=> n - Len(s) = Len(t)
        BY <2>1, <2>2, <3>2
      <4> QED
        BY <4>1, <1>2 DEF SavesLast
    <3> QED
      BY <3>1, <3>2, <2>1, <2>2
  <2> QED
    BY <2>1, <2>2, <2>3 DEF SavesLast
<1> QED
  BY <1>1, <1>2

(* FlushThen() and Sends() keep number and order of the ids. *)
LEMMA Flushed ==
    ASSUME NEW ids \in Seq(Ids)
    PROVE  /\ Conf!FlushThen(ids) \in Seq(Sendings)
           /\ Len(Conf!FlushThen(ids)) = Len(ids)
           /\ \A n \in 1 .. Len(ids) : Conf!FlushThen(ids)[n].id = ids[n]
<1>1. Conf!FlushThen(ids) \in [1 .. Len(ids) -> Sendings]
  BY DEF Conf!FlushThen, Sendings
<1>2. Len(ids) \in Nat
  OBVIOUS
<1>3. \A n \in 1 .. Len(ids) : Conf!FlushThen(ids)[n].id = ids[n]
  BY DEF Conf!FlushThen
<1> QED
  BY <1>1, <1>2, <1>3, MakesSeq

LEMMA Plain ==
    ASSUME NEW ids \in Seq(Ids)
    PROVE  /\ Conf!Sends(ids) \in Seq(Sendings)
           /\ Len(Conf!Sends(ids)) = Len(ids)
           /\ \A n \in 1 .. Len(ids) : Conf!Sends(ids)[n].id = ids[n]
<1>1. Conf!Sends(ids) \in [1 .. Len(ids) -> Sendings]
  BY DEF Conf!Sends, Sendings
<1>2. Len(ids) \in Nat
  OBVIOUS
<1>3. \A n \in 1 .. Len(ids) : Conf!Sends(ids)[n].id = ids[n]
  BY DEF Conf!Sends
<1> QED
  BY <1>1, <1>2, <1>3, MakesSeq

(* The same for the ids alone. *)
Other(ids) == ids \in Seq(Ids) /\ \A n \in 1 .. Len(ids) : ids[n] # "09"

(* Ids other than that of the save. *)
LEMMA OtherSent ==
    ASSUME NEW ids, Other(ids)
    PROVE  NoSave(Conf!FlushThen(ids)) /\ NoSave(Conf!Sends(ids))
BY Flushed, Plain DEF Other, NoSave

LEMMA OtherJoined == ASSUME NEW a, NEW b, Other(a), Other(b) PROVE Other(a \o b)
BY DEF Other

LEMMA One == ASSUME NEW a \in Ids \ {"09"} PROVE Other(<<a>>)
BY DEF Other

LEMMA Two ==
    ASSUME NEW a \in Ids \ {"09"}, NEW b \in Ids \ {"09"}
    PROVE  Other(<<a, b>>)
BY DEF Other

LEMMA Three ==
    ASSUME NEW a \in Ids \ {"09"}, NEW b \in Ids \ {"09"}, NEW c \in Ids \ {"09"}
    PROVE  Other(<<a, b, c>>)
BY DEF Other

LEMMA Nmea == Other(Conf!NmeaMessages)
<1>1. Conf!NmeaMessages \in Seq(Ids) /\ Len(Conf!NmeaMessages) = 7
  BY DEF Conf!NmeaMessages, Ids
<1>2. ASSUME NEW n \in 1 .. 7 PROVE Conf!NmeaMessages[n] # "09"
  <2>1. n = 1 \/ n = 2 \/ n = 3 \/ n = 4 \/ n = 5 \/ n = 6 \/ n = 7
    OBVIOUS
  <2>2. /\ Conf!NmeaMessages[1] = "08" /\ Conf!NmeaMessages[2] = "01"
        /\ Conf!NmeaMessages[3] = "01" /\ Conf!NmeaMessages[4] = "01"
        /\ Conf!NmeaMessages[5] = "01" /\ Conf!NmeaMessages[6] = "01"
        /\ Conf!NmeaMessages[7] = "01"
    BY DEF Conf!NmeaMessages
  <2> QED
    BY <2>1, <2>2
<1> QED
  BY <1>1, <1>2 DEF Other

LEMMA SendsSave == SavesLast(Conf!Sends(<<"09">>))
<1>1. ASSUME NEW ids \in Seq(Ids), Len(ids) = 1, ids[1] = "09"
      PROVE  SavesLast(Conf!Sends(ids))
  BY <1>1, Plain DEF SavesLast
<1>2. <<"09">> \in Seq(Ids) /\ Len(<<"09">>) = 1 /\ <<"09">>[1] = "09"
  BY DEF Ids
<1> QED
  BY <1>1, <1>2

(* Each script saves once, at its end. *)
LEMMA SaveIsLast == ASSUME NEW u \in DOMAIN Conf!Script PROVE SavesLast(Conf!Script[u])
<1> USE DEF Ids
<1>1. SavesLast(Conf!Script6)
  <2>1. NoSave(Conf!FlushThen(<<"02", "39", "23">> \o Conf!NmeaMessages))
    BY One, Two, Three, Nmea, OtherJoined, OtherSent
  <2>2. NoSave(Conf!FlushThen(<<"11", "3B", "01">>))
    BY One, Two, Three, OtherSent
  <2> QED
    BY <2>1, <2>2, SendsSave, Joined DEF Conf!Script6
<1>2. ASSUME NEW eight \in BOOLEAN, NEW modern \in BOOLEAN
      PROVE  SavesLast(Conf!Script789(eight, modern))
  <2>1. NoSave(Conf!Sends(<<"3E">>)) /\ NoSave(Conf!FlushThen(<<"02">>))
    BY One, OtherSent
  <2>2. NoSave(Conf!Interference(eight))
    <3>1. /\ NoSave(Conf!FlushThen(<<"39">>)) /\ NoSave(Conf!FlushThen(<<"23">>))
          /\ NoSave(Conf!Sends(<<"39", "23">>))
      BY One, Two, OtherSent
    <3> QED
      BY <3>1, Joined DEF Conf!Interference
  <2>3. NoSave(Conf!Sends(Conf!NmeaMessages))
    BY Nmea, OtherSent
  <2>4. NoSave(Conf!PowerSave(eight, modern))
    <3>1. /\ NoSave(Conf!FlushThen(<<"86", "3B">>)) /\ NoSave(Conf!FlushThen(<<"17">>))
          /\ NoSave(Conf!Sends(<<"11", "3B">>))
      BY One, Two, OtherSent
    <3> QED
      BY <3>1, Joined DEF Conf!PowerSave
  <2> QED
    BY <2>1, <2>2, <2>3, <2>4, SendsSave, Joined DEF Conf!Script789
<1>3. SavesLast(Conf!Script10)
  <2> DEFINE twelve == [n \in 1 .. 12 |-> [id |-> "8A", flush |-> n <= 4]]
  <2>1. twelve \in [1 .. 12 -> Sendings] /\ \A n \in 1 .. 12 : twelve[n].id = "8A"
    BY DEF Sendings
  <2> HIDE DEF twelve
  <2>2. NoSave(twelve)
    <3>1. twelve \in Seq(Sendings) /\ Len(twelve) = 12
      BY <2>1, MakesSeq
    <3>2. \A n \in 1 .. 12 : twelve[n].id # "09"
      BY <2>1
    <3> QED
      BY <3>1, <3>2, Zenon DEF NoSave
  <2> QED
    BY <2>2, SendsSave, Joined DEF Conf!Script10, twelve
<1>4. u \in Conf!Receivers /\ u.modern \in BOOLEAN /\ (u.model = "ublox8") \in BOOLEAN
  BY DEF Conf!Script, Conf!Receivers
<1>5. Conf!Script[u] \in {Conf!Script6, Conf!Script10, Conf!Script789(u.model = "ublox8", u.modern)}
  BY <1>4 DEF Conf!Script
<1> QED
  BY <1>1, <1>2, <1>3, <1>4, <1>5

-----------------------------------------------------------------------------
(* The commands that were written. *)
Written == 1 .. (IF initPc \in {"await", "done"} THEN command ELSE command - 1)
Answers == [id : Ids, for : Nat, ok : BOOLEAN]

ConfTypes ==
    /\ ublox \in DOMAIN Conf!Script
    /\ command \in 1 .. Conf!Save
    /\ initPc \in {"flush", "write", "await", "done"}
    /\ toReceiver \in Seq(Nat) /\ toDriver \in Seq(Answers)
    /\ results \in Seq({"Ok", "NotAck", "FrameErrors", "None"})
    /\ Len(results) = IF initPc = "done" THEN command ELSE command - 1
    /\ initPc = "done" => command = Conf!Save
    /\ applied \subseteq Nat

(* Commands, and the answers to them, are under way in the order of writing, and
   what was carried out is behind those that are not. *)
InOrder ==
    /\ \A i \in 1 .. Len(toReceiver) : toReceiver[i] \in Written
    /\ \A i, j \in 1 .. Len(toReceiver) : i < j => toReceiver[i] < toReceiver[j]
    /\ \A k \in 1 .. Len(toDriver) :
          /\ toDriver[k].for \in Written
          /\ \A i \in 1 .. Len(toReceiver) : toDriver[k].for < toReceiver[i]
    /\ \A k, l \in 1 .. Len(toDriver) : k < l => toDriver[k].for < toDriver[l].for
    /\ \A c \in applied : c \in Written /\ \A i \in 1 .. Len(toReceiver) : c < toReceiver[i]

AnswersTrue ==
    \A k \in 1 .. Len(toDriver) :
        /\ toDriver[k].id = Conf!Id(toDriver[k].for)
        /\ toDriver[k].ok => toDriver[k].for \in applied

(* A command with the id of c, and not after it, was carried out without an Ok. *)
Unanswered(u, c, done, res) ==
    \E b \in 1 .. c : Conf!Script[u][b].id = Conf!Script[u][c].id /\ b \in done /\ res[b] # "Ok"

(* A confirmation that arrives late finds such a command. *)
LateAnswers ==
    \A k \in 1 .. Len(toDriver) :
        toDriver[k].ok /\ toDriver[k].for \in 1 .. Len(results) =>
            Unanswered(ublox, toDriver[k].for, applied, results)

AppliedInv ==
    \A c \in 1 .. Len(results) :
        results[c] = "Ok" /\ c \notin applied => Unanswered(ublox, c, applied, results)

ConfInv == ConfTypes /\ InOrder /\ AnswersTrue /\ LateAnswers /\ AppliedInv

(* The commands of a script have ids, and there is at least one. *)
LEMMA Facts ==
    ConfTypes => /\ Conf!Save \in Nat /\ Conf!Save > 0
                 /\ \A c \in 1 .. Conf!Save : Conf!Id(c) \in Ids
<1> SUFFICES ASSUME ConfTypes
             PROVE  /\ Conf!Save \in Nat /\ Conf!Save > 0
                    /\ \A c \in 1 .. Conf!Save : Conf!Id(c) \in Ids
  OBVIOUS
<1>1. SavesLast(Conf!Script[ublox])
  BY SaveIsLast DEF ConfTypes
<1>2. \A c \in 1 .. Len(Conf!Script[ublox]) : Conf!Script[ublox][c] \in Sendings
  BY <1>1 DEF SavesLast
<1> QED
  BY <1>1, <1>2 DEF Conf!Save, Conf!Id, SavesLast, Sendings

LEMMA InitInv == Conf!Init => ConfInv
<1> SUFFICES ASSUME Conf!Init PROVE ConfInv
  OBVIOUS
<1>1. Conf!Save \in Nat /\ Conf!Save > 0
  BY SaveIsLast DEF Conf!Init, Conf!Save, SavesLast
<1>2. ConfTypes
  BY <1>1 DEF Conf!Init, ConfTypes
<1> QED
  BY <1>2 DEF Conf!Init, ConfInv, InOrder, AnswersTrue, LateAnswers, AppliedInv

(* Types, one action at a time. *)
LEMMA TypesKept == ConfInv /\ [Conf!Next]_(Conf!vars) => ConfTypes'
<1> SUFFICES ASSUME ConfInv, [Conf!Next]_(Conf!vars) PROVE ConfTypes'
  OBVIOUS
<1> USE Facts DEF ConfInv, ConfTypes
<1>1. UNCHANGED ublox /\ UNCHANGED Conf!Save
  BY DEF Conf!Next, Conf!vars, Conf!CarryOut, Conf!LoseCommand, Conf!Flush, Conf!Write,
     Conf!GetAck, Conf!GetFrameErrors, Conf!AckTimeout, Conf!Save
<1>2. ASSUME NEW ok \in BOOLEAN, Conf!CarryOut(ok) PROVE ConfTypes'
  <2>1. Head(toReceiver) \in Nat /\ Conf!Id(Head(toReceiver)) \in Ids
    BY <1>2 DEF Conf!CarryOut, InOrder, Written
  <2>2. [id |-> Conf!Id(Head(toReceiver)), for |-> Head(toReceiver), ok |-> ok] \in Answers
    BY <2>1 DEF Answers
  <2>3. toDriver' \in Seq(Answers) /\ toReceiver' \in Seq(Nat) /\ applied' \subseteq Nat
    <3>1. toDriver' = Append(toDriver, [id |-> Conf!Id(Head(toReceiver)),
                                        for |-> Head(toReceiver), ok |-> ok])
      BY <1>2 DEF Conf!CarryOut
    <3>2. toDriver' \in Seq(Answers)
      BY <3>1, <2>2
    <3>3. toReceiver' \in Seq(Nat)
      BY <1>2, TailOf DEF Conf!CarryOut
    <3>4. applied' \subseteq Nat
      BY <1>2, <2>1 DEF Conf!CarryOut
    <3> QED
      BY <3>2, <3>3, <3>4
  <2> QED
    BY <1>1, <1>2, <2>3 DEF Conf!CarryOut
<1>3. CASE Conf!LoseCommand
  BY <1>1, <1>3 DEF Conf!LoseCommand
<1>4. CASE Conf!Flush
  BY <1>1, <1>4 DEF Conf!Flush
<1>5. CASE Conf!Write
  BY <1>1, <1>5 DEF Conf!Write
<1>6. ASSUME NEW r \in {"Ok", "NotAck", "FrameErrors", "None"}, Conf!NextCommand(r), initPc = "await",
             UNCHANGED <<toReceiver, applied>>, toDriver' \in Seq(Answers)
      PROVE  ConfTypes'
  BY <1>1, <1>6 DEF Conf!NextCommand
<1>7. CASE Conf!GetAck
  BY <1>1, <1>6, <1>7 DEF Conf!GetAck
<1>8. CASE Conf!AckTimeout
  BY <1>1, <1>6, <1>8 DEF Conf!AckTimeout
<1>9. CASE Conf!GetFrameErrors
  BY <1>1, <1>6, <1>9 DEF Conf!GetFrameErrors
<1>10. CASE UNCHANGED Conf!vars
  BY <1>1, <1>10 DEF Conf!vars
<1> QED
  BY <1>2, <1>3, <1>4, <1>5, <1>7, <1>8, <1>9, <1>10 DEF Conf!Next

(* What moves of the driver leaves in order: it reads answers, and goes on. *)
LEMMA OrderOfRest ==
    ASSUME ConfInv, ConfTypes', UNCHANGED <<toReceiver, applied>>, Written \subseteq Written',
           toDriver' \in {toDriver, <<>>} \/ (toDriver # <<>> /\ toDriver' = Tail(toDriver))
    PROVE  InOrder'
<1> USE DEF ConfInv, ConfTypes
<1>1. CASE toDriver' = toDriver
  BY <1>1 DEF InOrder
<1>2. CASE toDriver' = <<>>
  BY <1>2 DEF InOrder
<1>3. CASE toDriver # <<>> /\ toDriver' = Tail(toDriver)
  BY <1>3, TailOf DEF InOrder
<1> QED
  BY <1>1, <1>2, <1>3

(* First in, first out, in both directions. *)
LEMMA OrderKept == ConfInv /\ [Conf!Next]_(Conf!vars) => InOrder'
<1> SUFFICES ASSUME ConfInv, [Conf!Next]_(Conf!vars) PROVE InOrder'
  OBVIOUS
<1> USE DEF ConfInv
<1>0. /\ ConfTypes' /\ toReceiver \in Seq(Nat) /\ toDriver \in Seq(Answers)
      /\ applied \subseteq Nat
  BY TypesKept, Facts DEF ConfTypes
<1>01. InOrder /\ command \in Nat \ {0}
  BY Facts DEF ConfTypes
<1>00. /\ \A i \in 1 .. Len(toReceiver) : toReceiver[i] \in Nat
       /\ \A k \in 1 .. Len(toDriver) : toDriver[k].for \in Nat
       /\ \A c \in applied : c \in Nat
       /\ Len(toReceiver) \in Nat /\ Len(toDriver) \in Nat
  <2>1. \A k \in 1 .. Len(toDriver) : toDriver[k] \in Answers
    BY <1>0, ElementsOf
  <2> QED
    BY <1>0, <2>1, ElementsOf DEF Answers
<1> HIDE DEF ConfInv
<1>1. ASSUME NEW ok \in BOOLEAN, Conf!CarryOut(ok) PROVE InOrder'
  <2>1. toReceiver # <<>> /\ toReceiver' = Tail(toReceiver) /\ Written' = Written
    BY <1>1 DEF Conf!CarryOut, Written
  <2> DEFINE a == [id |-> Conf!Id(Head(toReceiver)), for |-> Head(toReceiver), ok |-> ok]
  <2>2. toDriver' = Append(toDriver, a) /\ applied' \subseteq applied \cup {Head(toReceiver)}
    BY <1>1 DEF Conf!CarryOut
  <2>3. a \in Answers /\ a.for = toReceiver[1]
    BY <1>0, <2>1, TailOf, Facts, SMTT(30) DEF Answers, InOrder, Written, ConfInv, ConfTypes
  <2> HIDE DEF a
  <2>4. /\ Len(toReceiver) \in Nat \ {0} /\ Len(toReceiver') = Len(toReceiver) - 1
        /\ \A i \in 1 .. Len(toReceiver') :
              toReceiver'[i] = toReceiver[i + 1] /\ i + 1 \in 1 .. Len(toReceiver)
        /\ 1 \in 1 .. Len(toReceiver) /\ toReceiver[1] = Head(toReceiver)
    BY <1>0, <2>1, TailOf
  <2>5. /\ Len(toDriver') = Len(toDriver) + 1 /\ toDriver'[Len(toDriver) + 1] = a
        /\ \A k \in 1 .. Len(toDriver) : toDriver'[k] = toDriver[k]
    BY <1>0, <2>2, <2>3, AppendOf
  <2>7. \A i \in 1 .. Len(toReceiver') : toReceiver'[i] \in Written'
    BY <1>01, <1>00, <2>1, <2>4 DEF InOrder
  <2>8. \A i, j \in 1 .. Len(toReceiver') : i < j => toReceiver'[i] < toReceiver'[j]
    <3> SUFFICES ASSUME NEW i \in 1 .. Len(toReceiver'), NEW j \in 1 .. Len(toReceiver'), i < j
                 PROVE  toReceiver'[i] < toReceiver'[j]
      OBVIOUS
    <3>1. i + 1 \in 1 .. Len(toReceiver) /\ j + 1 \in 1 .. Len(toReceiver) /\ i + 1 < j + 1
      BY <2>4
    <3>2. toReceiver[i + 1] < toReceiver[j + 1]
      BY <1>01, <3>1 DEF InOrder
    <3> QED
      BY <2>4, <3>2
  <2>9. \A k \in 1 .. Len(toDriver') :
           /\ toDriver'[k].for \in Written'
           /\ \A i \in 1 .. Len(toReceiver') : toDriver'[k].for < toReceiver'[i]
    <3>1. ASSUME NEW k \in 1 .. Len(toDriver)
          PROVE  /\ toDriver'[k].for \in Written'
                 /\ \A i \in 1 .. Len(toReceiver') : toDriver'[k].for < toReceiver'[i]
      BY <1>01, <1>00, <3>1, <2>1, <2>4, <2>5 DEF InOrder
    <3>2. /\ a.for \in Written'
          /\ \A i \in 1 .. Len(toReceiver') : a.for < toReceiver'[i]
      BY <1>01, <2>1, <2>3, <2>4, <1>00 DEF InOrder
    <3> QED
      BY <3>1, <3>2, <2>5, <1>00
  <2>10. \A k, l \in 1 .. Len(toDriver') : k < l => toDriver'[k].for < toDriver'[l].for
    <3>1. ASSUME NEW k \in 1 .. Len(toDriver), NEW l \in 1 .. Len(toDriver), k < l
          PROVE  toDriver'[k].for < toDriver'[l].for
      BY <1>01, <1>00, <3>1, <2>5 DEF InOrder
    <3>2. ASSUME NEW k \in 1 .. Len(toDriver) PROVE toDriver'[k].for < a.for
      BY <1>01, <1>00, <3>2, <2>3, <2>4, <2>5 DEF InOrder
    <3> QED
      BY <3>1, <3>2, <2>5, <1>00
  <2>11. \A c \in applied' : c \in Written' /\ \A i \in 1 .. Len(toReceiver') : c < toReceiver'[i]
    <3>1. ASSUME NEW c \in applied
          PROVE  c \in Written' /\ \A i \in 1 .. Len(toReceiver') : c < toReceiver'[i]
      BY <1>01, <1>00, <3>1, <2>1, <2>4 DEF InOrder
    <3>2. /\ toReceiver[1] \in Written'
          /\ \A i \in 1 .. Len(toReceiver') : toReceiver[1] < toReceiver'[i]
      BY <1>01, <2>1, <2>4, <1>00 DEF InOrder
    <3> QED
      BY <3>1, <3>2, <2>2, <2>4
  <2> QED
    BY <1>01, <1>00, <2>7, <2>8, <2>9, <2>10, <2>11 DEF InOrder
<1>2. CASE Conf!LoseCommand
  <2>1. /\ toReceiver # <<>> /\ toReceiver' = Tail(toReceiver) /\ Written' = Written
        /\ UNCHANGED <<toDriver, applied>>
    BY <1>2 DEF Conf!LoseCommand, Written
  <2> QED
    BY <1>0, <1>01, <1>00, <2>1, TailOf DEF InOrder
<1>3. CASE Conf!Flush
  <2>1. Written' = Written /\ UNCHANGED <<toReceiver, applied>> /\ toDriver' \in {toDriver, <<>>}
    BY <1>3 DEF Conf!Flush, Written
  <2> QED
    BY <1>0, <2>1, <1>01, OrderOfRest
<1>4. CASE Conf!Write
  <2>0. toReceiver' = Append(toReceiver, command)
    BY <1>4 DEF Conf!Write
  <2>1. /\ UNCHANGED <<toDriver, applied, command>>
        /\ Written = 1 .. command - 1 /\ Written' = 1 .. command
    BY <1>4 DEF Conf!Write, Written
  <2>2. /\ Len(toReceiver') = Len(toReceiver) + 1 /\ toReceiver'[Len(toReceiver) + 1] = command
        /\ \A i \in 1 .. Len(toReceiver) : toReceiver'[i] = toReceiver[i]
        /\ Len(toReceiver) \in Nat
    BY <1>0, <1>01, <2>0, AppendOf
  <2>3. \A i \in 1 .. Len(toReceiver) :
           toReceiver'[i] = toReceiver[i] /\ toReceiver[i] \in 1 .. command - 1
    BY <1>01, <2>1, <2>2 DEF InOrder
  <2>4. \A i \in 1 .. Len(toReceiver') : toReceiver'[i] \in Written'
    BY <1>01, <1>00, <2>1, <2>2, <2>3
  <2>5. \A i, j \in 1 .. Len(toReceiver') : i < j => toReceiver'[i] < toReceiver'[j]
    <3> SUFFICES ASSUME NEW i \in 1 .. Len(toReceiver'), NEW j \in 1 .. Len(toReceiver'), i < j
                 PROVE  toReceiver'[i] < toReceiver'[j]
      OBVIOUS
    <3>1. CASE j \in 1 .. Len(toReceiver)
      BY <1>01, <1>00, <2>2, <3>1 DEF InOrder
    <3>2. CASE j = Len(toReceiver) + 1
      BY <1>01, <1>00, <2>2, <2>3, <3>2
    <3> QED
      BY <1>00, <2>2, <3>1, <3>2
  <2>6. \A k \in 1 .. Len(toDriver') :
           /\ toDriver'[k].for \in Written'
           /\ \A i \in 1 .. Len(toReceiver') : toDriver'[k].for < toReceiver'[i]
    BY <1>01, <2>1, <2>2, <1>00 DEF InOrder
  <2>7. \A c \in applied' : c \in Written' /\ \A i \in 1 .. Len(toReceiver') : c < toReceiver'[i]
    BY <1>01, <2>1, <2>2, <1>00 DEF InOrder
  <2> QED
    BY <1>01, <1>00, <2>1, <2>4, <2>5, <2>6, <2>7 DEF InOrder
<1>5. ASSUME NEW r, Conf!NextCommand(r), initPc = "await" PROVE Written' = Written
  BY <1>01, <1>5 DEF Conf!NextCommand, Written
<1>6. CASE Conf!GetAck
  <2>1. Written' = Written
    BY <1>5, <1>6 DEF Conf!GetAck, Written
  <2> QED
    BY <1>0, <1>6, <2>1, <1>01, OrderOfRest DEF Conf!GetAck
<1>7. CASE Conf!AckTimeout
  BY <1>0, <1>5, <1>7, <1>01, OrderOfRest DEF Conf!AckTimeout
<1>9. CASE Conf!GetFrameErrors
  BY <1>0, <1>5, <1>9, <1>01, OrderOfRest DEF Conf!GetFrameErrors
<1>8. CASE UNCHANGED Conf!vars
  BY <1>01, <1>8 DEF Conf!vars, InOrder, Written
<1> QED
  BY <1>1, <1>2, <1>3, <1>4, <1>6, <1>7, <1>8, <1>9 DEF Conf!Next

(* What an answer tells stays so when answers are read, and no more is applied. *)
LEMMA AnswersKept == ConfInv /\ [Conf!Next]_(Conf!vars) => AnswersTrue'
<1> SUFFICES ASSUME ConfInv, [Conf!Next]_(Conf!vars) PROVE AnswersTrue'
  OBVIOUS
<1>0. toReceiver \in Seq(Nat) /\ toDriver \in Seq(Answers) /\ AnswersTrue /\ applied \subseteq Nat
  BY DEF ConfInv, ConfTypes
<1>01. UNCHANGED ublox /\ \A c : Conf!Id(c)' = Conf!Id(c)
  BY DEF Conf!Next, Conf!vars, Conf!CarryOut, Conf!LoseCommand, Conf!Flush, Conf!Write,
     Conf!GetAck, Conf!GetFrameErrors, Conf!AckTimeout, Conf!Id
<1>1. ASSUME NEW ok \in BOOLEAN, Conf!CarryOut(ok) PROVE AnswersTrue'
  <2> DEFINE a == [id |-> Conf!Id(Head(toReceiver)), for |-> Head(toReceiver), ok |-> ok]
  <2>1. toDriver' = Append(toDriver, a)
    BY <1>1 DEF Conf!CarryOut
  <2>2. a.id = Conf!Id(a.for) /\ (a.ok => a.for \in applied') /\ applied \subseteq applied'
    BY <1>1 DEF Conf!CarryOut
  <2>3. a \in Answers
    BY <1>0, <1>1, TailOf, Facts DEF Conf!CarryOut, Answers, ConfInv, ConfTypes, InOrder,
       Written
  <2> HIDE DEF a
  <2>4. /\ Len(toDriver') = Len(toDriver) + 1 /\ toDriver'[Len(toDriver) + 1] = a
        /\ \A k \in 1 .. Len(toDriver) : toDriver'[k] = toDriver[k]
        /\ Len(toDriver) \in Nat
    BY <1>0, <2>1, <2>3, AppendOf
  <2>5. ASSUME NEW k \in 1 .. Len(toDriver')
        PROVE  k = Len(toDriver) + 1 \/ k \in 1 .. Len(toDriver)
    BY <2>4
  <2> QED
    BY <1>0, <1>01, <2>2, <2>4, <2>5 DEF AnswersTrue
<1>2. ASSUME applied \subseteq applied',
             toDriver' \in {toDriver, <<>>} \/ (toDriver # <<>> /\ toDriver' = Tail(toDriver))
      PROVE  AnswersTrue'
  <2>1. CASE toDriver' = toDriver
    BY <1>0, <1>01, <1>2, <2>1 DEF AnswersTrue
  <2>2. CASE toDriver' = <<>>
    BY <2>2 DEF AnswersTrue
  <2>3. CASE toDriver # <<>> /\ toDriver' = Tail(toDriver)
    <3>1. \A k \in 1 .. Len(toDriver') : toDriver'[k] = toDriver[k + 1] /\ k + 1 \in 1 .. Len(toDriver)
      BY <1>0, <2>3, TailOf
    <3> QED
      BY <1>0, <1>01, <1>2, <3>1 DEF AnswersTrue
  <2> QED
    BY <1>2, <2>1, <2>2, <2>3
<1> QED
  BY <1>1, <1>2 DEF Conf!Next, Conf!LoseCommand, Conf!Flush, Conf!Write, Conf!GetAck,
     Conf!GetFrameErrors, Conf!AckTimeout, Conf!vars

(* Commands without an answer of their own keep being such. *)
LEMMA UnansweredKept ==
    ASSUME ConfInv, applied \subseteq applied',
           NEW c \in 1 .. Len(results), Unanswered(ublox, c, applied, results),
           \A b \in 1 .. Len(results) : results'[b] = results[b]
    PROVE  Unanswered(ublox, c, applied', results')
<1>1. Len(results) \in Nat
  BY DEF ConfInv, ConfTypes
<1> QED
  BY <1>1 DEF Unanswered, Conf!Id

(* What is read, or expected in vain, leaves late answers harmless. *)
LEMMA LateKept == ConfInv /\ [Conf!Next]_(Conf!vars) => LateAnswers' /\ AppliedInv'
<1> SUFFICES ASSUME ConfInv, [Conf!Next]_(Conf!vars) PROVE LateAnswers' /\ AppliedInv'
  OBVIOUS
<1>0. /\ toReceiver \in Seq(Nat) /\ toDriver \in Seq(Answers) /\ applied \subseteq Nat
      /\ results \in Seq({"Ok", "NotAck", "FrameErrors", "None"}) /\ Len(results) \in Nat
  BY DEF ConfInv, ConfTypes
<1>01. UNCHANGED ublox /\ \A c : Conf!Id(c)' = Conf!Id(c)
  BY DEF Conf!Next, Conf!vars, Conf!CarryOut, Conf!LoseCommand, Conf!Flush, Conf!Write,
     Conf!GetAck, Conf!GetFrameErrors, Conf!AckTimeout, Conf!Id
<1>1. ASSUME NEW ok \in BOOLEAN, Conf!CarryOut(ok) PROVE LateAnswers' /\ AppliedInv'
  <2> DEFINE h == Head(toReceiver)
             a == [id |-> Conf!Id(h), for |-> h, ok |-> ok]
  <2>1. toDriver' = Append(toDriver, a) /\ UNCHANGED results
    BY <1>1 DEF Conf!CarryOut
  <2>2. /\ applied \subseteq applied' /\ (ok => h \in applied')
        /\ applied' \subseteq applied \cup {h} /\ ~ok => applied' = applied
    BY <1>1 DEF Conf!CarryOut
  <2>3. a \in Answers /\ h \in Nat
    BY <1>0, <1>1, TailOf, Facts DEF Conf!CarryOut, Answers, ConfInv, ConfTypes, InOrder,
       Written
  <2>4. h \notin applied /\ h > 0
    BY <1>0, <1>1, TailOf DEF Conf!CarryOut, ConfInv, InOrder, Written
  <2>5. a.for = h /\ a.ok = ok
    OBVIOUS
  <2> HIDE DEF a, h
  <2>6. /\ Len(toDriver') = Len(toDriver) + 1 /\ toDriver'[Len(toDriver) + 1] = a
        /\ \A k \in 1 .. Len(toDriver) : toDriver'[k] = toDriver[k]
        /\ Len(toDriver) \in Nat
    BY <1>0, <2>1, <2>3, AppendOf
  <2>7. ASSUME NEW c \in 1 .. Len(results), Unanswered(ublox, c, applied, results)
        PROVE  Unanswered(ublox, c, applied', results')
    BY <1>01, <2>1, <2>2, <2>7, UnansweredKept
  <2>8. AppliedInv'
    BY <1>01, <2>1, <2>2, <2>7 DEF AppliedInv, ConfInv
  <2>9. ASSUME ok, h \in 1 .. Len(results)
        PROVE  Unanswered(ublox, h, applied', results')
    <3>1. CASE results[h] = "Ok"
      BY <2>4, <2>7, <2>9, <3>1 DEF AppliedInv, ConfInv
    <3>2. CASE results[h] # "Ok"
      <4>1. h \in 1 .. h
        BY <2>3, <2>4
      <4> QED
        BY <2>1, <2>2, <2>9, <3>2, <4>1 DEF Unanswered, Conf!Id
    <3> QED
      BY <3>1, <3>2
  <2>10. LateAnswers'
    <3> SUFFICES ASSUME NEW k \in 1 .. Len(toDriver'), toDriver'[k].ok,
                        toDriver'[k].for \in 1 .. Len(results)
                 PROVE  Unanswered(ublox, toDriver'[k].for, applied', results')
      BY <1>01, <2>1 DEF LateAnswers
    <3>1. CASE k \in 1 .. Len(toDriver)
      BY <2>6, <2>7, <3>1 DEF LateAnswers, ConfInv
    <3>2. CASE k = Len(toDriver) + 1
      BY <2>5, <2>6, <2>9, <3>2
    <3> QED
      BY <2>6, <3>1, <3>2
  <2> QED
    BY <2>8, <2>10
<1>2. ASSUME UNCHANGED <<results, applied>>,
             toDriver' \in {toDriver, <<>>} \/ (toDriver # <<>> /\ toDriver' = Tail(toDriver))
      PROVE  LateAnswers' /\ AppliedInv'
  <2>1. ASSUME NEW c \in 1 .. Len(results), Unanswered(ublox, c, applied, results)
        PROVE  Unanswered(ublox, c, applied', results')
    BY <1>01, <1>2, <2>1, UnansweredKept
  <2>2. AppliedInv'
    BY <1>01, <1>2, <2>1 DEF AppliedInv, ConfInv
  <2>3. CASE toDriver' = toDriver
    BY <1>01, <1>2, <2>1, <2>2, <2>3 DEF LateAnswers, ConfInv
  <2>4. CASE toDriver' = <<>>
    BY <2>2, <2>4 DEF LateAnswers
  <2>5. CASE toDriver # <<>> /\ toDriver' = Tail(toDriver)
    <3>1. \A k \in 1 .. Len(toDriver') : toDriver'[k] = toDriver[k + 1] /\ k + 1 \in 1 .. Len(toDriver)
      BY <1>0, <2>5, TailOf
    <3>2. LateAnswers'
      BY <1>01, <1>2, <2>1, <3>1 DEF LateAnswers, ConfInv
    <3> QED
      BY <2>2, <3>2
  <2> QED
    BY <1>2, <2>3, <2>4, <2>5
<1>3. ASSUME NEW r \in {"Ok", "NotAck", "FrameErrors", "None"}, Conf!NextCommand(r), initPc = "await",
             UNCHANGED applied,
             \/ r = "None" /\ toDriver' = <<>>
             \/ r = "FrameErrors" /\ toDriver' = toDriver
             \/ r = "NotAck" /\ toDriver # <<>> /\ toDriver' = Tail(toDriver)
             \/ r = "Ok" /\ toDriver # <<>> /\ toDriver' = Tail(toDriver)
                /\ Conf!Matches(Head(toDriver))
      PROVE  LateAnswers' /\ AppliedInv'
  <2>1. /\ command \in Nat \ {0} /\ Len(results) = command - 1 /\ results' = Append(results, r)
        /\ Written = 1 .. command
    BY <1>3, Facts DEF Conf!NextCommand, ConfInv, ConfTypes, Written
  <2>2. /\ Len(results') = command /\ results'[command] = r
        /\ \A b \in 1 .. Len(results) : results'[b] = results[b]
    BY <1>0, <2>1, AppendOf
  <2>3. ASSUME NEW c \in 1 .. Len(results), Unanswered(ublox, c, applied, results)
        PROVE  Unanswered(ublox, c, applied', results')
    BY <1>01, <1>3, <2>2, <2>3, UnansweredKept
  <2>4. ASSUME r # "Ok", command \in applied
        PROVE  Unanswered(ublox, command, applied', results')
    <3>1. command \in 1 .. command
      BY <2>1
    <3> QED
      BY <1>01, <1>3, <2>2, <2>4, <3>1 DEF Unanswered, Conf!Id
  <2>5. ASSUME r = "Ok"
        PROVE  /\ toDriver[1].for \in 1 .. command
               /\ toDriver[1].for = command => command \in applied
               /\ toDriver[1].for # command => Unanswered(ublox, command, applied', results')
    <3> DEFINE b == toDriver[1].for
    <3>1. /\ Head(toDriver) = toDriver[1] /\ 1 \in 1 .. Len(toDriver)
          /\ toDriver[1].ok /\ toDriver[1].id = Conf!Id(command)
      BY <1>0, <1>3, <2>5, TailOf DEF Conf!Matches
    <3>2. b \in 1 .. command /\ Conf!Id(b) = Conf!Id(command) /\ b \in applied
      BY <2>1, <3>1 DEF ConfInv, InOrder, AnswersTrue
    <3> HIDE DEF b
    <3>3. ASSUME b # command PROVE Unanswered(ublox, command, applied', results')
      <4>1. b \in 1 .. Len(results)
        BY <2>1, <3>2, <3>3
      <4>2. Unanswered(ublox, b, applied, results)
        BY <3>1, <4>1 DEF ConfInv, LateAnswers, b
      <4>3. Unanswered(ublox, b, applied', results')
        BY <2>3, <4>1, <4>2
      <4>4. \A c \in 1 .. b : c \in 1 .. command
        BY <2>1, <3>2
      <4> QED
        BY <1>01, <3>2, <4>3, <4>4 DEF Unanswered, Conf!Id
    <3> QED
      BY <3>2, <3>3 DEF b
  <2>6. AppliedInv'
    <3> SUFFICES ASSUME NEW c \in 1 .. command, results'[c] = "Ok", c \notin applied
                 PROVE  Unanswered(ublox, c, applied', results')
      BY <1>01, <1>3, <2>2 DEF AppliedInv
    <3>1. CASE c = command
      BY <2>2, <2>5, <3>1
    <3>2. CASE c # command
      <4>1. c \in 1 .. Len(results)
        BY <2>1, <3>2
      <4> QED
        BY <2>2, <2>3, <4>1 DEF AppliedInv, ConfInv
    <3> QED
      BY <3>1, <3>2
  <2>7. CASE r = "None"
    BY <1>3, <2>6, <2>7 DEF LateAnswers
  <2>9. CASE r = "FrameErrors"
    <3> SUFFICES ASSUME NEW k \in 1 .. Len(toDriver), toDriver[k].ok,
                        toDriver[k].for \in 1 .. command
                 PROVE  Unanswered(ublox, toDriver[k].for, applied', results')
      BY <1>01, <1>3, <2>2, <2>6, <2>9 DEF LateAnswers
    <3> DEFINE c == toDriver[k].for
    <3>1. CASE c = command
      BY <2>4, <2>9, <3>1 DEF ConfInv, AnswersTrue
    <3>2. CASE c # command
      <4>1. c \in 1 .. Len(results)
        BY <2>1, <3>2
      <4>2. Unanswered(ublox, c, applied, results)
        BY <4>1 DEF ConfInv, LateAnswers
      <4> QED
        BY <2>3, <4>1, <4>2
    <3> QED
      BY <3>1, <3>2
  <2>8. CASE r \in {"Ok", "NotAck"}
    <3>1. /\ Len(toDriver) \in Nat \ {0} /\ 1 \in 1 .. Len(toDriver)
          /\ \A k \in 1 .. Len(toDriver') :
                /\ toDriver'[k] = toDriver[k + 1] /\ k + 1 \in 1 .. Len(toDriver)
                /\ toDriver[1].for < toDriver[k + 1].for
      <4>1. toDriver # <<>> /\ toDriver' = Tail(toDriver)
        BY <1>3, <2>8
      <4>2. /\ Len(toDriver) \in Nat \ {0} /\ Len(toDriver') = Len(toDriver) - 1
            /\ \A k \in 1 .. Len(toDriver') :
                  toDriver'[k] = toDriver[k + 1] /\ k + 1 \in 1 .. Len(toDriver)
        BY <1>0, <4>1, TailOf
      <4>3. \A k \in 1 .. Len(toDriver') : 1 < k + 1
        BY <4>2
      <4> QED
        BY <4>2, <4>3 DEF ConfInv, InOrder
    <3> SUFFICES ASSUME NEW k \in 1 .. Len(toDriver'), toDriver'[k].ok,
                        toDriver'[k].for \in 1 .. command
                 PROVE  Unanswered(ublox, toDriver'[k].for, applied', results')
      BY <1>01, <2>2, <2>6 DEF LateAnswers
    <3> DEFINE c == toDriver[k + 1].for
    <3>2. /\ toDriver[k + 1].ok /\ c \in 1 .. command /\ c \in applied /\ toDriver'[k].for = c
      BY <3>1 DEF ConfInv, AnswersTrue
    <3>3. CASE c = command /\ r = "Ok"
      <4>1. toDriver[1].for < command
        BY <3>1, <3>3
      <4> QED
        BY <2>1, <2>5, <3>2, <3>3, <4>1
    <3>4. CASE c = command /\ r # "Ok"
      BY <2>4, <3>2, <3>4
    <3>5. CASE c # command
      <4>1. c \in 1 .. Len(results)
        BY <2>1, <3>2, <3>5
      <4>2. Unanswered(ublox, c, applied, results)
        BY <3>1, <3>2, <4>1 DEF ConfInv, LateAnswers
      <4> QED
        BY <2>3, <3>2, <4>1, <4>2
    <3> QED
      BY <3>3, <3>4, <3>5
  <2> QED
    BY <2>7, <2>8, <2>9
<1>4. CASE Conf!GetAck
  <2>1. CASE Conf!Matches(Head(toDriver))
    BY <1>3, <1>4, <2>1 DEF Conf!GetAck
  <2>2. CASE ~Conf!Matches(Head(toDriver)) /\ ~Head(toDriver).ok
    BY <1>3, <1>4, <2>2 DEF Conf!GetAck
  <2>3. CASE ~Conf!Matches(Head(toDriver)) /\ Head(toDriver).ok
    BY <1>2, <1>4, <2>3 DEF Conf!GetAck
  <2> QED
    BY <2>1, <2>2, <2>3
<1>5. CASE Conf!AckTimeout
  BY <1>3, <1>5 DEF Conf!AckTimeout
<1>7. CASE Conf!GetFrameErrors
  BY <1>3, <1>7 DEF Conf!GetFrameErrors
<1>6. CASE Conf!LoseCommand \/ Conf!Flush \/ Conf!Write \/ UNCHANGED Conf!vars
  BY <1>2, <1>6 DEF Conf!LoseCommand, Conf!Flush, Conf!Write, Conf!vars
<1> QED
  BY <1>1, <1>4, <1>5, <1>6, <1>7 DEF Conf!Next

(* The save is the only command of its id: no late answer is taken for its own. *)
LEMMA InvSays == ConfInv => Conf!OkMeansApplied /\ Conf!SavedIsFinal
<1> SUFFICES ASSUME ConfInv PROVE Conf!OkMeansApplied /\ Conf!SavedIsFinal
  OBVIOUS
<1>0. results \in Seq({"Ok", "NotAck", "FrameErrors", "None"}) /\ DOMAIN results = 1 .. Len(results)
  BY DEF ConfInv, ConfTypes
<1>1. Conf!OkMeansApplied
  <2> SUFFICES ASSUME NEW c \in 1 .. Len(results), results[c] = "Ok", c \notin applied
               PROVE  \E b \in 1 .. c - 1 : Conf!Id(b) = Conf!Id(c) /\ b \in applied /\ results[b] # "Ok"
    BY <1>0 DEF Conf!OkMeansApplied
  <2>1. PICK b \in 1 .. c : Conf!Id(b) = Conf!Id(c) /\ b \in applied /\ results[b] # "Ok"
    BY DEF ConfInv, AppliedInv, Unanswered, Conf!Id
  <2> QED
    BY <2>1
<1>2. Conf!SavedIsFinal
  <2> SUFFICES ASSUME Len(results) = Conf!Save, results[Conf!Save] = "Ok"
               PROVE  toReceiver = <<>> /\ Conf!Save \in applied
    BY DEF Conf!SavedIsFinal
  <2>1. Conf!Save \in Nat \ {0} /\ Conf!Save \in 1 .. Len(results) /\ Conf!Save = Len(Conf!Script[ublox])
    BY Facts DEF ConfInv, ConfTypes, Conf!Save
  <2>2. SavesLast(Conf!Script[ublox])
    BY SaveIsLast DEF ConfInv, ConfTypes
  <2>3. \A c \in 1 .. Conf!Save : Conf!Id(c) = "09" <=> c = Conf!Save
    BY <2>1, <2>2 DEF SavesLast, Conf!Id
  <2>4. Conf!Save \in applied
    BY <2>1, <2>3, <1>1, <1>0 DEF Conf!OkMeansApplied
  <2>5. ASSUME toReceiver # <<>> PROVE FALSE
    <3>1. toReceiver[1] \in Written /\ Conf!Save < toReceiver[1] /\ toReceiver \in Seq(Nat)
      BY <2>4, <2>5, TailOf DEF ConfInv, ConfTypes, InOrder
    <3> QED
      BY <2>1, <3>1 DEF ConfInv, ConfTypes, Written
  <2> QED
    BY <2>4, <2>5
<1> QED
  BY <1>1, <1>2

(* A command answered with Ok was carried out, unless an earlier one with its id
   is without its Ok; and when the save is answered with Ok the receiver has
   nothing before it (initUblox6(), initUblox789(), initUblox10(), getAck()).  *)
THEOREM OkIsInForce == Conf!Spec => [](Conf!OkMeansApplied /\ Conf!SavedIsFinal)
<1>1. ConfInv /\ [Conf!Next]_(Conf!vars) => ConfInv'
  BY TypesKept, OrderKept, AnswersKept, LateKept DEF ConfInv
<1> QED
  BY InitInv, <1>1, InvSays, PTL DEF Conf!Spec

LEMMA PartsAreConf == PartsSpec => Conf!Spec
<1>1. PartsInit => Conf!Init
  BY DEF PartsInit
<1>2. [PartsNext]_allVars => [Conf!Next]_(Conf!vars)
  BY DEF PartsNext, Rest, allVars, confVars, Conf!vars
<1> QED
  BY <1>1, <1>2, PTL DEF PartsSpec, Conf!Spec

(* An Ok means a command that is in force, and a save after which nothing is left to
   be carried out (initUblox6(), initUblox789(), initUblox10()), for every receiver
   that init() sends one of these to, with a protocol version of 18 or not, and
   however many commands and answers are lost, refused or late or end in frame
   errors. *)
THEOREM OkMeansInForce == PartsSpec => []ConfigurationInForce
<1>1. Conf!OkMeansApplied /\ Conf!SavedIsFinal => ConfigurationInForce
  BY DEF ConfigurationInForce
<1> QED
  BY <1>1, PartsAreConf, OkIsInForce, PTL

-----------------------------------------------------------------------------
(* The timer callbacks of apps.  The queue ends with what was posted last: the
   command to delete a Timer that is gone, or the one to start it again; and a
   freed Timer is active no longer than its command to be deleted waits.      *)
Commands == {"start", "stop", "delete"}
Waits(c, q) == \E i \in DOMAIN q : q[i] = c
EndsWith(c, q) == q # <<>> /\ q[Len(q)] = c

TimerTypes ==
    /\ tKind \in TimerApps
    /\ tLife \in {"none", "created", "shown", "hidden", "popped"}
    /\ again \in BOOLEAN /\ widgets \in BOOLEAN /\ timerObj \in BOOLEAN
    /\ ticking \in {"none", "live", "freed"}
    /\ queue \in Seq(Commands) /\ Len(queue) <= TimerQueue
    /\ hookPc \in {"idle", "show", "start", "hide"}
    /\ tickPc \in {"idle", "lvgl", "update"}
    /\ tickApp \in {"none", "live", "freed"}
    /\ tLvgl \in {"hook", "tick", "free"}
    /\ \A h \in hits :
          h \in [what : {"assert", "freedTimer", "freedApp", "deadWidgets", "unlocked"},
                early : BOOLEAN]

TimerHooks ==
    /\ hookPc = "show" => tLife \in {"created", "hidden"}
    /\ hookPc \in {"start", "hide"} => tLife = "shown"
    /\ tLife = "hidden" => again
    /\ tLife = "shown" => widgets
    /\ tLife = "shown" /\ hookPc # "start" => timerObj
    /\ tKind = "gpio" /\ timerObj => tLife = "shown" /\ hookPc # "start"
    /\ timerObj /\ tLife \in {"popped", "none"} => tickPc # "idle"
    /\ tickApp = "freed" =>
          Timer!CapturesApp /\ tickPc # "idle" /\ tLife \in {"popped", "none"}

TimerQueued ==
    /\ ~timerObj => ticking # "live" /\ (queue # <<>> => EndsWith("delete", queue))
    /\ ticking = "freed" => Waits("delete", queue)
    /\ ~again /\ (tLife = "created" \/ hookPc = "start") => ticking = "none" /\ queue = <<>>
    /\ ~again /\ tLife = "shown" => ~Waits("delete", queue)
    /\ tLife = "shown" /\ hookPc \in {"idle", "hide"} /\ (tKind = "screenshot" => ~again)
          => IF queue = <<>> THEN ticking = "live" ELSE EndsWith("start", queue)

TimerInv == TimerTypes /\ TimerHooks /\ TimerQueued /\ Timer!OnlyKnownHits

LEMMA PostType ==
    ASSUME NEW s \in Seq(Commands), queue \in Seq(Commands), s # <<>>, Timer!Post(s)
    PROVE  /\ queue' \in Seq(Commands) /\ Len(queue') <= TimerQueue
           /\ \A c : EndsWith(c, queue') <=> s[Len(s)] = c
           /\ \A c : Waits(c, queue') <=> Waits(c, queue) \/ Waits(c, s)
<1> DEFINE m == Len(queue)
           n == Len(s)
<1>1. /\ queue' = queue \o s /\ m + n <= TimerQueue /\ m \in Nat /\ n \in Nat /\ n # 0
      /\ DOMAIN s = 1 .. n /\ DOMAIN queue = 1 .. m /\ TimerQueue \in Nat
  BY InstanceParameters DEF Timer!Post, Timer!AppTimerParameters
<1>2. /\ queue' \in Seq(Commands) /\ Len(queue') = m + n /\ DOMAIN queue' = 1 .. m + n
      /\ \A i \in 1 .. m : queue'[i] = queue[i]
      /\ \A i \in m + 1 .. m + n : queue'[i] = s[i - m]
  BY <1>1
<1> HIDE DEF m, n
<1>3. ASSUME NEW c PROVE EndsWith(c, queue') <=> s[n] = c
  <2>1. m + n \in m + 1 .. m + n /\ (m + n) - m = n /\ m + n # 0
    BY <1>1
  <2>2. queue'[m + n] = s[n] /\ queue' # <<>>
    BY <1>2, <2>1
  <2> QED
    BY <1>2, <2>2 DEF EndsWith
<1>4. ASSUME NEW c PROVE Waits(c, queue') <=> Waits(c, queue) \/ Waits(c, s)
  <2>1. \A i \in 1 .. m : i \in 1 .. m + n
    BY <1>1
  <2>2. \A i \in 1 .. n : m + i \in m + 1 .. m + n /\ m + i \in 1 .. m + n /\ (m + i) - m = i
    BY <1>1
  <2>3. \A i \in 1 .. m + n : i \in 1 .. m \/ (i \in m + 1 .. m + n /\ i - m \in 1 .. n)
    BY <1>1
  <2>4. ASSUME NEW i \in 1 .. m + n, queue'[i] = c PROVE Waits(c, queue) \/ Waits(c, s)
    <3>1. CASE i \in 1 .. m
      BY <1>1, <1>2, <2>4, <3>1 DEF Waits
    <3>2. CASE i \in m + 1 .. m + n /\ i - m \in 1 .. n
      BY <1>1, <1>2, <2>4, <3>2 DEF Waits
    <3> QED
      BY <2>3, <3>1, <3>2
  <2>5. ASSUME Waits(c, queue) PROVE Waits(c, queue')
    BY <1>1, <1>2, <2>1, <2>5 DEF Waits
  <2>6. ASSUME Waits(c, s) PROVE Waits(c, queue')
    <3>1. PICK i \in 1 .. n : s[i] = c
      BY <1>1, <2>6 DEF Waits
    <3>2. queue'[m + i] = c
      BY <1>2, <2>2, <3>1
    <3> QED
      BY <1>2, <2>2, <3>2 DEF Waits
  <2> QED
    BY <1>2, <2>4, <2>5, <2>6 DEF Waits
<1> QED
  BY <1>1, <1>2, <1>3, <1>4 DEF n

LEMMA TakeCommand ==
    ASSUME queue \in Seq(Commands), queue # <<>>
    PROVE  /\ Head(queue) \in Commands /\ Tail(queue) \in Seq(Commands)
           /\ Len(Tail(queue)) <= Len(queue)
           /\ \A c : Waits(c, queue) => Head(queue) = c \/ Waits(c, Tail(queue))
           /\ \A c : Waits(c, Tail(queue)) => Waits(c, queue)
           /\ \A c : EndsWith(c, queue) =>
                 IF Tail(queue) = <<>> THEN Head(queue) = c
                 ELSE EndsWith(c, Tail(queue)) /\ Waits(c, Tail(queue))
           /\ \A c : c \in Timer!ToSet(Tail(queue)) <=> Waits(c, Tail(queue))
<1> DEFINE t == Tail(queue)
           m == Len(queue)
<1>1. /\ Head(queue) \in Commands /\ t \in Seq(Commands) /\ Head(queue) = queue[1]
      /\ m \in Nat /\ m # 0 /\ Len(t) = m - 1 /\ DOMAIN queue = 1 .. m /\ DOMAIN t = 1 .. m - 1
      /\ \A i \in 1 .. m - 1 : t[i] = queue[i + 1]
  OBVIOUS
<1>2. t = <<>> <=> m = 1
  <2>1. ASSUME NEW u \in Seq(Commands) PROVE u = <<>> <=> Len(u) = 0
    OBVIOUS
  <2>2. t = <<>> <=> Len(t) = 0
    <3> HIDE DEF t
    <3> QED
      BY <1>1, <2>1
  <2> HIDE DEF t, m
  <2> QED
    BY <1>1, <2>2
<1>3. \A c : c \in Timer!ToSet(t) <=> Waits(c, t)
  BY <1>1 DEF Timer!ToSet, Waits
<1> HIDE DEF t, m
<1>4. ASSUME NEW c, Waits(c, queue) PROVE Head(queue) = c \/ Waits(c, t)
  <2>1. PICK i \in 1 .. m : queue[i] = c
    BY <1>1, <1>4 DEF Waits
  <2>2. i = 1 \/ (i - 1 \in 1 .. m - 1 /\ (i - 1) + 1 = i)
    BY <1>1
  <2> QED
    BY <1>1, <2>1, <2>2 DEF Waits
<1>5. ASSUME NEW c, Waits(c, t) PROVE Waits(c, queue)
  <2>1. \A i \in 1 .. m - 1 : i + 1 \in 1 .. m
    BY <1>1
  <2> QED
    BY <1>1, <1>5, <2>1 DEF Waits
<1>6. ASSUME NEW c, EndsWith(c, queue)
      PROVE  IF t = <<>> THEN Head(queue) = c ELSE EndsWith(c, t) /\ Waits(c, t)
  <2>1. queue[m] = c
    BY <1>6 DEF EndsWith, m
  <2>2. CASE m = 1
    BY <1>1, <1>2, <2>1, <2>2
  <2>3. CASE m # 1
    <3>1. m - 1 \in 1 .. m - 1 /\ (m - 1) + 1 = m
      BY <1>1, <2>3
    <3>2. t[m - 1] = c
      BY <1>1, <2>1, <3>1
    <3> QED
      BY <1>1, <1>2, <2>3, <3>1, <3>2 DEF EndsWith, Waits
  <2> QED
    BY <2>2, <2>3
<1>7. Len(t) <= Len(queue)
  BY <1>1 DEF m
<1> QED
  BY <1>1, <1>3, <1>4, <1>5, <1>6, <1>7 DEF t

(* What the three ways to post do to the queue. *)
LEMMA Posted ==
    ASSUME TimerTypes
    PROVE  /\ \A s \in {<<>>, <<"stop">>} : Timer!FreeTimer(s) =>
                 /\ queue' \in Seq(Commands) /\ Len(queue') <= TimerQueue
                 /\ EndsWith("delete", queue') /\ Waits("delete", queue')
                 /\ timerObj' = FALSE
                 /\ ticking' = IF ticking = "live" THEN "freed" ELSE ticking
           /\ \A c \in {"start", "stop"} : Timer!Post(<<c>>) =>
                 /\ queue' \in Seq(Commands) /\ Len(queue') <= TimerQueue
                 /\ queue' # <<>>
                 /\ EndsWith(c, queue')
                 /\ Waits("delete", queue') <=> Waits("delete", queue)
<1>0. queue \in Seq(Commands)
  BY DEF TimerTypes
<1>1. ASSUME NEW s \in {<<>>, <<"stop">>}, Timer!FreeTimer(s)
      PROVE  /\ queue' \in Seq(Commands) /\ Len(queue') <= TimerQueue
             /\ EndsWith("delete", queue') /\ Waits("delete", queue')
  <2> DEFINE d == s \o <<"delete">>
  <2>1. /\ d \in Seq(Commands) /\ d # <<>> /\ Len(d) \in 1 .. 2 /\ DOMAIN d = 1 .. Len(d)
        /\ d[Len(d)] = "delete"
    <3>1. /\ <<"delete">> \in Seq(Commands) /\ Len(<<"delete">>) = 1
          /\ <<"delete">>[1] = "delete"
      BY DEF Commands
    <3>4. <<>> \in Seq(Commands) /\ Len(<<>>) = 0
      OBVIOUS
    <3>5. <<"stop">> \in Seq(Commands) /\ Len(<<"stop">>) = 1
      BY DEF Commands
    <3>6. s \in Seq(Commands) /\ Len(s) \in {0, 1}
      <4>1. s = <<>> \/ s = <<"stop">>
        OBVIOUS
      <4>2. CASE s = <<>>
        BY <3>4, <4>2
      <4>3. CASE s = <<"stop">>
        BY <3>5, <4>3
      <4> QED
        BY <4>1, <4>2, <4>3
    <3>2. ASSUME NEW r \in Seq(Commands), NEW q \in Seq(Commands), Len(q) = 1
          PROVE  /\ r \o q \in Seq(Commands) /\ Len(r \o q) = Len(r) + 1
                 /\ (r \o q)[Len(r) + 1] = q[1] /\ r \o q # <<>>
                 /\ DOMAIN (r \o q) = 1 .. Len(r \o q)
      <4> DEFINE m == Len(r)
      <4>4. r \o q \in Seq(Commands) /\ m \in Nat
        OBVIOUS
      <4>5. Len(r \o q) = m + Len(q)
        OBVIOUS
      <4>6. \A i \in m + 1 .. m + Len(q) : (r \o q)[i] = q[i - m]
        OBVIOUS
      <4>7. DOMAIN (r \o q) = 1 .. Len(r \o q)
        BY <4>4
      <4> HIDE DEF m
      <4>1. /\ r \o q \in Seq(Commands) /\ Len(r \o q) = m + 1
            /\ DOMAIN (r \o q) = 1 .. Len(r \o q) /\ m \in Nat
            /\ \A i \in m + 1 .. m + 1 : (r \o q)[i] = q[i - m]
        BY <3>2, <4>4, <4>5, <4>6, <4>7, Zenon
      <4>2. m + 1 \in m + 1 .. m + 1 /\ (m + 1) - m = 1 /\ m + 1 # 0
        BY <4>1
      <4>3. (r \o q)[m + 1] = q[1] /\ r \o q # <<>>
        BY <4>1, <4>2
      <4> QED
        BY <4>1, <4>3 DEF m
    <3>7. /\ d \in Seq(Commands) /\ Len(d) = Len(s) + 1
          /\ d[Len(s) + 1] = <<"delete">>[1] /\ d # <<>> /\ DOMAIN d = 1 .. Len(d)
      <4>1. s \in Seq(Commands) /\ <<"delete">> \in Seq(Commands) /\ Len(<<"delete">>) = 1
        BY <3>1, <3>6
      <4> QED
        BY <4>1, <3>2, Zenon
    <3>3. /\ d \in Seq(Commands) /\ Len(d) = Len(s) + 1 /\ d[Len(s) + 1] = "delete"
          /\ d # <<>> /\ DOMAIN d = 1 .. Len(d)
      <4> HIDE DEF d
      <4> QED
        BY <3>1, <3>7, Zenon
    <3> HIDE DEF d
    <3>8. Len(d) \in 1 .. 2
      <4>1. ASSUME NEW k \in {0, 1} PROVE k + 1 \in 1 .. 2
        OBVIOUS
      <4>2. Len(d) = Len(s) + 1 /\ Len(s) \in {0, 1}
        BY <3>3, <3>6, Zenon
      <4> QED
        BY <4>1, <4>2, Zenon
    <3>9. d[Len(d)] = "delete"
      BY <3>3, Zenon
    <3> QED
      BY <3>3, <3>8, <3>9
  <2>2. Waits("delete", d)
    <3> HIDE DEF d
    <3>1. Len(d) \in DOMAIN d
      BY <2>1
    <3> QED
      BY <2>1, <3>1 DEF Waits
  <2>3. Timer!Post(d)
    BY <1>1 DEF Timer!FreeTimer
  <2> HIDE DEF d
  <2> QED
    BY <1>0, <2>1, <2>2, <2>3, PostType
<1>2. ASSUME NEW c \in {"start", "stop"}, Timer!Post(<<c>>)
      PROVE  /\ queue' \in Seq(Commands) /\ Len(queue') <= TimerQueue
             /\ EndsWith(c, queue') /\ queue' # <<>>
             /\ Waits("delete", queue') <=> Waits("delete", queue)
  <2> DEFINE d == <<c>>
  <2>1. /\ d \in Seq(Commands) /\ d # <<>> /\ d[Len(d)] = c /\ DOMAIN d = {1} /\ d[1] = c
    BY DEF Commands
  <2>2. ~Waits("delete", d)
    BY <2>1 DEF Waits
  <2>3. Timer!Post(d)
    BY <1>2
  <2> HIDE DEF d
  <2>4. /\ queue' \in Seq(Commands) /\ Len(queue') <= TimerQueue
        /\ EndsWith(c, queue')
        /\ Waits("delete", queue') <=> Waits("delete", queue)
    BY <1>0, <2>1, <2>2, <2>3, PostType
  <2> QED
    BY <2>4 DEF EndsWith
<1> QED
  BY <1>1, <1>2 DEF Timer!FreeTimer

LEMMA TimerBegins == Timer!Init => TimerInv
<1> SUFFICES ASSUME Timer!Init PROVE TimerInv
  OBVIOUS
<1>1. queue \in Seq(Commands) /\ queue = <<>> /\ ~Waits("delete", queue)
  BY DEF Timer!Init, Waits
<1>5. Len(queue) <= TimerQueue
  <2>1. Len(<<>>) = 0 /\ TimerQueue \in Nat
    BY InstanceParameters DEF Timer!AppTimerParameters
  <2> QED
    BY <1>1, <2>1
<1>2. TimerTypes
  BY <1>1, <1>5 DEF Timer!Init, TimerTypes
<1>3. TimerHooks
  BY DEF Timer!Init, TimerHooks
<1>4. TimerQueued
  BY <1>1 DEF Timer!Init, TimerQueued
<1> QED
  BY <1>2, <1>3, <1>4 DEF TimerInv, Timer!Init, Timer!OnlyKnownHits

LEMMA TimerInvStep == TimerInv /\ Timer!Next => TimerInv'
<1> SUFFICES ASSUME TimerInv, Timer!Next PROVE TimerInv'
  OBVIOUS
<1> USE DEF TimerInv, TimerTypes, TimerHooks, TimerQueued, Timer!Hook, Timer!Tick,
            Timer!CapturesApp, Timer!timerVars, Timer!hookVars, Timer!tickVars
<1>0. /\ \A s \in {<<>>, <<"stop">>} : Timer!FreeTimer(s) =>
            /\ queue' \in Seq(Commands) /\ Len(queue') <= TimerQueue
            /\ EndsWith("delete", queue') /\ Waits("delete", queue')
            /\ timerObj' = FALSE
            /\ ticking' = IF ticking = "live" THEN "freed" ELSE ticking
      /\ \A c \in {"start", "stop"} : Timer!Post(<<c>>) =>
            /\ queue' \in Seq(Commands) /\ Len(queue') <= TimerQueue
            /\ queue' # <<>>
            /\ EndsWith(c, queue')
            /\ Waits("delete", queue') <=> Waits("delete", queue)
  BY Posted
<1> DEFINE Kinds == {"assert", "freedTimer", "freedApp", "deadWidgets", "unlocked"}
           Known(w) == /\ w # "assert"
                       /\ w = "unlocked" => tKind = "power"
                       /\ w = "freedApp" => Timer!CapturesApp
                       /\ Timer!Early => w = "unlocked"
<1>20. ASSUME UNCHANGED <<tKind, hits>>
       PROVE  /\ Timer!OnlyKnownHits'
              /\ \A h \in hits' : h \in [what : Kinds, early : BOOLEAN]
  BY <1>20 DEF Timer!OnlyKnownHits
<1>21. ASSUME NEW ws \in SUBSET Kinds, Timer!Hit(ws), tKind' = tKind,
              \A w \in ws : Known(w)
       PROVE  /\ Timer!OnlyKnownHits'
              /\ \A h \in hits' : h \in [what : Kinds, early : BOOLEAN]
  <2> SUFFICES ASSUME NEW h \in hits'
               PROVE  /\ h.what # "assert"
                      /\ h.what = "unlocked" => tKind = "power"
                      /\ h.what = "freedApp" => Timer!CapturesApp
                      /\ h.early => h.what = "unlocked"
                      /\ h \in [what : Kinds, early : BOOLEAN]
    BY <1>21 DEF Timer!OnlyKnownHits
  <2>1. CASE h \in hits
    BY <2>1 DEF Timer!OnlyKnownHits
  <2>2. CASE h \notin hits
    <3>1. PICK w \in ws : h = [what |-> w, early |-> Timer!Early]
      BY <1>21, <2>2 DEF Timer!Hit
    <3>2. Timer!Early \in BOOLEAN
      BY DEF Timer!Early
    <3>3. h.what = w /\ h.early = Timer!Early
      BY <3>1, Zenon
    <3>4. h \in [what : Kinds, early : BOOLEAN]
      <4> HIDE DEF Kinds
      <4>1. w \in Kinds
        BY <1>21
      <4> QED
        BY <3>1, <3>2, <4>1, Zenon
    <3>5. Known(w)
      BY <1>21
    <3> HIDE DEF Kinds
    <3> QED
      BY <3>3, <3>4, <3>5, Zenon DEF Known
  <2> QED
    BY <2>1, <2>2
<1> HIDE DEF Kinds, Known
<1>1. ASSUME Timer!Create PROVE TimerInv'
  <2>1. ticking = "none" /\ timerObj = FALSE
    <3>1. ~Waits("delete", <<>>)
      BY DEF Waits
    <3> QED
      BY <1>1, <3>1 DEF Timer!Create
  <2>2. ~Waits("delete", queue)
    BY <1>1 DEF Timer!Create, Waits
  <2>3. TimerTypes' /\ TimerHooks'
    BY <1>1, <1>20, <2>1 DEF Timer!Create, Kinds
  <2>4. TimerQueued'
    BY <1>1, <2>1, <2>2 DEF Timer!Create
  <2> QED
    BY <1>1, <1>20, <2>3, <2>4 DEF Timer!Create
<1>2. ASSUME NEW life, NEW there, Timer!BeginHook(life, there),
             <<life, there>> \in {<<"created", "show">>, <<"hidden", "show">>,
                                  <<"shown", "hide">>}
      PROVE  TimerInv'
  <2>1. TimerTypes' /\ TimerHooks'
    BY <1>2, <1>20 DEF Timer!BeginHook, Kinds
  <2>2. TimerQueued'
    BY <1>2 DEF Timer!BeginHook
  <2> QED
    BY <1>2, <1>20, <2>1, <2>2 DEF Timer!BeginHook
<1>3. ASSUME Timer!Show PROVE TimerInv'
  <2>0. \/ queue' = queue
        \/ tKind = "screenshot" /\ ticking = "live" /\ Timer!Post(<<"stop">>)
    BY <1>3 DEF Timer!Show
  <2>1. TimerTypes' /\ TimerHooks'
    BY <1>0, <1>3, <1>20, <2>0 DEF Timer!Show, Kinds
  <2>2. ASSUME queue' = queue PROVE TimerQueued'
    <3>1. ~Waits("delete", <<>>)
      BY DEF Waits
    <3> QED
      BY <1>3, <2>2, <3>1 DEF Timer!Show
  <2>3. ASSUME tKind = "screenshot", ticking = "live", Timer!Post(<<"stop">>)
        PROVE  TimerQueued'
    <3>1. /\ queue' # <<>> /\ (Waits("delete", queue') <=> Waits("delete", queue))
          /\ UNCHANGED <<tKind, again, timerObj, ticking>>
          /\ hookPc' = "start" /\ hookPc = "show"
      BY <1>0, <1>3, <2>3 DEF Timer!Show
    <3>2. again /\ timerObj
      BY <1>3, <2>3 DEF Timer!Show
    <3> QED
      BY <2>3, <3>1, <3>2
  <2> QED
    BY <1>3, <1>20, <2>0, <2>1, <2>2, <2>3 DEF Timer!Show
<1>4. ASSUME Timer!StartTimer PROVE TimerInv'
  <2>0. hits' = hits /\ (\/ tKind = "screenshot" /\ ticking = "live" /\ queue' = queue
                        \/ Timer!Post(<<"start">>))
    BY <1>4 DEF Timer!StartTimer
  <2>1. TimerTypes' /\ TimerHooks'
    BY <1>0, <1>4, <1>20, <2>0 DEF Timer!StartTimer, Kinds
  <2>2. TimerQueued'
    BY <1>0, <1>4, <2>0 DEF Timer!StartTimer
  <2> QED
    BY <1>4, <1>20, <2>0, <2>1, <2>2 DEF Timer!StartTimer
<1>5. ASSUME Timer!Hide PROVE TimerInv'
  <2>0. /\ hits' = hits
        /\ \/ tKind = "gpio" /\ Timer!FreeTimer(<<"stop">>)
           \/ tKind = "power" /\ Timer!Post(<<"stop">>) /\ UNCHANGED <<timerObj, ticking>>
           \/ tKind = "screenshot" /\ UNCHANGED <<timerObj, ticking, queue>>
    BY <1>5 DEF Timer!Hide, Timer!Hidden
  <2>1. TimerTypes' /\ TimerHooks'
    BY <1>0, <1>5, <1>20, <2>0 DEF Timer!Hide, Timer!Hidden, Kinds
  <2>2. TimerQueued'
    BY <1>0, <1>5, <2>0 DEF Timer!Hide, Timer!Hidden
  <2> QED
    BY <1>5, <1>20, <2>0, <2>1, <2>2 DEF Timer!Hide, Timer!Hidden
<1>6. ASSUME Timer!Pop PROVE TimerInv'
  <2>0. \/ /\ timerObj /\ (Timer!CapturesApp \/ tickPc = "idle")
           /\ \E s \in {<<>>, <<"stop">>} : Timer!FreeTimer(s)
        \/ /\ ~(timerObj /\ (Timer!CapturesApp \/ tickPc = "idle"))
           /\ UNCHANGED <<timerObj, ticking, queue>>
    BY <1>6 DEF Timer!Pop
  <2>3. TimerTypes'
    BY <1>0, <1>6, <1>20, <2>0 DEF Timer!Pop, Timer!Popped, Kinds
  <2>1. TimerHooks'
    BY <1>0, <1>6, <2>0 DEF Timer!Pop, Timer!Popped
  <2>2. TimerQueued'
    BY <1>0, <1>6, <2>0 DEF Timer!Pop, Timer!Popped
  <2> QED
    BY <1>6, <1>20, <2>1, <2>2, <2>3 DEF Timer!Pop, Timer!Popped
<1>7. ASSUME Timer!Redraw PROVE TimerInv'
  <2>1. TimerTypes' /\ TimerHooks'
    BY <1>7, <1>20 DEF Timer!Redraw, Kinds
  <2>2. TimerQueued'
    BY <1>7 DEF Timer!Redraw
  <2> QED
    BY <1>7, <1>20, <2>1, <2>2 DEF Timer!Redraw
<1>8. ASSUME Timer!Fire PROVE TimerInv'
  <2>1. TimerTypes' /\ TimerHooks'
    BY <1>8, <1>20 DEF Timer!Fire, Kinds
  <2>2. TimerQueued'
    BY <1>8 DEF Timer!Fire
  <2> QED
    BY <1>8, <1>20, <2>1, <2>2 DEF Timer!Fire
<1>9. ASSUME Timer!FireFreed PROVE TimerInv'
  <2>0. Known("freedTimer") /\ {"freedTimer"} \in SUBSET Kinds /\ Timer!Hit({"freedTimer"})
    BY <1>9 DEF Timer!FireFreed, Timer!Early, Known, Kinds
  <2>1. /\ Timer!OnlyKnownHits'
        /\ \A h \in hits' : h \in [what : Kinds, early : BOOLEAN]
    BY <1>9, <1>21, <2>0 DEF Timer!FireFreed
  <2>2. TimerTypes' /\ TimerHooks'
    BY <1>9, <2>1 DEF Timer!FireFreed, Kinds
  <2>3. TimerQueued'
    BY <1>9 DEF Timer!FireFreed
  <2> QED
    BY <2>1, <2>2, <2>3
<1>10. ASSUME Timer!Command PROVE TimerInv'
  <2> DEFINE h == Head(queue)
             t == Tail(queue)
  <2>1. /\ h \in Commands /\ t \in Seq(Commands) /\ Len(t) <= TimerQueue
        /\ \A c : Waits(c, queue) => h = c \/ Waits(c, t)
        /\ \A c : Waits(c, t) => Waits(c, queue)
        /\ \A c : EndsWith(c, queue) =>
              IF t = <<>> THEN h = c ELSE EndsWith(c, t) /\ Waits(c, t)
        /\ t = <<>> => ~Waits("delete", t)
    <3>1. Len(t) <= TimerQueue
      <4>1. Len(t) \in Nat /\ Len(queue) \in Nat /\ Len(t) <= Len(queue)
            /\ Len(queue) <= TimerQueue /\ TimerQueue \in Nat
        BY <1>10, TakeCommand, InstanceParameters DEF Timer!Command, Timer!AppTimerParameters
      <4> QED
        BY <4>1
    <3>2. t = <<>> => ~Waits("delete", t)
      BY DEF Waits
    <3> QED
      BY <1>10, <3>1, <3>2, TakeCommand DEF Timer!Command
  <2>2. /\ queue # <<>> /\ queue' = t /\ tickPc = "idle"
        /\ ticking' = IF h # "start" THEN "none"
                      ELSE IF Waits("delete", t) THEN "freed" ELSE "live"
        /\ UNCHANGED <<tKind, tLife, again, widgets, hookPc, timerObj, tickPc, tickApp, hits,
                       tLvgl>>
    BY <1>10, TakeCommand DEF Timer!Command
  <2> HIDE DEF h, t
  <2>3. TimerTypes' /\ TimerHooks'
    BY <1>20, <2>1, <2>2 DEF Kinds
  <2>4. TimerQueued'
    BY <2>1, <2>2
  <2> QED
    BY <1>20, <2>2, <2>3, <2>4
<1>11. ASSUME Timer!TickLvgl \/ Timer!TickTimeout PROVE TimerInv'
  <2>1. TimerTypes' /\ TimerHooks'
    BY <1>11, <1>20 DEF Timer!TickLvgl, Timer!TickTimeout, Kinds
  <2>2. TimerQueued'
    BY <1>11 DEF Timer!TickLvgl, Timer!TickTimeout
  <2> QED
    BY <1>11, <1>20, <2>1, <2>2 DEF Timer!TickLvgl, Timer!TickTimeout
<1>12. ASSUME Timer!TickUpdate PROVE TimerInv'
  <2> DEFINE ws == {w \in {"freedApp", "deadWidgets", "unlocked"} :
                      \/ w = "freedApp" /\ tickApp = "freed"
                      \/ w = "deadWidgets" /\ Timer!Touches /\ ~widgets
                      \/ w = "unlocked" /\ Timer!Unlocked}
  <2>0. /\ Timer!Hit(ws) /\ ws \in SUBSET Kinds
        /\ \A w \in ws : Known(w)
    BY <1>12 DEF Timer!TickUpdate, Timer!Early, Timer!Unlocked, Known, Kinds
  <2> HIDE DEF ws
  <2>1. /\ Timer!OnlyKnownHits'
        /\ \A h \in hits' : h \in [what : Kinds, early : BOOLEAN]
    BY <1>12, <1>21, <2>0 DEF Timer!TickUpdate
  <2>4. \/ /\ timerObj /\ tLife \in {"popped", "none"}
           /\ \E s \in {<<>>, <<"stop">>} : Timer!FreeTimer(s)
        \/ /\ ~(timerObj /\ tLife \in {"popped", "none"})
           /\ UNCHANGED <<timerObj, ticking, queue>>
    BY <1>12 DEF Timer!TickUpdate
  <2>5. TimerTypes'
    BY <1>0, <1>12, <2>1, <2>4 DEF Timer!TickUpdate, Kinds
  <2>2. TimerHooks'
    BY <1>0, <1>12, <2>4 DEF Timer!TickUpdate
  <2>3. TimerQueued'
    BY <1>0, <1>12, <2>4 DEF Timer!TickUpdate
  <2> QED
    BY <2>1, <2>2, <2>3, <2>5
<1> QED
  BY <1>1, <1>2, <1>3, <1>4, <1>5, <1>6, <1>7, <1>8, <1>9, <1>10, <1>11, <1>12
  DEF Timer!Next, Timer!HookStep, Timer!TickStep

LEMMA TimerSafe ==
    TimerInv => /\ Timer!AppTimerTypeOK /\ Timer!OnlyKnownHits
                /\ Timer!LiveTimerUnlessStopping /\ Timer!ShownIsRefreshed
<1> SUFFICES ASSUME TimerInv
             PROVE  /\ Timer!AppTimerTypeOK /\ Timer!OnlyKnownHits
                    /\ Timer!LiveTimerUnlessStopping /\ Timer!ShownIsRefreshed
  OBVIOUS
<1>1. \A c : c \in Timer!ToSet(queue) <=> Waits(c, queue)
  BY DEF Timer!ToSet, Waits
<1>2. \A c : Waits(c, queue) => c \in Commands
  BY DEF TimerInv, TimerTypes, Waits
<1>3. Timer!AppTimerTypeOK
  <2>1. hits \subseteq [what : {"assert", "freedTimer", "freedApp", "deadWidgets", "unlocked"},
                        early : BOOLEAN]
    BY DEF TimerInv, TimerTypes
  <2>2. Timer!ToSet(queue) \subseteq {"start", "stop", "delete"}
    BY <1>1, <1>2 DEF Commands
  <2> QED
    BY <2>1, <2>2 DEF TimerInv, TimerTypes, Timer!AppTimerTypeOK
<1>4. Timer!LiveTimerUnlessStopping
  BY <1>1 DEF TimerInv, TimerQueued, Timer!LiveTimerUnlessStopping
<1>5. Timer!ShownIsRefreshed
  BY DEF TimerInv, TimerHooks, TimerQueued, Timer!ShownIsRefreshed
<1> QED
  BY <1>3, <1>4, <1>5 DEF TimerInv

-----------------------------------------------------------------------------
(* The file browser: a dialog that is asked for, runs or has answered is about
   what is selected, for as long as its action is pending and nobody is about to
   change both; and unless dialogs overlapped there is one of them.            *)
AtMostOne(s) == s = <<>> \/ s = <<s[1]>>
About(d) == /\ d.kind # "none"
            /\ action = d.kind /\ ~Browser!HalfWritten => selected = d.name /\ fbPath = d.path
IsAnswered == filepath.name = answer.name /\ filepath.path = answer.path
Pressed == press.pc \in {"rename", "delete"}

OneDialog ==
    /\ AtMostOne(asked) /\ AtMostOne(dialogs)
    /\ asked # <<>> => dialogs = <<>> /\ resultPc = "idle" /\ About(asked[1])
    /\ dialogs # <<>> => resultPc = "idle" /\ About(dialogs[1])
    /\ Pressed => asked = <<>> /\ dialogs = <<>> /\ resultPc = "idle" /\ press.to = selected

AnswerInv ==
    /\ resultPc = "read" => About(answer)
    /\ resultPc = "decide" => /\ answer.kind # "none"
                              /\ ~filepath.half /\ action = answer.kind => IsAnswered
    /\ resultPc \in {"operate", "where"} /\ ~filepath.half => IsAnswered

BrowserInv == ~overlap => OneDialog /\ AnswerInv

LEMMA OneElement ==
    ASSUME NEW e
    PROVE  /\ Append(<<>>, e) = <<e>> /\ Tail(<<e>>) = <<>> /\ Head(<<e>>) = e
           /\ <<e>>[1] = e /\ <<e>> # <<>> /\ Len(<<e>>) = 1
           /\ Browser!Front(<<e>>) = <<>> /\ Browser!Last(<<e>>) = e
BY DEF Browser!Front, Browser!Last

(* What is listed are names. *)
LEMMA ListingType ==
    ASSUME NEW tree, NEW path, Names \in Seq(Browser!ToSet(Names))
    PROVE  Browser!Listing(tree, path) \in Seq(Browser!ToSet(Names))
<1> DEFINE m == Len(Names)
           S == Seq(Browser!ToSet(Names))
           step == [x \in (1 .. m) \X S |->
                      IF Names[x[1]] \in tree[path] THEN Append(x[2], Names[x[1]])
                      ELSE x[2]]
           Is(h) == h = [n \in 0 .. m |->
                          IF n = 0 THEN <<>>
                          ELSE IF Names[n] \in tree[path] THEN Append(h[n - 1], Names[n])
                          ELSE h[n - 1]]
           kept == CHOOSE h : Is(h)
<1> HIDE DEF Names
<1>1. m \in Nat /\ \A n \in 1 .. m : Names[n] \in Browser!ToSet(Names)
  OBVIOUS
<1>2. \A n \in 1 .. m : \A s \in S : step[<<n, s>>] \in S
  BY <1>1
<1>3. \E h : Is(h)
  <2>1. PICK h : Folds(h, m, <<>>, step)
    BY <1>1, FoldExists
  <2>2. \A n \in 0 .. m : h[n] \in S
    <3>1. <<>> \in S
      OBVIOUS
    <3> HIDE DEF step, m, S
    <3> QED
      BY <1>1, <1>2, <2>1, <3>1, FoldType, Zenon
  <2>3. ASSUME NEW n \in 0 .. m, n # 0
        PROVE  step[<<n, h[n - 1]>>] =
                   IF Names[n] \in tree[path] THEN Append(h[n - 1], Names[n]) ELSE h[n - 1]
    <3>1. n \in 1 .. m /\ n - 1 \in 0 .. m
      BY <1>1, <2>3
    <3> QED
      BY <2>2, <3>1
  <2>4. Is(h)
    <3> HIDE DEF step
    <3> QED
      BY <2>1, <2>3, Zenon DEF Folds
  <2> QED
    BY <2>4
<1>4. Is(kept)
  <2> HIDE DEF Is
  <2> QED
    BY <1>3, Zenon
<1>5. Browser!Listing(tree, path) = kept[m]
  BY DEF Browser!Listing
<1> DEFINE T == {n \in 0 .. m : kept[n] \in S}
<1> HIDE DEF kept
<1>6. 0 \in T
  BY <1>1, <1>4
<1>7. ASSUME NEW n \in 1 .. m, n - 1 \in T PROVE n \in T
  <2>1. n \in 0 .. m /\ n # 0
    BY <1>1
  <2>2. kept[n] = IF Names[n] \in tree[path] THEN Append(kept[n - 1], Names[n])
                  ELSE kept[n - 1]
    <3> HIDE DEF m, step
    <3> QED
      BY <1>4, <2>1
  <2>3. kept[n] \in S
    BY <1>1, <1>7, <2>2
  <2> QED
    BY <2>1, <2>3
<1>8. 0 .. m \subseteq T
  <2> HIDE DEF T, Is
  <2> QED
    BY <1>1, <1>6, <1>7, UpTo
<1> QED
  BY <1>1, <1>5, <1>8

(* The names in the two directories, and the empty one. *)
NameSet == Browser!ToSet(Names)
SomeName == NameSet \cup {NoName}
Dialogs == [kind : {"rename", "delete", "view"}, path : Browser!Paths, name : SomeName]
DialogAnswers == [kind : {"rename", "delete", "none"}, path : Browser!Paths,
                  name : SomeName, new : SomeName]

BrowserTypes ==
    /\ fs \in [Browser!Paths -> SUBSET NameSet]
    /\ fbPath \in Browser!Paths
    /\ entries \in Seq(NameSet)
    /\ fbList \in Seq(NameSet)
    /\ selected \in SomeName
    /\ action \in {"none", "rename", "delete"}
    /\ menu \in {"none", "directory", "file"}
    /\ fbView \in {"shown", "gone"}
    /\ press.pc = "clear" => press.to \in {"enter", "view", "directory", "file", "update"}
    /\ Pressed => press.to \in SomeName
    /\ asked \in Seq(Dialogs)
    /\ dialogs \in Seq(Dialogs)
    /\ topDrawn \in BOOLEAN
    /\ resultPc \in {"idle", "read", "decide", "operate", "where", "list", "unselect",
                     "clear", "update", "dead"}
    /\ answer \in DialogAnswers
    /\ resultPc = "operate" /\ answer.kind = "rename" => answer.new \in NameSet
    /\ filepath \in [path : Browser!Paths, name : SomeName, half : BOOLEAN]
    /\ relist \in Browser!Paths
    /\ overlap \in BOOLEAN
    /\ starts \in 0 .. MaxDialogs

LEMMA NamesAreListed == Names \in Seq(NameSet) /\ {"d", "a", "b"} \subseteq NameSet
<1>1. NameSet = {Names[i] : i \in DOMAIN Names}
  BY DEF NameSet, Browser!ToSet
<1>2. Len(Names) = 3 /\ Names[1] = "d" /\ Names[2] = "a" /\ Names[3] = "b"
  BY DEF Names
<1>3. DOMAIN Names = 1 .. 3
  BY DEF Names
<1>4. \A i \in 1 .. 3 : Names[i] \in NameSet
  BY <1>1, <1>3
<1>5. {"d", "a", "b"} \subseteq NameSet
  <2>1. Names[1] \in NameSet /\ Names[2] \in NameSet /\ Names[3] \in NameSet
    BY <1>4
  <2> HIDE DEF Names, NameSet
  <2> QED
    BY <1>2, <2>1
<1>6. ASSUME NEW S, "d" \in S, "a" \in S, "b" \in S
      PROVE  Names \in Seq(S)
  BY <1>6 DEF Names
<1> QED
  BY <1>5, <1>6

LEMMA Listed ==
    ASSUME NEW tree, NEW path
    PROVE  Browser!Listing(tree, path) \in Seq(NameSet)
BY NamesAreListed, ListingType DEF NameSet

LEMMA NothingIsTyped ==
    /\ Browser!NoAnswer \in DialogAnswers
    /\ Browser!NoFile \in [path : Browser!Paths, name : SomeName, half : BOOLEAN]
    /\ "top" \in Browser!Paths
BY DEF Browser!NoAnswer, Browser!NoFile, DialogAnswers, SomeName, Browser!Paths

LEMMA BrowserBegins == Browser!Init => BrowserTypes /\ BrowserInv
<1> SUFFICES ASSUME Browser!Init PROVE BrowserTypes /\ BrowserInv
  OBVIOUS
<1>1. Browser!Listing(fs, "top") \in Seq(NameSet)
  BY Listed
<1>2. Files \in [Browser!Paths -> SUBSET NameSet]
  BY NamesAreListed DEF Files, Browser!Paths
<1>3. <<>> \in Seq(Dialogs) /\ 0 \in 0 .. MaxDialogs
  BY InstanceParameters DEF Browser!FileBrowserParameters
<1>4. NoName \in SomeName
  BY DEF SomeName
<1>5. press.pc = "idle"
  BY DEF Browser!Init, Browser!Idle
<1>6. BrowserTypes
  <2> HIDE DEF NameSet, SomeName
  <2> QED
    BY <1>1, <1>2, <1>3, <1>4, <1>5, NothingIsTyped DEF Browser!Init, BrowserTypes, Pressed
<1>7. BrowserInv
  BY <1>5 DEF Browser!Init, BrowserInv, OneDialog, AnswerInv, AtMostOne, Pressed
<1> QED
  BY <1>6, <1>7

(* Each step of the file browser keeps the types of its variables. *)
LEMMA BrowserTypesStep == BrowserTypes /\ Browser!Next => BrowserTypes'
<1> SUFFICES ASSUME BrowserTypes, Browser!Next PROVE BrowserTypes'
  OBVIOUS
<1> USE DEF BrowserTypes, Browser!stateVars, Browser!viewVars, Browser!loaderVars,
            Browser!resultVars, Browser!history
<1>1. /\ NoName \in SomeName /\ NameSet \subseteq SomeName
      /\ \A i \in 1 .. Len(entries) : entries[i] \in NameSet
  BY DEF SomeName
<1> HIDE DEF NameSet, SomeName
<1>2. ASSUME NEW kind \in {"rename", "delete", "view"}, NEW name \in SomeName,
             Browser!Ask(kind, name)
      PROVE  /\ asked' \in Seq(Dialogs) /\ starts' \in 0 .. MaxDialogs
             /\ UNCHANGED <<dialogs, topDrawn>>
  <2>1. [kind |-> kind, path |-> fbPath, name |-> name] \in Dialogs
    BY DEF Dialogs
  <2>2. asked' \in Seq(Dialogs)
    <3> HIDE DEF Dialogs
    <3> QED
      BY <1>2, <2>1 DEF Browser!Ask
  <2>3. starts' \in 0 .. MaxDialogs
    BY <1>2, InstanceParameters DEF Browser!Ask, Browser!FileBrowserParameters
  <2> QED
    BY <1>2, <2>2, <2>3 DEF Browser!Ask
<1>3. ASSUME NEW path, NEW listed, Browser!ListEntries(path, listed)
      PROVE  entries' \in Seq(NameSet) /\ fbPath' \in Browser!Paths
  <2>1. listed => path \in Browser!Paths
    BY <1>3 DEF Browser!ListEntries, Browser!Exists, Browser!Paths
  <2> QED
    BY <1>3, <2>1, Listed DEF Browser!ListEntries
<1>4. ASSUME NEW i \in 1 .. Len(fbList), Browser!PressEntry(i) PROVE BrowserTypes'
  <2>1. entries[i] \in SomeName
    <3>1. i \in Nat /\ 1 <= i /\ i <= Len(entries)
      BY <1>4 DEF Browser!PressEntry, Browser!PressDirectory, Browser!PressFile,
         Browser!LongPress, Browser!Entry
    <3>2. i \in 1 .. Len(entries)
      BY <3>1
    <3> QED
      BY <1>1, <3>2
  <2>2. /\ selected' = entries[i]
        /\ \E to \in {"enter", "view", "directory", "file"} :
               press' = [pc |-> "clear", to |-> to]
    BY <1>4 DEF Browser!PressEntry, Browser!PressDirectory, Browser!PressFile,
       Browser!LongPress, Browser!SetSelectedChildEntry
  <2>3. press'.pc = "clear" /\ press'.to \in {"enter", "view", "directory", "file"}
    BY <2>2
  <2> QED
    BY <1>4, <2>1, <2>2, <2>3 DEF Browser!PressEntry, Pressed
<1>5. CASE Browser!NavigateUp
  <2>1. press'.pc = "list"
    BY <1>5 DEF Browser!NavigateUp
  <2> QED
    BY <1>5, <2>1 DEF Browser!NavigateUp, Pressed
<1>6. CASE Browser!ClearAction
  <2>1. press'.pc \in {"list", "view", "directory", "file", "update"}
    BY <1>6 DEF Browser!ClearAction, Browser!Goes
  <2> QED
    BY <1>6, <2>1 DEF Browser!ClearAction, Pressed
<1>7. ASSUME NEW listed, Browser!ListOfPress(listed) PROVE BrowserTypes'
  <2>1. press'.pc \in {"unselect", "update"}
    BY <1>7 DEF Browser!ListOfPress
  <2>2. entries' \in Seq(NameSet) /\ fbPath' \in Browser!Paths
    BY <1>3, <1>7 DEF Browser!ListOfPress
  <2> QED
    BY <1>7, <2>1, <2>2 DEF Browser!ListOfPress, Pressed
<1>8. CASE Browser!Unselect
  <2>1. press'.pc = "clear" /\ press'.to = "update" /\ selected' = NoName
    BY <1>8 DEF Browser!Unselect, Browser!SetSelectedChildEntry
  <2> QED
    BY <1>1, <1>8, <2>1 DEF Browser!Unselect, Pressed
<1>9. ASSUME press' = Browser!Idle
      PROVE  press'.pc = "idle" /\ ~Pressed'
  BY <1>9 DEF Browser!Idle, Pressed
<1>10. CASE Browser!UpdateOfPress \/ Browser!ShowActions
  BY <1>9, <1>10 DEF Browser!UpdateOfPress, Browser!ShowActions
<1>11. CASE Browser!ViewFile
  <2>1. /\ asked' \in Seq(Dialogs) /\ starts' \in 0 .. MaxDialogs
        /\ UNCHANGED <<dialogs, topDrawn>> /\ overlap' \in BOOLEAN
    <3>1. CASE Browser!Ask("view", selected) /\ overlap' = Browser!Busy
      BY <1>2, <3>1 DEF Browser!Busy
    <3>2. CASE UNCHANGED <<asked, dialogs, topDrawn, overlap, starts>>
      BY <3>2
    <3> QED
      BY <1>11, <3>1, <3>2 DEF Browser!ViewFile
  <2> QED
    BY <1>9, <1>11, <2>1 DEF Browser!ViewFile
<1>12. ASSUME NEW kind \in {"rename", "delete"}, Browser!PressAction(kind)
       PROVE  BrowserTypes'
  <2>1. press'.pc = kind /\ press'.to = selected /\ overlap' \in BOOLEAN
    BY <1>12 DEF Browser!PressAction, Browser!Busy
  <2> QED
    BY <1>12, <2>1 DEF Browser!PressAction, Pressed
<1>13. CASE Browser!SetPendingAction
  <2>1. /\ press.pc \in {"rename", "delete"} /\ press.to \in SomeName
        /\ Browser!Ask(press.pc, press.to)
    BY <1>13 DEF Browser!SetPendingAction, Pressed
  <2>2. /\ asked' \in Seq(Dialogs) /\ starts' \in 0 .. MaxDialogs
        /\ UNCHANGED <<dialogs, topDrawn>>
    BY <1>2, <2>1
  <2> QED
    BY <1>9, <1>13, <2>1, <2>2 DEF Browser!SetPendingAction
<1>14. CASE Browser!ScrollBegin
  BY <1>14 DEF Browser!ScrollBegin, Pressed
<1>28. CASE Browser!Redraw
  <2>1. /\ UNCHANGED <<fs, fbPath, entries, selected, action>>
        /\ UNCHANGED <<press, asked, dialogs, resultPc>>
        /\ UNCHANGED <<answer, filepath, relist, overlap, starts>>
        /\ topDrawn' = TRUE /\ menu' = "none"
    BY <1>28 DEF Browser!Redraw
  <2>2. \/ fbView' = "shown" /\ fbList' = entries
        \/ fbView' = "gone" /\ fbList' = <<>>
    BY <1>28 DEF Browser!Redraw
  <2>3. CASE fbView' = "shown" /\ fbList' = entries
    BY <2>1, <2>3 DEF Pressed
  <2>4. CASE fbView' = "gone" /\ fbList' = <<>>
    <3>1. <<>> \in Seq(NameSet)
      OBVIOUS
    <3>2. fbList' \in Seq(NameSet)
      BY <2>4, <3>1, Zenon
    <3>3. fbView' \in {"shown", "gone"}
      BY <2>4
    <3> QED
      BY <2>1, <3>2, <3>3 DEF Pressed
  <2> QED
    BY <2>2, <2>3, <2>4
<1>15. CASE Browser!Start
  <2>1. Head(asked) \in Dialogs /\ Tail(asked) \in Seq(Dialogs)
    BY <1>15 DEF Browser!Start
  <2>2. asked' \in Seq(Dialogs) /\ dialogs' \in Seq(Dialogs)
    <3> HIDE DEF Dialogs
    <3> QED
      BY <1>15, <2>1 DEF Browser!Start
  <2> QED
    BY <1>15, <2>2 DEF Browser!Start, Pressed
<1>16. ASSUME dialogs # <<>>
       PROVE  Browser!Front(dialogs) \in Seq(Dialogs) /\ Browser!Last(dialogs) \in Dialogs
  <2> HIDE DEF Dialogs
  <2> QED
    BY <1>16 DEF Browser!Front, Browser!Last
<1>17. ASSUME NEW new \in SomeName, Browser!Answer(new) PROVE BrowserTypes'
  <2> DEFINE d == Browser!Last(dialogs)
             a == [kind |-> d.kind, path |-> d.path, name |-> d.name, new |-> new]
  <2>1. d.kind # "view" => a \in DialogAnswers
    BY <1>16, <1>17 DEF Browser!Answer, Dialogs, DialogAnswers
  <2>2. \/ d.kind # "view" /\ answer' = a /\ resultPc' = "read"
        \/ answer' = Browser!NoAnswer /\ resultPc' = "idle"
    BY <1>17 DEF Browser!Answer
  <2> HIDE DEF d, a
  <2>3. answer' \in DialogAnswers /\ resultPc' \in {"read", "idle"}
    BY <2>1, <2>2, NothingIsTyped
  <2>4. dialogs' \in Seq(Dialogs)
    BY <1>16, <1>17 DEF Browser!Answer
  <2> QED
    BY <1>17, <2>3, <2>4 DEF Browser!Answer, Pressed
<1>18. CASE Browser!Dismiss
  BY <1>16, <1>18 DEF Browser!Dismiss, Pressed
<1>19. CASE Browser!ReadSelected
  <2>1. filepath' \in [path : Browser!Paths, name : SomeName, half : BOOLEAN]
    BY <1>19 DEF Browser!ReadSelected, Browser!HalfWritten
  <2> QED
    BY <1>19, <2>1 DEF Browser!ReadSelected, Browser!Turn, Pressed
<1>20. ASSUME Browser!Ends
       PROVE  /\ answer' \in DialogAnswers
              /\ filepath' \in [path : Browser!Paths, name : SomeName, half : BOOLEAN]
              /\ relist' \in Browser!Paths
              /\ UNCHANGED <<fs, fbPath, entries, selected, action>>
  BY <1>20, NothingIsTyped DEF Browser!Ends
<1>21. CASE Browser!Decide
  <2>1. CASE Browser!Wanted /\ resultPc' = "operate" /\ UNCHANGED <<answer, filepath, relist>>
    <3>1. answer.kind = "rename" => answer.new \in NameSet
      BY <2>1 DEF Browser!Wanted, DialogAnswers, SomeName
    <3> QED
      BY <1>21, <2>1, <3>1 DEF Browser!Decide, Browser!Turn, Browser!Ends, Pressed
  <2>2. CASE resultPc' = "idle" /\ Browser!Ends
    BY <1>20, <1>21, <2>2 DEF Browser!Decide, Browser!Turn, Pressed
  <2> QED
    BY <1>21, <2>1, <2>2 DEF Browser!Decide, Browser!Turn
<1>22. CASE Browser!Operate
  <2>1. fs' \in [Browser!Paths -> SUBSET NameSet]
    <3>1. CASE Browser!Delete
      BY <3>1 DEF Browser!Delete
    <3>2. CASE Browser!Rename
      <4>1. answer.new \in NameSet
        BY <1>22, <3>2 DEF Browser!Operate, Browser!Turn, Browser!Rename
      <4> QED
        BY <3>2, <4>1 DEF Browser!Rename
    <3> QED
      BY <1>22, <3>1, <3>2 DEF Browser!Operate
  <2> QED
    BY <1>22, <2>1 DEF Browser!Operate, Browser!Turn, Pressed
<1>23. CASE Browser!ReadPath
  BY <1>23 DEF Browser!ReadPath, Browser!Turn, Pressed
<1>24. ASSUME NEW listed, Browser!ListOfResult(listed) PROVE BrowserTypes'
  <2>1. entries' \in Seq(NameSet) /\ fbPath' \in Browser!Paths
    BY <1>3, <1>24 DEF Browser!ListOfResult
  <2>2. resultPc' \in {"unselect", "update"}
    BY <1>24 DEF Browser!ListOfResult, Browser!Turn
  <2> QED
    BY <1>24, <2>1, <2>2 DEF Browser!ListOfResult, Browser!Turn, Pressed
<1>25. CASE Browser!UnselectOfResult \/ Browser!ClearOfResult
  BY <1>1, <1>25 DEF Browser!UnselectOfResult, Browser!ClearOfResult, Browser!Turn, Pressed
<1>26. CASE Browser!UpdateResult \/ Browser!UpdateGivesUp
  <2>1. /\ Browser!Ends /\ resultPc' \in {"idle", "dead"} /\ fbList' \in Seq(NameSet)
        /\ UNCHANGED <<menu, fbView, press, asked, dialogs, topDrawn, overlap, starts>>
    BY <1>26 DEF Browser!UpdateResult, Browser!UpdateGivesUp, Browser!Turn
  <2> QED
    BY <1>20, <2>1 DEF Pressed
<1>27. (Browser!ToSet(Names) \ {SubDir}) \cup {NoName} \subseteq SomeName
  BY <1>1 DEF NameSet
<1> QED
  BY <1>4, <1>5, <1>6, <1>7, <1>8, <1>10, <1>11, <1>12, <1>13, <1>14, <1>15, <1>17, <1>18,
     <1>19, <1>21, <1>22, <1>23, <1>24, <1>25, <1>26, <1>27, <1>28
  DEF Browser!Next, Browser!Handler, Browser!OnResult

(* Each step keeps a dialog about what is selected. *)
LEMMA BrowserInvStep == BrowserTypes /\ BrowserInv /\ Browser!Next => BrowserInv'
<1> SUFFICES ASSUME BrowserTypes, BrowserInv, Browser!Next PROVE BrowserInv'
  OBVIOUS
<1> USE DEF Browser!stateVars, Browser!viewVars, Browser!loaderVars,
            Browser!resultVars, Browser!history
<1>1. ASSUME UNCHANGED <<asked, dialogs, resultPc, answer, filepath, overlap>>,
             ~Pressed', action' \in {"none", action},
             \/ action' = "none" \/ Browser!HalfWritten'
             \/ ~Browser!HalfWritten /\ UNCHANGED <<selected, fbPath>>
      PROVE  BrowserInv'
  <2> SUFFICES ASSUME ~overlap PROVE OneDialog' /\ AnswerInv'
    BY <1>1 DEF BrowserInv
  <2>1. OneDialog /\ AnswerInv
    BY DEF BrowserInv
  <2>2. OneDialog'
    BY <1>1, <2>1 DEF OneDialog, AtMostOne, About
  <2>3. AnswerInv'
    BY <1>1, <2>1 DEF AnswerInv, About, IsAnswered
  <2> QED
    BY <2>2, <2>3
<1>2. ASSUME NEW kind, NEW name, Browser!Ask(kind, name), kind # "none", ~Pressed',
             UNCHANGED <<fbPath, resultPc, answer, filepath>>,
             asked = <<>>, dialogs = <<>>, resultPc = "idle",
             action' = kind => selected' = name
      PROVE  BrowserInv'
  <2> DEFINE d == [kind |-> kind, path |-> fbPath, name |-> name]
  <2>1. asked' = Append(<<>>, d) /\ dialogs' = <<>>
    BY <1>2 DEF Browser!Ask
  <2>2. asked' = <<d>> /\ asked' # <<>> /\ asked'[1] = d
    BY <2>1, OneElement
  <2>3. d.kind = kind /\ d.name = name /\ d.path = fbPath
    OBVIOUS
  <2> HIDE DEF d
  <2>4. OneDialog'
    BY <1>2, <2>1, <2>2, <2>3 DEF OneDialog, AtMostOne, About
  <2>5. AnswerInv'
    BY <1>2 DEF AnswerInv
  <2> QED
    BY <2>4, <2>5 DEF BrowserInv
<1>3. ASSUME resultPc # "idle", UNCHANGED <<asked, dialogs, press, overlap>>,
             ~overlap => AnswerInv'
      PROVE  BrowserInv'
  BY <1>3 DEF BrowserInv, OneDialog, AtMostOne, Pressed
<1>4. ASSUME NEW i, Browser!PressEntry(i) PROVE BrowserInv'
  <2>1. press'.pc = "clear"
    BY <1>4 DEF Browser!PressEntry, Browser!PressDirectory, Browser!PressFile,
       Browser!LongPress, Browser!SetSelectedChildEntry
  <2>2. ~Pressed' /\ Browser!HalfWritten'
    BY <2>1 DEF Pressed, Browser!HalfWritten
  <2> QED
    BY <1>1, <1>4, <2>2 DEF Browser!PressEntry
<1>5. CASE Browser!NavigateUp
  <2>1. press.pc = "idle" /\ press'.pc = "list"
    BY <1>5 DEF Browser!NavigateUp, Browser!Touch, Browser!Idle
  <2>2. ~Pressed' /\ ~Browser!HalfWritten
    BY <2>1 DEF Pressed, Browser!HalfWritten
  <2> QED
    BY <1>1, <1>5, <2>2 DEF Browser!NavigateUp
<1>6. CASE Browser!ClearAction
  <2>1. press'.pc \in {"list", "view", "directory", "file", "update"}
    BY <1>6 DEF Browser!ClearAction, Browser!Goes, BrowserTypes
  <2>2. ~Pressed'
    BY <2>1 DEF Pressed
  <2> QED
    BY <1>1, <1>6, <2>2 DEF Browser!ClearAction
<1>7. ASSUME NEW listed \in BOOLEAN, Browser!ListOfPress(listed) PROVE BrowserInv'
  <2>1. press.pc = "list" /\ press'.pc = IF listed THEN "unselect" ELSE "update"
    BY <1>7 DEF Browser!ListOfPress
  <2>2. ~Pressed' /\ (listed => Browser!HalfWritten') /\ ~Browser!HalfWritten
    BY <2>1 DEF Pressed, Browser!HalfWritten
  <2>3. ~listed => fbPath' = fbPath
    BY <1>7 DEF Browser!ListOfPress, Browser!ListEntries
  <2> QED
    BY <1>1, <1>7, <2>2, <2>3 DEF Browser!ListOfPress
<1>8. CASE Browser!Unselect
  <2>1. press'.pc = "clear"
    BY <1>8 DEF Browser!Unselect, Browser!SetSelectedChildEntry
  <2>2. ~Pressed' /\ Browser!HalfWritten'
    BY <2>1 DEF Pressed, Browser!HalfWritten
  <2> QED
    BY <1>1, <1>8, <2>2 DEF Browser!Unselect
<1>9. ASSUME press' = Browser!Idle PROVE press'.pc = "idle" /\ ~Pressed'
  BY <1>9 DEF Browser!Idle, Pressed
<1>10. CASE Browser!UpdateOfPress \/ Browser!ShowActions
  <2>1. ~Browser!HalfWritten
    BY <1>10 DEF Browser!UpdateOfPress, Browser!ShowActions, Browser!HalfWritten
  <2> QED
    BY <1>1, <1>9, <1>10, <2>1 DEF Browser!UpdateOfPress, Browser!ShowActions
<1>11. CASE Browser!ViewFile
  <2>1. /\ ~Pressed' /\ ~Browser!HalfWritten
        /\ UNCHANGED <<fbPath, selected, action, resultPc, answer, filepath>>
    BY <1>9, <1>11 DEF Browser!ViewFile, Browser!HalfWritten
  <2>2. CASE Browser!Ask("view", selected) /\ overlap' = Browser!Busy
    <3>1. CASE overlap'
      BY <3>1 DEF BrowserInv
    <3>2. CASE ~overlap'
      <4>1. asked = <<>> /\ dialogs = <<>> /\ resultPc = "idle"
        BY <2>2, <3>2 DEF Browser!Busy
      <4> QED
        BY <1>2, <2>1, <2>2, <4>1 DEF BrowserTypes
    <3> QED
      BY <3>1, <3>2
  <2>3. CASE UNCHANGED <<asked, dialogs, overlap>>
    BY <1>1, <2>1, <2>3
  <2> QED
    BY <1>11, <2>2, <2>3 DEF Browser!ViewFile
<1>12. ASSUME NEW kind \in {"rename", "delete"}, Browser!PressAction(kind)
       PROVE  BrowserInv'
  <2>1. CASE overlap'
    BY <2>1 DEF BrowserInv
  <2>2. CASE ~overlap'
    <3>1. asked = <<>> /\ dialogs = <<>> /\ resultPc = "idle"
      BY <1>12, <2>2 DEF Browser!PressAction, Browser!Busy
    <3>2. press'.to = selected
      BY <1>12 DEF Browser!PressAction
    <3>3. OneDialog'
      BY <1>12, <3>1, <3>2 DEF Browser!PressAction, OneDialog, AtMostOne
    <3>4. AnswerInv'
      BY <1>12, <3>1 DEF Browser!PressAction, AnswerInv
    <3> QED
      BY <3>3, <3>4 DEF BrowserInv
  <2> QED
    BY <2>1, <2>2
<1>13. CASE Browser!SetPendingAction
  <2>1. CASE overlap
    BY <1>13, <2>1 DEF Browser!SetPendingAction, BrowserInv
  <2>2. CASE ~overlap
    <3>1. /\ asked = <<>> /\ dialogs = <<>> /\ resultPc = "idle" /\ press.to = selected
          /\ press.pc # "none"
      BY <1>13, <2>2 DEF Browser!SetPendingAction, BrowserInv, OneDialog, Pressed
    <3> QED
      BY <1>2, <1>9, <1>13, <3>1 DEF Browser!SetPendingAction
  <2> QED
    BY <2>1, <2>2
<1>14. CASE Browser!ScrollBegin \/ Browser!Redraw
  <2>1. press.pc = "idle" /\ press' = press
    BY <1>14 DEF Browser!ScrollBegin, Browser!Redraw, Browser!Touch, Browser!Idle
  <2>2. ~Pressed' /\ ~Browser!HalfWritten
    BY <2>1 DEF Pressed, Browser!HalfWritten
  <2> QED
    BY <1>1, <1>14, <2>2 DEF Browser!ScrollBegin, Browser!Redraw
<1>15. ASSUME UNCHANGED <<fbPath, selected, action, press, filepath, overlap>>,
              asked' = <<>>, resultPc = "idle", ~Pressed \/ overlap,
              dialogs' # <<>> => /\ resultPc' = "idle"
                                 /\ ~overlap => /\ dialogs' = <<dialogs'[1]>>
                                                /\ About(dialogs'[1]),
              resultPc' = "read" => (~overlap => About(answer')),
              resultPc' \in {"idle", "read"}
       PROVE  BrowserInv'
  <2>1. CASE overlap
    BY <1>15, <2>1 DEF BrowserInv
  <2>2. CASE ~overlap
    <3>1. OneDialog'
      BY <1>15, <2>2 DEF OneDialog, AtMostOne, About, Pressed, Browser!HalfWritten
    <3>2. AnswerInv'
      BY <1>15, <2>2 DEF AnswerInv, About, Browser!HalfWritten
    <3> QED
      BY <3>1, <3>2 DEF BrowserInv
  <2> QED
    BY <2>1, <2>2
<1>16. ASSUME overlap, overlap' = overlap PROVE BrowserInv'
  BY <1>16 DEF BrowserInv
<1>17. CASE Browser!Start
  <2>1. CASE ~overlap
    <3>1. /\ asked = <<asked[1]>> /\ dialogs = <<>> /\ About(asked[1]) /\ ~Pressed
          /\ resultPc = "idle"
      BY <1>17, <2>1 DEF Browser!Start, BrowserInv, OneDialog, AtMostOne
    <3>2. /\ asked' = <<>> /\ dialogs' = <<asked[1]>> /\ dialogs' # <<>>
          /\ dialogs'[1] = asked[1]
      BY <1>17, <3>1, OneElement DEF Browser!Start
    <3> QED
      BY <1>15, <1>17, <3>1, <3>2 DEF Browser!Start
  <2> QED
    BY <1>16, <1>17, <2>1 DEF Browser!Start
<1>18. ASSUME ~overlap, dialogs # <<>>
       PROVE  /\ asked = <<>> /\ About(dialogs[1]) /\ Browser!Front(dialogs) = <<>>
              /\ Browser!Last(dialogs) = dialogs[1] /\ Len(dialogs) = 1 /\ ~Pressed
  <2>1. dialogs = <<dialogs[1]>> /\ asked = <<>> /\ About(dialogs[1]) /\ ~Pressed
    BY <1>18 DEF BrowserInv, OneDialog, AtMostOne
  <2> QED
    BY <2>1, OneElement
<1>19. ASSUME NEW new, Browser!Answer(new) PROVE BrowserInv'
  <2>1. CASE ~overlap
    <3>1. /\ asked' = <<>> /\ dialogs' = <<>> /\ resultPc = "idle" /\ ~Pressed
          /\ About(dialogs[1]) /\ Browser!Last(dialogs) = dialogs[1]
      BY <1>18, <1>19, <2>1 DEF Browser!Answer
    <3>2. \/ resultPc' = "idle"
          \/ /\ resultPc' = "read"
             /\ answer' = [kind |-> dialogs[1].kind, path |-> dialogs[1].path,
                           name |-> dialogs[1].name, new |-> new]
      BY <1>19, <3>1 DEF Browser!Answer
    <3>3. resultPc' = "read" => About(answer')
      BY <3>1, <3>2 DEF About
    <3> QED
      BY <1>15, <1>19, <3>1, <3>2, <3>3 DEF Browser!Answer
  <2> QED
    BY <1>16, <1>19, <2>1 DEF Browser!Answer
<1>20. CASE Browser!Dismiss
  <2>1. CASE ~overlap
    <3>1. asked' = <<>> /\ dialogs' = <<>> /\ resultPc = "idle" /\ ~Pressed
      BY <1>18, <1>20, <2>1 DEF Browser!Dismiss
    <3> QED
      BY <1>15, <1>20, <3>1 DEF Browser!Dismiss
  <2> QED
    BY <1>16, <1>20, <2>1 DEF Browser!Dismiss
<1>21. CASE Browser!ReadSelected
  <2>1. /\ resultPc = "read" /\ resultPc' = "decide" /\ answer' = answer /\ action' = action
        /\ filepath'.name = selected /\ filepath'.path = fbPath
        /\ filepath'.half = Browser!HalfWritten
    BY <1>21 DEF Browser!ReadSelected, Browser!Turn
  <2>2. ~overlap => AnswerInv'
    BY <2>1 DEF BrowserInv, AnswerInv, About, IsAnswered
  <2> QED
    BY <1>3, <1>21, <2>1, <2>2 DEF Browser!ReadSelected, Browser!Turn
<1>22. CASE Browser!Decide
  <2>1. CASE Browser!Wanted /\ resultPc' = "operate" /\ UNCHANGED <<answer, filepath>>
    <3>1. action = answer.kind /\ resultPc = "decide"
      BY <1>22, <2>1 DEF Browser!Wanted, Browser!Decide, Browser!Turn
    <3>2. ~overlap => AnswerInv'
      BY <2>1, <3>1 DEF BrowserInv, AnswerInv, IsAnswered
    <3> QED
      BY <1>3, <1>22, <3>1, <3>2 DEF Browser!Decide, Browser!Turn
  <2>2. CASE resultPc' = "idle"
    BY <1>3, <1>22, <2>2 DEF Browser!Decide, Browser!Turn, AnswerInv
  <2> QED
    BY <1>22, <2>1, <2>2 DEF Browser!Decide, Browser!Turn
<1>23. CASE Browser!Operate
  <2>1. ~overlap => AnswerInv'
    BY <1>23 DEF Browser!Operate, Browser!Turn, BrowserInv, AnswerInv, IsAnswered
  <2> QED
    BY <1>3, <1>23, <2>1 DEF Browser!Operate, Browser!Turn
<1>24. ASSUME NEW there \in {"list", "unselect", "clear", "update", "idle", "dead"},
              resultPc # "idle", resultPc' = there,
              UNCHANGED <<asked, dialogs, press, overlap>>
       PROVE  BrowserInv'
  BY <1>3, <1>24 DEF AnswerInv
<1>25. CASE Browser!ReadPath \/ Browser!UnselectOfResult \/ Browser!ClearOfResult
  BY <1>24, <1>25 DEF Browser!ReadPath, Browser!UnselectOfResult, Browser!ClearOfResult,
     Browser!Turn
<1>26. ASSUME NEW listed \in BOOLEAN, Browser!ListOfResult(listed) PROVE BrowserInv'
  BY <1>24, <1>26 DEF Browser!ListOfResult, Browser!Turn
<1>27. CASE Browser!UpdateResult \/ Browser!UpdateGivesUp
  BY <1>24, <1>27 DEF Browser!UpdateResult, Browser!UpdateGivesUp, Browser!Turn
<1> QED
  BY <1>4, <1>5, <1>6, <1>7, <1>8, <1>10, <1>11, <1>12, <1>13, <1>14, <1>17, <1>19, <1>20,
     <1>21, <1>22, <1>23, <1>25, <1>26, <1>27
  DEF Browser!Next, Browser!Handler, Browser!OnResult

LEMMA BrowserSafe ==
    BrowserTypes /\ BrowserInv => Browser!FileBrowserTypeOK /\ Browser!ActsOnWhatWasAsked
<1> SUFFICES ASSUME BrowserTypes, BrowserInv
             PROVE  Browser!FileBrowserTypeOK /\ Browser!ActsOnWhatWasAsked
  OBVIOUS
<1>1. Browser!ToSet(entries) \subseteq NameSet /\ Browser!ToSet(fbList) \subseteq NameSet
  BY DEF BrowserTypes, Browser!ToSet
<1>2. ASSUME NEW d \in Browser!ToSet(asked) \cup Browser!ToSet(dialogs)
      PROVE  d.kind \in {"rename", "delete", "view"} /\ d.path \in Browser!Paths
  <2>1. d \in Dialogs
    BY <1>2 DEF BrowserTypes, Browser!ToSet
  <2> QED
    BY <2>1 DEF Dialogs
<1>3. Browser!FileBrowserTypeOK
  BY <1>1, <1>2 DEF BrowserTypes, SomeName, NameSet, Browser!FileBrowserTypeOK
<1>4. Browser!ActsOnWhatWasAsked
  BY DEF BrowserInv, AnswerInv, IsAnswered, Browser!ActsOnWhatWasAsked
<1> QED
  BY <1>3, <1>4

-----------------------------------------------------------------------------
(* What the timer and the file browser promise, and that the rest leaves them alone. *)
LEMMA TimerAndBrowserKeep == PartsSpec => [](TimerInv /\ BrowserTypes /\ BrowserInv)
<1>1. PartsInit => TimerInv /\ BrowserTypes /\ BrowserInv
  BY TimerBegins, BrowserBegins DEF PartsInit
<1>2. TimerInv /\ BrowserTypes /\ BrowserInv /\ [PartsNext]_allVars
        => (TimerInv /\ BrowserTypes /\ BrowserInv)'
  <2> SUFFICES ASSUME TimerInv, BrowserTypes, BrowserInv, [PartsNext]_allVars
               PROVE  TimerInv' /\ BrowserTypes' /\ BrowserInv'
    OBVIOUS
  <2>1. ASSUME UNCHANGED timerVars PROVE TimerInv'
    <3>1. /\ UNCHANGED <<tKind, tLife, again, widgets, timerObj, ticking>>
          /\ UNCHANGED <<queue, hookPc, tickPc, tickApp, tLvgl, hits>>
      BY <2>1 DEF timerVars
    <3>2. TimerTypes'
      BY <3>1 DEF TimerInv, TimerTypes
    <3>3. TimerHooks'
      BY <3>1 DEF TimerInv, TimerHooks, Timer!CapturesApp
    <3>4. TimerQueued'
      BY <3>1 DEF TimerInv, TimerQueued, Waits, EndsWith
    <3>5. Timer!OnlyKnownHits'
      BY <3>1 DEF TimerInv, Timer!OnlyKnownHits, Timer!CapturesApp
    <3> QED
      BY <3>2, <3>3, <3>4, <3>5 DEF TimerInv
  <2>2. ASSUME UNCHANGED browserVars PROVE BrowserTypes' /\ BrowserInv'
    <3>1. /\ UNCHANGED <<fs, fbPath, entries, selected, action, fbList, menu, fbView, press>>
          /\ UNCHANGED <<asked, dialogs, topDrawn, resultPc, answer, filepath, relist>>
          /\ UNCHANGED <<overlap, starts>>
      BY <2>2 DEF browserVars
    <3>2. BrowserTypes'
      BY <3>1 DEF BrowserTypes, Pressed
    <3>3. OneDialog' = OneDialog
      BY <3>1 DEF OneDialog, AtMostOne, About, Pressed, Browser!HalfWritten
    <3>4. AnswerInv' = AnswerInv
      BY <3>1 DEF AnswerInv, About, IsAnswered, Browser!HalfWritten
    <3> QED
      BY <3>1, <3>2, <3>3, <3>4 DEF BrowserInv
  <2>3. UNCHANGED timerVars \/ Timer!Next
    BY DEF PartsNext, Rest, allVars
  <2>4. UNCHANGED browserVars \/ Browser!Next
    BY DEF PartsNext, Rest, allVars
  <2> QED
    BY <2>1, <2>2, <2>3, <2>4, TimerInvStep, BrowserTypesStep, BrowserInvStep
<1> QED
  BY <1>1, <1>2, PTL DEF PartsSpec

(* A callback of a Timer gets wrong only the hits that OnlyKnownHits lists, none of
   them but a missed lock while its app is shown for the first time, a freed Timer
   that is active has a command to delete it waiting, and the app that is shown is
   refreshed (Gpio, Power, Screenshot); what is deleted or renamed is what the
   dialog named, unless it was asked for before another was dealt with or its answer
   was read in the middle of a change of path or selection (file browser); for any
   number of dialogs and length of the queue. *)
THEOREM CallbacksHit == PartsSpec => []CallbacksHitTheRight
<1>1. TimerInv /\ BrowserTypes /\ BrowserInv => CallbacksHitTheRight
  BY TimerSafe, BrowserSafe DEF CallbacksHitTheRight
<1> QED
  BY <1>1, TimerAndBrowserKeep, PTL

-----------------------------------------------------------------------------
(* Division by what is not known to the provers, each fact on its own. *)
LEMMA Divided ==
    ASSUME NEW w \in Nat \ {0}, NEW a \in Int
    PROVE  a % w \in 0 .. w - 1 /\ a \div w \in Int /\ a = w * (a \div w) + (a % w)
OBVIOUS

LEMMA Undivided ==
    ASSUME NEW w \in Nat \ {0}, NEW a \in Int
    PROVE  /\ 0 <= a /\ a < w => a % w = a
           /\ a < 0 /\ 0 <= a + w => a % w = a + w
OBVIOUS

(* Within one turn the difference of two wrapped times is that of the times. *)
LEMMA Elapsed ==
    ASSUME NEW w \in Nat \ {0}, NEW h \in Nat, NEW t \in Nat, h <= t, t - h < w
    PROVE  ((t % w) - (h % w)) % w = t - h
<1> DEFINE q == (t \div w) - (h \div w)
           d == (t % w) - (h % w)
<1>1. q \in Int /\ d \in Int /\ -w < d /\ d < w
  BY Divided
<1>2. t - h = w * q + d
  <2>1. t = w * (t \div w) + (t % w) /\ h = w * (h \div w) + (h % w)
    BY Divided
  <2>2. w * q = w * (t \div w) - w * (h \div w)
    BY Divided
  <2> QED
    BY <2>1, <2>2, Divided
<1>3. d % w = t - h
  <2> HIDE DEF q, d
  <2>1. (q < 0 => w * q <= -w) /\ (q > 1 => w * q >= w + w) /\ w * q \in Int
    BY <1>1
  <2>2. CASE q = 0
    BY <1>1, <1>2, <2>2, Undivided
  <2>3. CASE q = 1
    BY <1>1, <1>2, <2>3, Undivided
  <2> QED
    BY <1>1, <1>2, <2>1, <2>2, <2>3
<1> QED
  BY <1>3

(* In one turn the times are in the order of the wrapped ones. *)
LEMMA SameTurn ==
    ASSUME NEW w \in Nat \ {0}, NEW h \in Nat, NEW t \in Nat, h \div w = t \div w
    PROVE  h % w <= t % w <=> h <= t
<1> DEFINE k == w * (t \div w)
<1>1. t = k + (t % w) /\ h = k + (h % w)
  <2>1. t = w * (t \div w) + (t % w)
    BY Divided
  <2>2. h = w * (h \div w) + (h % w)
    BY Divided
  <2> QED
    BY <2>1, <2>2
<1>2. k \in Int /\ t % w \in Int /\ h % w \in Int
  BY Divided
<1> HIDE DEF k
<1> QED
  BY <1>1, <1>2

(* What is less than a turn old is of this turn, and then its wrapped time is not
   above the one that it is now; or of the turn before, and then it is above.   *)
LEMMA ThisOrLast ==
    ASSUME NEW w \in Nat \ {0}, NEW h \in Nat, NEW t \in Nat, h <= t, t - h < w
    PROVE  \/ h \div w = t \div w /\ h % w <= t % w
           \/ h \div w = (t \div w) - 1 /\ h % w > t % w
<1> DEFINE q == (t \div w) - (h \div w)
           d == (t % w) - (h % w)
<1>1. q \in Int /\ d \in Int /\ -w < d /\ d < w
  BY Divided
<1>2. t - h = w * q + d
  <2>1. t = w * (t \div w) + (t % w) /\ h = w * (h \div w) + (h % w)
    BY Divided
  <2>2. w * q = w * (t \div w) - w * (h \div w)
    BY Divided
  <2> QED
    BY <2>1, <2>2, Divided
<1>3. (q = 0 /\ d >= 0) \/ (q = 1 /\ d < 0)
  <2> HIDE DEF q, d
  <2>1. (q < 0 => w * q <= -w) /\ (q > 1 => w * q >= w + w) /\ w * q \in Int
    BY <1>1
  <2>2. q \in {0, 1}
    BY <1>1, <1>2, <2>1
  <2> QED
    BY <1>1, <1>2, <2>2
<1>4. t \div w \in Int /\ h \div w \in Int /\ t % w \in Int /\ h % w \in Int
  BY Divided
<1> QED
  BY <1>3, <1>4

-----------------------------------------------------------------------------
(* The satellites.  A record in use carries the time, wrapped, at which its satellite
   was heard last, and as long as nothing made it unsure, each satellite that was
   heard within the time after which records are recycled has one.                *)
Known(i) ==
    /\ records[i].nr \in Numbers
    /\ heardAt[records[i].nr] \in 0 .. time
    /\ records[i].lastUpdated = heardAt[records[i].nr] % Wrap

HeardInv ==
    /\ Heard!SatellitesTypeOK
    /\ \A n \in Numbers : heardAt[n] <= time
    /\ \A i \in Heard!InUse : Known(i)
    /\ Heard!OneRecordEach
    /\ Heard!AssertsAtLastTickOnly
    /\ ~ crowded =>
          \A n \in Heard!Within(RecycleTicks, heardAt) :
              \E i \in Heard!InUse : records[i].nr = n

(* The instance of FiniteSets is that of the library's theorems. *)
LEMMA SameFiniteSets ==
    ASSUME NEW S
    PROVE  (Heard!IsFiniteSet(S) <=> IsFiniteSet(S)) /\ Heard!Cardinality(S) = Cardinality(S)
<1>1. Heard!IsFiniteSet(S) <=> IsFiniteSet(S)
  BY Zenon DEF Heard!IsFiniteSet, IsFiniteSet
<1>2. Heard!Cardinality(S) = Cardinality(S)
  BY Zenon DEF Heard!Cardinality, Cardinality
<1> QED
  BY <1>1, <1>2

LEMMA HeardNumbers ==
    /\ Slots \in Nat /\ MaxTime \in Nat /\ RecentTicks \in Nat /\ RecycleTicks \in Nat
    /\ Wrap \in Nat \ {0} /\ RecentTicks <= RecycleTicks /\ RecycleTicks <= Wrap
    /\ IsFiniteSet(Numbers)
BY InstanceParameters, SameFiniteSets DEF Heard!SatelliteParameters

(* The fields of a record, one at a time. *)
LEMMA Fields ==
    ASSUME Heard!SatellitesTypeOK, NEW i \in 1 .. Slots
    PROVE  /\ records[i].lastUpdated \in 0 .. Wrap - 1 /\ records[i].inUse \in BOOLEAN
           /\ records[i].nr \in Numbers \cup {NoNumber} /\ time \in Nat
BY HeardNumbers DEF Heard!SatellitesTypeOK

LEMMA RecordAge ==
    ASSUME HeardInv, NEW i \in Heard!InUse
    PROVE  /\ Known(i) /\ i \in 1 .. Slots /\ Heard!Age(i) \in Nat /\ time \in Nat
           /\ Heard!Age(i) = time - heardAt[records[i].nr]
<1>1. Known(i) /\ i \in 1 .. Slots /\ time \in Nat
  BY HeardNumbers DEF HeardInv, Heard!SatellitesTypeOK, Heard!InUse
<1> QED
  BY <1>1 DEF Known, Heard!Age

(* hasTimeElapsed() is right of a record that is not as old as a turn. *)
LEMMA ElapsedIsAge ==
    ASSUME HeardInv, NEW i \in Heard!InUse, Heard!Age(i) < Wrap, NEW ticks
    PROVE  Heard!TimeElapsed(records[i].lastUpdated, ticks) <=> Heard!Age(i) >= ticks
<1> DEFINE h == heardAt[records[i].nr]
<1>1. /\ h \in Nat /\ h <= time /\ time \in Nat /\ time - h < Wrap
      /\ records[i].lastUpdated = h % Wrap /\ Heard!Age(i) = time - h
  BY RecordAge DEF Known
<1> HIDE DEF h
<1>2. ((time % Wrap) - (h % Wrap)) % Wrap = time - h
  BY <1>1, HeardNumbers, Elapsed
<1> QED
  BY <1>1, <1>2 DEF Heard!TimeElapsed, Heard!Now

LEMMA FirstIsOne ==
    ASSUME NEW S \in SUBSET (1 .. Slots), S # {}
    PROVE  Heard!First(S) \in S
<1>1. \E i \in S : \A j \in S : i <= j
  BY LeastOf, HeardNumbers
<1> QED
  BY <1>1 DEF Heard!First
LEMMA HeardInvInit == Heard!Init => HeardInv
<1> SUFFICES ASSUME Heard!Init PROVE HeardInv
  OBVIOUS
<1>1. Heard!SatellitesTypeOK
  <2>1. 0 \in 0 .. Wrap - 1 /\ 0 \in 0 .. MaxTime /\ -1 \in -1 .. MaxTime
    BY HeardNumbers
  <2> QED
    BY <2>1 DEF Heard!Init, Heard!SatellitesTypeOK
<1>2. Heard!InUse = {} /\ Heard!Within(RecycleTicks, heardAt) = {}
  BY DEF Heard!Init, Heard!InUse, Heard!Within
<1>3. \A n \in Numbers : heardAt[n] <= time
  BY DEF Heard!Init
<1> QED
  BY <1>1, <1>2, <1>3 DEF HeardInv, Heard!OneRecordEach, Heard!AssertsAtLastTickOnly, Heard!Init

(* A tick: each record is older, and fewer satellites were heard lately. *)
LEMMA HeardTick == ASSUME HeardInv, Heard!Tick PROVE HeardInv'
<1>0. ~ aborted /\ aborted' = aborted
  BY DEF Heard!Tick
<1>1. UNCHANGED <<records, heardAt, crowded>> /\ time' = time + 1 /\ time < MaxTime
  BY DEF Heard!Tick
<1>2. time \in 0 .. MaxTime /\ \A n \in Numbers : heardAt[n] \in -1 .. MaxTime
  BY DEF HeardInv, Heard!SatellitesTypeOK
<1>3. Heard!SatellitesTypeOK'
  BY <1>0, <1>1, <1>2, HeardNumbers DEF HeardInv, Heard!SatellitesTypeOK
<1>4. \A n \in Numbers : heardAt'[n] <= time'
  BY <1>1, <1>2, HeardNumbers DEF HeardInv
<1>5. Heard!InUse' = Heard!InUse /\ Heard!OneRecordEach'
  BY <1>1 DEF HeardInv, Heard!InUse, Heard!OneRecordEach
<1>6. \A i \in Heard!InUse' : Known(i)'
  BY <1>1, <1>2, <1>5 DEF HeardInv, Known
<1>7. Heard!Within(RecycleTicks, heardAt)' \subseteq Heard!Within(RecycleTicks, heardAt)
  BY <1>1, <1>2, HeardNumbers DEF Heard!Within
<1> QED
  BY <1>0, <1>1, <1>3, <1>4, <1>5, <1>6, <1>7 DEF HeardInv, Heard!AssertsAtLastTickOnly

(* A record is given up for a satellite that has none, and is the oldest: as long as
   nothing is unsure it is one that may be recycled, or every slot is young.         *)
LEMMA GivenUp ==
    ASSUME HeardInv, NEW n \in Numbers, NEW s \in Heard!WithFallback(n),
           s \in Heard!InUse, records[s].nr # n
    PROVE  /\ Heard!FindRecord(n) = {} /\ Heard!Unused = {} /\ s \in Heard!Recycled
           /\ \A i \in 1 .. Slots : i \in Heard!InUse
<1>1. s \notin Heard!FindRecord(n) /\ s \notin Heard!Unused
  BY DEF Heard!FindRecord, Heard!Unused, Heard!InUse
<1>2. CASE Heard!FindRecord(n) # {}
  BY <1>1, <1>2 DEF Heard!WithFallback
<1>3. CASE Heard!FindRecord(n) = {} /\ Heard!Unused # {}
  BY <1>1, <1>3 DEF Heard!WithFallback
<1>4. CASE Heard!FindRecord(n) = {} /\ Heard!Unused = {}
  BY <1>4, Fields DEF HeardInv, Heard!WithFallback, Heard!Unused, Heard!InUse
<1> QED
  BY <1>2, <1>3, <1>4

(* If none is to be given up, each record is of the last tick of a turn. *)
LEMMA HeardAssert == ASSUME HeardInv, NEW n \in Numbers, Heard!AssertFails(n) PROVE HeardInv'
<1>1. UNCHANGED <<records, time, heardAt, crowded>> /\ aborted' = TRUE
  BY DEF Heard!AssertFails
<1>2. Heard!Unused = {} /\ Heard!Oldest = {}
  BY DEF Heard!AssertFails, Heard!WithFallback, Heard!Recycled
<1>3. Heard!Below = {}
  <2> SUFFICES ASSUME Heard!Below # {} PROVE FALSE
    OBVIOUS
  <2> DEFINE T == {records[i].lastUpdated : i \in Heard!Below}
  <2>1. \A i \in Heard!Below : i \in 1 .. Slots
    BY DEF Heard!Below
  <2>2. T \in SUBSET Nat /\ T # {}
    BY <2>1, Fields, HeardNumbers DEF HeardInv
  <2>3. PICK l \in T : \A k \in T : l <= k
    <3> HIDE DEF T
    <3> QED
      BY <2>2, LeastOf
  <2>4. PICK i \in Heard!Below : records[i].lastUpdated = l
    BY <2>3
  <2>5. i \in Heard!Oldest
    BY <2>3, <2>4 DEF Heard!Oldest
  <2> QED
    BY <1>2, <2>5
<1>4. \A i \in 1 .. Slots : records[i].inUse /\ records[i].lastUpdated = Wrap - 1
  <2> SUFFICES ASSUME NEW i \in 1 .. Slots
               PROVE  records[i].inUse /\ records[i].lastUpdated = Wrap - 1
    OBVIOUS
  <2>1. records[i].inUse
    BY <1>2, Fields DEF HeardInv, Heard!Unused
  <2>2. ~ records[i].lastUpdated < Wrap - 1
    BY <1>3, <2>1 DEF Heard!Below
  <2> QED
    BY <2>1, <2>2, Fields, HeardNumbers DEF HeardInv
<1>5. Heard!AssertsAtLastTickOnly'
  BY <1>1, <1>4 DEF Heard!AssertsAtLastTickOnly
<1> QED
  BY <1>1, <1>5 DEF HeardInv, Heard!SatellitesTypeOK, Heard!InUse, Known, Heard!OneRecordEach,
     Heard!Within

(* More satellites than slots are heard lately, if each slot is young and one more is
   heard.                                                                           *)
LEMMA Crowd ==
    ASSUME HeardInv, NEW n \in Numbers, heardAt' = [heardAt EXCEPT ![n] = time],
           UNCHANGED time, RecycleTicks > 0,
           \A i \in 1 .. Slots : i \in Heard!InUse /\ records[i].nr # n /\ Heard!Age(i) < RecycleTicks
    PROVE  Heard!Cardinality(Heard!Within(RecycleTicks, heardAt')) > Slots
<1> DEFINE heard == Heard!Within(RecycleTicks, heardAt')
           f == [i \in 0 .. Slots |-> IF i = 0 THEN n ELSE records[i].nr]
<1>1. heardAt \in [Numbers -> -1 .. MaxTime] /\ time \in 0 .. MaxTime
  BY DEF HeardInv, Heard!SatellitesTypeOK
<1>2. heard \subseteq Numbers
  BY DEF Heard!Within
<1>3. n \in heard
  BY <1>1, HeardNumbers DEF Heard!Within
<1>4. ASSUME NEW i \in 1 .. Slots PROVE records[i].nr \in heard
  <2>1. /\ records[i].nr \in Numbers /\ heardAt[records[i].nr] \in Nat
        /\ time - heardAt[records[i].nr] < RecycleTicks
    BY RecordAge DEF Known, Heard!Age
  <2> QED
    BY <1>1, <2>1 DEF Heard!Within
<1>5. f \in [0 .. Slots -> heard]
  <2> HIDE DEF heard
  <2>1. \A i \in 0 .. Slots : i # 0 => i \in 1 .. Slots
    BY HeardNumbers
  <2> QED
    BY <1>3, <1>4, <2>1
<1>6. \A i, j \in 0 .. Slots : f[i] = f[j] => i = j
  BY HeardNumbers DEF HeardInv, Heard!OneRecordEach
<1>7. IsFiniteSet(heard) /\ Cardinality(heard) \in Nat
  BY <1>2, HeardNumbers, FS_Subset, FS_CardinalityType
<1> HIDE DEF heard, f
<1>8. IsFiniteSet(0 .. Slots) /\ Cardinality(0 .. Slots) = Slots + 1
  <2>1. 0 \in Int /\ Slots \in Int /\ ~ 0 > Slots /\ Slots - 0 + 1 = Slots + 1
    BY HeardNumbers
  <2> QED
    BY <2>1, FS_Interval
<1>9. ~ Cardinality(heard) < Cardinality(0 .. Slots)
  BY <1>5, <1>6, <1>7, <1>8, FS_PigeonHole
<1>10. Cardinality(heard) > Slots
  BY <1>7, <1>8, <1>9, HeardNumbers
<1> QED
  BY <1>10, SameFiniteSets DEF heard

LEMMA HeardNotify == ASSUME HeardInv, NEW n \in Numbers, Heard!Notify(n) PROVE HeardInv'
<1> DEFINE s == Heard!First(Heard!WithFallback(n))
           r == [nr |-> n, lastUpdated |-> Heard!Now, inUse |-> TRUE]
<1>1. s \in Heard!WithFallback(n) /\ s \in 1 .. Slots
  <2>1. Heard!WithFallback(n) \subseteq 1 .. Slots
    BY DEF Heard!WithFallback, Heard!FindRecord, Heard!Unused, Heard!Recycled,
       Heard!Expired, Heard!Oldest, Heard!Below
  <2>2. Heard!WithFallback(n) # {}
    BY DEF Heard!Notify
  <2> QED
    BY <2>1, <2>2, FirstIsOne
<1>2. /\ records' = [records EXCEPT ![s] = r]
      /\ heardAt' = [heardAt EXCEPT ![n] = time] /\ time' = time
      /\ crowded' = (\/ crowded \/ Heard!GivesUpUnsure(n)
                     \/ Heard!Cardinality(Heard!Within(RecycleTicks, heardAt')) > Slots)
      /\ ~ aborted /\ aborted' = aborted
  BY DEF Heard!Notify
<1>3. /\ records \in [1 .. Slots -> [nr : Numbers \cup {NoNumber},
                                     lastUpdated : 0 .. Wrap - 1, inUse : BOOLEAN]]
      /\ heardAt \in [Numbers -> -1 .. MaxTime] /\ time \in 0 .. MaxTime /\ time \in Nat
      /\ crowded \in BOOLEAN
  BY HeardNumbers DEF HeardInv, Heard!SatellitesTypeOK
<1> HIDE DEF s
<1>4. /\ records'[s].nr = n /\ records'[s].inUse /\ records'[s].lastUpdated = time % Wrap
      /\ \A i \in 1 .. Slots : i # s => records'[i] = records[i]
      /\ heardAt'[n] = time
      /\ \A m \in Numbers : m # n => heardAt'[m] = heardAt[m]
  BY <1>1, <1>2, <1>3 DEF Heard!Now
<1> HIDE DEF r
<1>5. Heard!SatellitesTypeOK'
  <2>1. r \in [nr : Numbers \cup {NoNumber}, lastUpdated : 0 .. Wrap - 1, inUse : BOOLEAN]
    BY <1>3, HeardNumbers, Divided DEF r, Heard!Now
  <2>2. crowded' \in BOOLEAN /\ aborted' \in BOOLEAN
    BY <1>2 DEF HeardInv, Heard!SatellitesTypeOK
  <2> QED
    BY <1>1, <1>2, <1>3, <2>1, <2>2 DEF Heard!SatellitesTypeOK
<1>6. \A m \in Numbers : heardAt'[m] <= time'
  BY <1>2, <1>3, <1>4 DEF HeardInv
<1>7. s \in Heard!InUse' /\ \A i \in 1 .. Slots : i # s => (i \in Heard!InUse' <=> i \in Heard!InUse)
  BY <1>1, <1>4 DEF Heard!InUse
<1>8. \A i \in Heard!InUse' : i \in 1 .. Slots
  BY DEF Heard!InUse
<1>9. ASSUME NEW i \in Heard!InUse', i # s
      PROVE  records'[i] = records[i] /\ i \in Heard!InUse /\ records[i].nr # n
  <2>1. records'[i] = records[i] /\ i \in Heard!InUse /\ i \in 1 .. Slots
    BY <1>4, <1>7, <1>8, <1>9
  <2>2. ASSUME records[i].nr = n PROVE FALSE
    <3>1. i \in Heard!FindRecord(n)
      BY <2>1, <2>2 DEF Heard!FindRecord, Heard!InUse
    <3>2. s \in Heard!FindRecord(n)
      BY <1>1, <3>1 DEF Heard!WithFallback
    <3> QED
      BY <1>9, <2>1, <2>2, <3>2 DEF HeardInv, Heard!OneRecordEach, Heard!FindRecord, Heard!InUse
  <2> QED
    BY <2>1, <2>2
<1>10. ASSUME NEW i \in Heard!InUse' PROVE Known(i)'
  <2>1. CASE i = s
    BY <1>2, <1>3, <1>4, <2>1 DEF Known
  <2>2. CASE i # s
    BY <1>2, <1>4, <1>9, <2>2, RecordAge DEF Known
  <2> QED
    BY <2>1, <2>2
<1>11. Heard!OneRecordEach'
  BY <1>4, <1>9 DEF HeardInv, Heard!OneRecordEach
<1>12. ASSUME ~ crowded', NEW m \in Heard!Within(RecycleTicks, heardAt)'
       PROVE  \E i \in Heard!InUse' : records'[i].nr = m
  <2>0. m \in Numbers /\ ~ crowded
    BY <1>2, <1>12 DEF Heard!Within
  <2>1. CASE m = n
    BY <1>4, <1>7, <2>1
  <2>2. CASE m # n
    <3>1. m \in Heard!Within(RecycleTicks, heardAt)
      BY <1>2, <1>4, <1>12, <2>0, <2>2 DEF Heard!Within
    <3>2. PICK i \in Heard!InUse : records[i].nr = m
      BY <2>0, <3>1 DEF HeardInv
    <3>3. i \in 1 .. Slots
      BY <3>2 DEF Heard!InUse
    <3>4. CASE i # s
      BY <1>4, <1>7, <3>2, <3>3, <3>4
    <3>5. ASSUME i = s PROVE FALSE
      <4>1. /\ Heard!FindRecord(n) = {} /\ Heard!Unused = {} /\ s \in Heard!Recycled
            /\ \A j \in 1 .. Slots : j \in Heard!InUse
        BY <1>1, <2>2, <3>2, <3>5, GivenUp
      <4>2. \A j \in Heard!InUse : Heard!Age(j) < Wrap
        <5>1. ~ Heard!GivesUpUnsure(n)
          BY <1>2, <1>12
        <5>2. \A j \in Heard!InUse : ~ Heard!Age(j) >= Wrap
          BY <4>1, <5>1 DEF Heard!GivesUpUnsure
        <5> QED
          BY <5>2, RecordAge, HeardNumbers
      <4>3. Heard!Age(s) < RecycleTicks
        BY <3>1, <3>2, <3>5 DEF Heard!Within, Heard!Age
      <4>4. Heard!Age(s) \in Nat /\ RecycleTicks \in Nat
        BY <3>2, <3>5, RecordAge, HeardNumbers
      <4>5. s \notin Heard!Expired
        BY <3>2, <3>5, <4>2, <4>3, <4>4, ElapsedIsAge DEF Heard!Expired
      <4>6. Heard!Expired = {}
        BY <4>1, <4>5 DEF Heard!Recycled
      <4>7. ASSUME NEW j \in 1 .. Slots PROVE Heard!Age(j) < RecycleTicks /\ records[j].nr # n
        <5>1. j \in Heard!InUse /\ ~ Heard!TimeElapsed(records[j].lastUpdated, RecycleTicks)
          BY <4>1, <4>6 DEF Heard!Expired
        <5>2. ~ Heard!Age(j) >= RecycleTicks
          BY <4>2, <5>1, ElapsedIsAge
        <5>3. Heard!Age(j) \in Nat
          BY <5>1, RecordAge
        <5>4. records[j].nr # n
          BY <4>1, <5>1 DEF Heard!FindRecord, Heard!InUse
        <5> QED
          BY <5>2, <5>3, <5>4, HeardNumbers
      <4>8. RecycleTicks > 0
        BY <4>3, <4>4
      <4> QED
        BY <1>2, <1>12, <4>1, <4>7, <4>8, Crowd
    <3> QED
      BY <3>4, <3>5
  <2> QED
    BY <2>1, <2>2
<1> QED
  BY <1>2, <1>5, <1>6, <1>10, <1>11, <1>12 DEF HeardInv, Heard!AssertsAtLastTickOnly

LEMMA HeardInvHolds == Heard!Spec => []HeardInv
<1>1. HeardInv /\ [Heard!Next]_(Heard!vars) => HeardInv'
  <2> SUFFICES ASSUME HeardInv, [Heard!Next]_(Heard!vars) PROVE HeardInv'
    OBVIOUS
  <2>1. CASE UNCHANGED Heard!vars
    <3>1. /\ UNCHANGED records /\ UNCHANGED time /\ UNCHANGED heardAt /\ UNCHANGED crowded
          /\ UNCHANGED aborted
      BY <2>1 DEF Heard!vars
    <3> QED
      BY <3>1 DEF HeardInv, Heard!SatellitesTypeOK, Heard!InUse, Known, Heard!OneRecordEach,
         Heard!Within, Heard!AssertsAtLastTickOnly
  <2> QED
    BY <2>1, HeardTick, HeardNotify, HeardAssert DEF Heard!Next
<1> QED
  BY <1>1, HeardInvInit, PTL DEF Heard!Spec

LEMMA HeardSafe ==
    HeardInv => /\ Heard!OneRecordEach /\ Heard!ListsTheRecent /\ Heard!RecentAreKept
                /\ Heard!AssertsAtLastTickOnly
<1> SUFFICES ASSUME HeardInv
             PROVE  /\ Heard!OneRecordEach /\ Heard!ListsTheRecent /\ Heard!RecentAreKept
                    /\ Heard!AssertsAtLastTickOnly
  OBVIOUS
<1>1. Heard!OneRecordEach
  BY DEF HeardInv
<1>2. ASSUME NEW i \in Heard!InUse, Heard!Age(i) < Wrap
      PROVE  i \in Heard!Listed <=> Heard!Age(i) < RecentTicks
  <2>1. Heard!TimeElapsed(records[i].lastUpdated, RecentTicks) <=> Heard!Age(i) >= RecentTicks
    BY <1>2, ElapsedIsAge
  <2>2. i \in 1 .. Slots /\ records[i].inUse /\ Heard!Age(i) \in Nat
    BY RecordAge DEF Heard!InUse
  <2> QED
    BY <2>1, <2>2, HeardNumbers DEF Heard!Listed
<1>3. ASSUME ~ crowded, NEW n \in Heard!Within(RecentTicks, heardAt)
      PROVE  \E i \in Heard!Listed : records[i].nr = n
  <2>1. /\ n \in Numbers /\ time \in Nat /\ heardAt[n] \in -1 .. MaxTime
        /\ time - heardAt[n] < RecentTicks
    BY HeardNumbers DEF Heard!Within, HeardInv, Heard!SatellitesTypeOK
  <2>2. n \in Heard!Within(RecycleTicks, heardAt)
    BY <1>3, <2>1, HeardNumbers DEF Heard!Within
  <2>3. PICK i \in Heard!InUse : records[i].nr = n
    BY <1>3, <2>2 DEF HeardInv
  <2>4. Heard!Age(i) < RecentTicks /\ Heard!Age(i) < Wrap
    BY <2>1, <2>3, HeardNumbers DEF Heard!Age
  <2> QED
    BY <1>2, <2>3, <2>4
<1> QED
  BY <1>1, <1>2, <1>3 DEF HeardInv, Heard!ListsTheRecent, Heard!RecentAreKept

(* What is given up is old enough, or the oldest of this turn, or of all. *)
LEMMA OldestGivenUp ==
    ASSUME HeardInv, [Heard!Next]_(Heard!vars)
    PROVE  Heard!OldestIsRecycled
<1> SUFFICES ASSUME NEW i \in Heard!InUse, records'[i].nr # records[i].nr,
                    \A j \in Heard!InUse : Heard!Age(j) < Wrap
             PROVE  IF \E j \in Heard!InUse : Heard!Age(j) >= RecycleTicks
                    THEN Heard!Age(i) >= RecycleTicks
                    ELSE \A j \in Heard!InUse :
                            /\ Heard!ThisTurn(j) => Heard!ThisTurn(i)
                            /\ Heard!ThisTurn(i) = Heard!ThisTurn(j)
                                  => Heard!Age(i) >= Heard!Age(j)
  BY DEF Heard!OldestIsRecycled
<1>1. PICK n \in Numbers : Heard!Notify(n)
  BY DEF Heard!Next, Heard!vars, Heard!Tick, Heard!AssertFails
<1> DEFINE s == Heard!First(Heard!WithFallback(n))
<1>2. s \in Heard!WithFallback(n)
  <2>1. Heard!WithFallback(n) \subseteq 1 .. Slots
    BY DEF Heard!WithFallback, Heard!FindRecord, Heard!Unused, Heard!Recycled,
       Heard!Expired, Heard!Oldest, Heard!Below
  <2> QED
    BY <1>1, <2>1, FirstIsOne DEF Heard!Notify
<1>3. records' = [records EXCEPT ![s] = [nr |-> n, lastUpdated |-> Heard!Now, inUse |-> TRUE]]
  BY <1>1 DEF Heard!Notify
<1> HIDE DEF s
<1>4. i \in 1 .. Slots /\ DOMAIN records = 1 .. Slots
  BY DEF Heard!InUse, HeardInv, Heard!SatellitesTypeOK
<1>5. i = s /\ records[s].nr # n
  BY <1>3, <1>4
<1>6. s \in Heard!Recycled /\ \A j \in 1 .. Slots : j \in Heard!InUse
  BY <1>1, <1>2, <1>5, GivenUp
<1>7. \A j \in Heard!InUse :
         /\ j \in Heard!Expired <=> Heard!Age(j) >= RecycleTicks
         /\ Known(j) /\ j \in 1 .. Slots /\ Heard!Age(j) \in Nat
         /\ Heard!Age(j) = time - heardAt[records[j].nr]
  BY ElapsedIsAge, RecordAge DEF Heard!Expired
<1>8. CASE \E j \in Heard!InUse : Heard!Age(j) >= RecycleTicks
  <2>1. i \in Heard!Expired
    BY <1>5, <1>6, <1>7, <1>8 DEF Heard!Recycled
  <2> QED
    BY <1>7, <1>8, <2>1
<1>9. CASE ~ \E j \in Heard!InUse : Heard!Age(j) >= RecycleTicks
  <2>1. Heard!Expired = {}
    <3>1. \A j \in Heard!Expired : j \in 1 .. Slots
      BY DEF Heard!Expired
    <3> QED
      BY <1>6, <1>7, <1>9, <3>1
  <2>2. i \in Heard!Oldest
    BY <1>5, <1>6, <2>1 DEF Heard!Recycled
  <2>3. ASSUME NEW j \in Heard!InUse
        PROVE  /\ Heard!ThisTurn(j) => Heard!ThisTurn(i)
               /\ Heard!ThisTurn(i) = Heard!ThisTurn(j) => Heard!Age(i) >= Heard!Age(j)
    <3> DEFINE a == heardAt[records[i].nr]
               b == heardAt[records[j].nr]
    <3>1. /\ a \in Nat /\ b \in Nat /\ time \in Nat /\ a <= time /\ b <= time
          /\ Heard!Age(i) = time - a /\ Heard!Age(j) = time - b
          /\ records[i].lastUpdated = a % Wrap /\ records[j].lastUpdated = b % Wrap
          /\ time - a < Wrap /\ time - b < Wrap
      BY <1>7, RecordAge DEF Known
    <3>2. a % Wrap < Wrap - 1 /\ (b % Wrap < Wrap - 1 => a % Wrap <= b % Wrap)
      BY <1>7, <2>2, <3>1 DEF Heard!Oldest, Heard!Below, Heard!InUse
    <3>3. /\ Heard!ThisTurn(i) <=> a \div Wrap = time \div Wrap
          /\ Heard!ThisTurn(j) <=> b \div Wrap = time \div Wrap
      BY DEF Heard!ThisTurn
    <3> HIDE DEF a, b
    <3>4. /\ \/ a \div Wrap = time \div Wrap /\ a % Wrap <= time % Wrap
             \/ a \div Wrap = (time \div Wrap) - 1 /\ a % Wrap > time % Wrap
          /\ \/ b \div Wrap = time \div Wrap /\ b % Wrap <= time % Wrap
             \/ b \div Wrap = (time \div Wrap) - 1 /\ b % Wrap > time % Wrap
      BY <3>1, HeardNumbers, ThisOrLast
    <3>5. /\ time \div Wrap \in Int /\ a % Wrap \in 0 .. Wrap - 1 /\ b % Wrap \in 0 .. Wrap - 1
          /\ time % Wrap \in 0 .. Wrap - 1
      <4>1. Wrap \in Nat \ {0} /\ a \in Int /\ b \in Int /\ time \in Int
        BY <3>1, HeardNumbers
      <4>2. ASSUME NEW x \in Int PROVE x % Wrap \in 0 .. Wrap - 1 /\ x \div Wrap \in Int
        BY <4>1, Divided
      <4> QED
        BY <4>1, <4>2
    <3>6. a % Wrap <= b % Wrap
      <4> DEFINE x == a % Wrap
                 y == b % Wrap
      <4>1. /\ x \in 0 .. Wrap - 1 /\ y \in 0 .. Wrap - 1 /\ Wrap \in Nat
            /\ x < Wrap - 1 /\ (y < Wrap - 1 => x <= y)
        BY <3>2, <3>5, HeardNumbers
      <4> HIDE DEF x, y
      <4>2. x <= y
        BY <4>1
      <4> QED
        BY <4>2 DEF x, y
    <3>7. Heard!ThisTurn(j) => Heard!ThisTurn(i)
      BY <3>3, <3>4, <3>5, <3>6
    <3>8. ASSUME Heard!ThisTurn(i) = Heard!ThisTurn(j) PROVE Heard!Age(i) >= Heard!Age(j)
      <4>1. a \div Wrap = b \div Wrap
        BY <3>3, <3>4, <3>8
      <4>2. a <= b
        BY <3>1, <3>6, <4>1, SameTurn, HeardNumbers
      <4> QED
        BY <3>1, <4>2
    <3> QED
      BY <3>7, <3>8
  <2> QED
    BY <1>9, <2>3
<1> QED
  BY <1>8, <1>9

LEMMA PartsAreHeard == PartsSpec => Heard!Spec
<1>1. PartsInit => Heard!Init
  BY DEF PartsInit
<1>2. [PartsNext]_allVars => [Heard!Next]_(Heard!vars)
  BY DEF PartsNext, Rest, allVars, heardVars, Heard!vars
<1> QED
  BY <1>1, <1>2, PTL DEF PartsSpec, Heard!Spec

(* Each satellite has one record, those younger than a turn of the ticks are listed
   exactly if they were heard in the last minute, none of the last minute is missing
   unless there were more than slots or one was given up beside a record as old as a
   turn, and the assert fails only if all were heard in the last tick of a turn
   (notify(), getRecords()), for any number of slots and satellites and any period
   of the ticks. *)
THEOREM RecordsStayRecent == PartsSpec => []RecordsAreRecent
<1>1. HeardInv => RecordsAreRecent
  BY HeardSafe DEF RecordsAreRecent
<1> QED
  BY <1>1, PartsAreHeard, HeardInvHolds, PTL

(* The record that is given up for another satellite is old enough to be recycled,
   if one is, and else the oldest of those heard since the ticks began anew, if
   there are any: right after the wrap it is the newest of all
   (findRecordToRecycle()). *)
THEOREM OldestGoesFirst == PartsSpec => [][Heard!OldestIsRecycled]_(Heard!vars)
<1>1. HeardInv /\ [Heard!Next]_(Heard!vars) => [Heard!OldestIsRecycled]_(Heard!vars)
  BY OldestGivenUp
<1> QED
  BY <1>1, PartsAreHeard, HeardInvHolds, PTL DEF Heard!Spec

-----------------------------------------------------------------------------
(* The records that are whole, and what the reader gives of them. *)
Whole == Store!Cardinality({i \in DOMAIN recs : recs[i] # Store!Part})

Fewer(n) == IF n < Whole THEN n ELSE Whole

Records == Seq(Configs \cup {Store!Part, Store!Garbage})

(* The file of configurations.  What is written never exceeds the calls that asked
   for it, and what was lost never the failures.                                  *)
StoreCounts ==
    /\ held <= changes /\ recordsWritten <= changes /\ recordCount <= changes
    /\ missed <= failures
    /\ wPc = "append" => held < changes
    /\ wPc \in {"create", "header"} => recordsWritten = 0 /\ Len(todo) <= changes
    /\ wPc = "write" => recordsWritten + Len(todo) <= changes

(* What the file begins with, at each place of the writer: a file without its content
   header is being written, or was cut short.                                        *)
StoreHeads ==
    /\ wPc = "append" => wOp = "add" /\ todo = <<todo[1]>> /\ ~ wOk
    /\ wPc = "create" => head \in IF wOp = "add" THEN {"nofile", "empty"} ELSE {"whole"}
    /\ wPc = "header" => head = "empty"
    /\ wPc = "write" => head \in {"short", "hole", "whole"}
    /\ wPc = "write" /\ head = "whole" => wOp = "add"
    /\ wPc \in {"create", "header"} /\ wOp = "add" => Len(todo) = 1 /\ ~ wOk
    /\ wPc = "write" /\ wOp = "add" => Len(todo) <= 1 /\ (todo # <<>> => ~ wOk)
    /\ head = "nofile" => promised = <<>> /\ recs = <<>> /\ held = 0
    /\ head \in {"empty", "short", "hole"} => cut \/ wPc \in {"header", "write"}

(* A header never counts more records than are in the file as a whole. *)
StoreWhole ==
    /\ head = "whole" => held <= Whole
    /\ wPc = "write" => recordsWritten <= Whole

(* The records that are counted, and those that were lost, are as many as were promised. *)
StoreLengths ==
    /\ head = "whole" => held + missed = Len(promised)
    /\ wPc = "append" => goal = promised \o todo
    /\ wPc = "header" => recs = <<>> /\ promised = <<>> /\ goal = todo /\ missed = 0
    /\ wPc = "write" /\ wOp = "remove" => recordsWritten + Len(todo) + missed = Len(goal)
    /\ wPc = "write" /\ wOp = "add" =>
          /\ recordsWritten = (IF head = "whole" THEN held ELSE 0) + (IF wOk THEN 1 ELSE 0)
          /\ Len(goal) = Len(promised) + 1
          /\ head # "whole" => promised = <<>> /\ missed = 0

(* Where nothing was left behind in the file and nothing was lost, it holds what was
   promised, and while it is written the rest of it is yet to be written.            *)
StoreLists ==
    /\ head = "whole" /\ Len(recs) = held /\ missed = 0 => recs = promised
    /\ wPc = "write" /\ Len(recs) = recordsWritten /\ missed = 0
         /\ (wOp = "add" => todo # <<>> \/ wOk) => goal = recs \o todo

(* Nothing was left behind or cut without a failure. *)
StoreFaultless ==
    failures = 0 =>
        /\ ~ cut
        /\ head = "whole" /\ wPc # "write" => Len(recs) = held
        /\ wPc = "write" => Len(recs) = recordsWritten

(* A reader of a file that was not begun anew has read the first records of those that
   were listed when it began, and these are still there.                            *)
StoreReads ==
    /\ readOk
    /\ rPc = "read" /\ ~ renewed =>
          /\ head = "whole" /\ recordCount <= held
          /\ opened = Store!Taken(recordCount)
          /\ Len(got) <= recordCount /\ \A i \in 1 .. Len(got) : got[i] = opened[i]

StoreInv ==
    /\ Store!ObjectFileTypeOK
    /\ StoreCounts
    /\ StoreHeads
    /\ StoreWhole
    /\ StoreLengths
    /\ StoreLists
    /\ StoreFaultless
    /\ StoreReads

LEMMA WithoutType ==
    ASSUME NEW S, NEW list \in Seq(S), NEW c
    PROVE  Store!Without(list, c) \in Seq(S) /\ Len(Store!Without(list, c)) <= Len(list)
<1> DEFINE m == Len(list)
           step == [x \in (1 .. m) \X Seq(S) |->
                      IF list[x[1]] = c THEN x[2] ELSE Append(x[2], list[x[1]])]
           Is(h) == h = [n \in 0 .. m |->
                          IF n = 0 THEN <<>>
                          ELSE IF list[n] = c THEN h[n - 1] ELSE Append(h[n - 1], list[n])]
           kept == CHOOSE h : Is(h)
<1>1. m \in Nat /\ \A n \in 1 .. m : list[n] \in S
  OBVIOUS
<1>2. \E h : Is(h)
  <2>1. PICK h : Folds(h, m, <<>>, step)
    BY <1>1, FoldExists
  <2>2. \A n \in 1 .. m : \A s \in Seq(S) : step[<<n, s>>] \in Seq(S)
    BY <1>1
  <2>3. \A n \in 0 .. m : h[n] \in Seq(S)
    <3>1. <<>> \in Seq(S)
      OBVIOUS
    <3> HIDE DEF step, m
    <3> QED
      BY <1>1, <2>1, <2>2, <3>1, FoldType, Zenon
  <2>4. ASSUME NEW n \in 0 .. m, n # 0
        PROVE  step[<<n, h[n - 1]>>] =
                   IF list[n] = c THEN h[n - 1] ELSE Append(h[n - 1], list[n])
    <3>1. n \in 1 .. m /\ n - 1 \in 0 .. m
      BY <1>1, <2>4
    <3> QED
      BY <2>3, <3>1
  <2>5. Is(h)
    <3> HIDE DEF step
    <3> QED
      BY <2>1, <2>4, Zenon DEF Folds
  <2> QED
    BY <2>5
<1>3. Is(kept)
  <2> HIDE DEF Is
  <2> QED
    BY <1>2, Zenon
<1>4. Store!Without(list, c) = kept[m]
  BY DEF Store!Without
<1> DEFINE T == {n \in 0 .. m : kept[n] \in Seq(S) /\ Len(kept[n]) <= n}
<1> HIDE DEF kept
<1>5. 0 \in T
  BY <1>1, <1>3
<1>6. ASSUME NEW n \in 1 .. m, n - 1 \in T PROVE n \in T
  <2>1. kept[n - 1] \in Seq(S) /\ Len(kept[n - 1]) <= n - 1
    BY <1>6
  <2>2. n \in 0 .. m /\ n # 0
    BY <1>1
  <2>3. kept[n] = IF list[n] = c THEN kept[n - 1] ELSE Append(kept[n - 1], list[n])
    <3> HIDE DEF m, step
    <3> QED
      BY <1>3, <2>2
  <2>4. kept[n] \in Seq(S) /\ Len(kept[n]) <= n
    BY <1>1, <2>1, <2>3
  <2> QED
    BY <2>2, <2>4
<1>7. 0 .. m \subseteq T
  <2> HIDE DEF T, Is
  <2> QED
    BY <1>1, <1>5, <1>6, UpTo
<1> QED
  BY <1>1, <1>4, <1>7

LEMMA StoreParameters ==
    /\ MaxChanges \in Nat /\ MaxFaults \in Nat
    /\ Store!Part \notin Configs /\ Store!Garbage \notin Configs
BY InstanceParameters DEF Store!ObjectFileParameters

(* No more are whole than there are. *)
LEMMA WholeCount ==
    ASSUME NEW S, NEW T \in SUBSET (1 .. Len(S)), Len(S) \in Nat
    PROVE  /\ Store!Cardinality(T) \in 0 .. Len(S)
           /\ Store!Cardinality(1 .. Len(S)) = Len(S)
           /\ \A U \in SUBSET T : Store!Cardinality(U) <= Store!Cardinality(T)
<1>1. \A U : Store!Cardinality(U) = Cardinality(U)
  BY Zenon DEF Store!Cardinality, Cardinality
<1>2. IsFiniteSet(1 .. Len(S)) /\ Cardinality(1 .. Len(S)) = Len(S)
  BY FS_Interval
<1>3. IsFiniteSet(T) /\ Cardinality(T) <= Cardinality(1 .. Len(S))
  BY <1>2, FS_Subset
<1>4. Cardinality(T) \in Nat
  BY <1>3, FS_CardinalityType
<1>5. \A U \in SUBSET T : Cardinality(U) <= Cardinality(T)
  BY <1>3, FS_Subset
<1> QED
  BY <1>1, <1>2, <1>3, <1>4, <1>5

(* What the reader gives: a list, no longer than it was asked for. *)
TakenIs(n) ==
    /\ Whole \in 0 .. Len(recs) /\ Fewer(n) \in 0 .. Len(recs) /\ Fewer(n) <= n
    /\ Store!Taken(n) = [i \in 1 .. Fewer(n) |->
         IF \E j \in 1 .. i : recs[j] = Store!Part THEN Store!Garbage ELSE recs[i]]
    /\ Store!Taken(n) \in Store!Lists /\ Len(Store!Taken(n)) = Fewer(n)

TakenShape == recs \in Records => \A n \in Nat : TakenIs(n)

LEMMA TakenType == TakenShape
<1> USE DEF TakenShape
<1> SUFFICES ASSUME recs \in Records, NEW n \in Nat
             PROVE  TakenIs(n)
  OBVIOUS
<1>1. Whole \in 0 .. Len(recs)
  BY WholeCount DEF Records, Whole
<1>2. Fewer(n) \in 0 .. Len(recs) /\ Fewer(n) <= n
  BY <1>1 DEF Fewer
<1>3. Store!Taken(n) = [i \in 1 .. Fewer(n) |->
                IF \E j \in 1 .. i : recs[j] = Store!Part THEN Store!Garbage ELSE recs[i]]
  BY DEF Store!Taken, Fewer, Whole
<1>4. \A i \in 1 .. Fewer(n) : Store!Taken(n)[i] \in Configs \cup {Store!Garbage}
  <2> SUFFICES ASSUME NEW i \in 1 .. Fewer(n)
               PROVE  Store!Taken(n)[i] \in Configs \cup {Store!Garbage}
    OBVIOUS
  <2>1. i \in 1 .. Len(recs) /\ i \in 1 .. i
    BY <1>2
  <2>2. recs[i] \in Configs \cup {Store!Part, Store!Garbage}
    BY <2>1 DEF Records
  <2> HIDE DEF Fewer
  <2> QED
    BY <1>3, <2>1, <2>2
<1>5. Store!Taken(n) \in [1 .. Fewer(n) -> Configs \cup {Store!Garbage}]
  BY <1>3, <1>4
<1> QED
  BY <1>1, <1>2, <1>3, <1>5 DEF Store!Lists, TakenIs

(* The reader's list in a longer file. *)
LEMMA TakenGrows ==
    ASSUME recs \in Records, recs' \in Records, NEW n \in Nat, NEW m \in Nat, n <= m,
           Len(recs) <= Len(recs'), \A i \in 1 .. Len(recs) : recs'[i] = recs[i]
    PROVE  Store!IsPrefix(Store!Taken(n), Store!Taken(m)')
<1>1. Whole <= Whole'
  <2>1. {i \in DOMAIN recs : recs[i] # Store!Part}
          \subseteq {i \in DOMAIN recs' : recs'[i] # Store!Part}
    BY DEF Records
  <2>2. {i \in DOMAIN recs' : recs'[i] # Store!Part} \in SUBSET (1 .. Len(recs'))
    BY DEF Records
  <2>3. Len(recs') \in Nat
    BY DEF Records
  <2> QED
    BY <2>1, <2>2, <2>3, WholeCount DEF Whole
<1>2. TakenIs(n) /\ TakenIs(m)'
  <2>1. TakenShape'
    BY TakenType, PTL
  <2> QED
    BY <2>1, TakenType DEF TakenShape
<1>3. Fewer(n) <= Fewer(m)' /\ Fewer(n) \in Nat /\ Fewer(m)' \in Nat
  BY <1>1, <1>2 DEF TakenIs, Fewer
<1>4. ASSUME NEW i \in 1 .. Fewer(n)
      PROVE  Store!Taken(n)[i] = Store!Taken(m)'[i]
  <2>1. i \in 1 .. Len(recs) /\ i \in 1 .. Fewer(m)'
    BY <1>2, <1>3 DEF TakenIs
  <2>2. \A j \in 1 .. i : recs'[j] = recs[j]
    BY <2>1 DEF Records
  <2>3. Store!Taken(n)[i] =
          IF \E j \in 1 .. i : recs[j] = Store!Part THEN Store!Garbage ELSE recs[i]
    BY <1>2 DEF TakenIs
  <2>4. Store!Taken(m)'[i] =
          IF \E j \in 1 .. i : recs'[j] = Store!Part THEN Store!Garbage ELSE recs'[i]
    BY <1>2, <2>1 DEF TakenIs
  <2> QED
    BY <2>1, <2>2, <2>3, <2>4
<1>5. /\ Store!Taken(n) \in Store!Lists /\ Store!Taken(m)' \in Store!Lists
      /\ Len(Store!Taken(n)) = Fewer(n) /\ Len(Store!Taken(m)') = Fewer(m)'
  BY <1>2 DEF TakenIs, Store!Lists
<1> HIDE DEF Fewer
<1>6. SubSeq(Store!Taken(n), 1, Fewer(n)) = SubSeq(Store!Taken(m)', 1, Fewer(n))
  BY <1>3, <1>4, <1>5 DEF Store!Lists
<1> QED
  BY <1>3, <1>5, <1>6 DEF Store!IsPrefix

LEMMA CountFinite ==
    ASSUME NEW n \in Nat
    PROVE  IsFiniteSet(1 .. n) /\ Cardinality(1 .. n) = n
BY FS_Interval

(* Where every record is whole, the reader gives all of them. *)
LEMMA TakenWhole ==
    ASSUME recs \in Records, Whole = Len(recs)
    PROVE  Store!Taken(Len(recs)) = recs
<1>1. Len(recs) \in Nat /\ Fewer(Len(recs)) = Len(recs)
  BY DEF Fewer, Records
<1>2. TakenIs(Len(recs))
  BY <1>1, TakenType DEF TakenShape
<1>3. \A i \in 1 .. Len(recs) : recs[i] # Store!Part
  <2> DEFINE T == {i \in DOMAIN recs : recs[i] # Store!Part}
  <2>1. \A U : Store!Cardinality(U) = Cardinality(U)
    BY Zenon DEF Store!Cardinality, Cardinality
  <2>2. IsFiniteSet(1 .. Len(recs)) /\ Cardinality(1 .. Len(recs)) = Len(recs)
    BY <1>1, CountFinite, Zenon
  <2>3. T \subseteq 1 .. Len(recs) /\ Cardinality(T) = Cardinality(1 .. Len(recs))
    <3>1. Cardinality(T) = Whole
      BY <2>1, Zenon DEF Whole
    <3>2. T \subseteq 1 .. Len(recs)
      BY DEF Records
    <3> QED
      BY <2>2, <3>1, <3>2, Zenon
  <2> HIDE DEF T
  <2>4. T = 1 .. Len(recs)
    BY <2>2, <2>3, FS_Subset
  <2> QED
    BY <2>4 DEF T
<1>4. ASSUME NEW i \in 1 .. Len(recs)
      PROVE  Store!Taken(Len(recs))[i] = recs[i]
  <2>1. \A j \in 1 .. i : j \in 1 .. Len(recs)
    BY <1>1
  <2>2. Store!Taken(Len(recs))[i] =
          IF \E j \in 1 .. i : recs[j] = Store!Part THEN Store!Garbage ELSE recs[i]
    BY <1>1, <1>2 DEF TakenIs
  <2> QED
    BY <1>3, <2>1, <2>2
<1>5. /\ Store!Taken(Len(recs)) \in Seq(Configs \cup {Store!Part, Store!Garbage})
      /\ recs \in Seq(Configs \cup {Store!Part, Store!Garbage})
      /\ Len(Store!Taken(Len(recs))) = Len(recs)
  <2>1. Store!Taken(Len(recs)) \in Seq(Configs \cup {Store!Garbage})
    BY <1>2 DEF TakenIs, Store!Lists
  <2>2. Store!Taken(Len(recs)) \in Seq(Configs \cup {Store!Part, Store!Garbage})
    BY <2>1
  <2> QED
    BY <1>1, <1>2, <2>2 DEF TakenIs, Records
<1> QED
  BY <1>4, <1>5, SeqEqual

(* One record more. *)
LEMMA WholeAppends ==
    ASSUME recs \in Records, NEW x \in Configs \cup {Store!Part, Store!Garbage},
           recs' = Append(recs, x)
    PROVE  /\ Whole \in Nat /\ Whole' = Whole + (IF x = Store!Part THEN 0 ELSE 1)
           /\ recs' \in Records /\ Len(recs') = Len(recs) + 1 /\ Len(recs) \in Nat
           /\ \A i \in 1 .. Len(recs) : recs'[i] = recs[i]
<1> DEFINE T == {i \in DOMAIN recs : recs[i] # Store!Part}
           U == {i \in DOMAIN recs' : recs'[i] # Store!Part}
<1>1. \A V : Store!Cardinality(V) = Cardinality(V)
  BY Zenon DEF Store!Cardinality, Cardinality
<1>2. /\ recs' \in Records /\ Len(recs') = Len(recs) + 1 /\ Len(recs) \in Nat
      /\ \A i \in 1 .. Len(recs) : recs'[i] = recs[i]
      /\ recs'[Len(recs) + 1] = x
  BY DEF Records
<1>3. Whole = Cardinality(T) /\ Whole' = Cardinality(U)
  BY <1>1, Zenon DEF Whole
<1>4. IsFiniteSet(T) /\ Cardinality(T) \in Nat
  <2>1. IsFiniteSet(1 .. Len(recs))
    BY <1>2, CountFinite, Zenon
  <2>2. T \subseteq 1 .. Len(recs)
    BY DEF Records
  <2> HIDE DEF T
  <2> QED
    BY <2>1, <2>2, FS_Subset, FS_CardinalityType
<1>5. DOMAIN recs = 1 .. Len(recs) /\ DOMAIN recs' = 1 .. (Len(recs) + 1)
  BY <1>2 DEF Records
<1>6. U = IF x = Store!Part THEN T ELSE T \cup {Len(recs) + 1}
  BY <1>2, <1>5
<1>7. Len(recs) + 1 \notin T
  BY <1>2, <1>5
<1> HIDE DEF T, U
<1>8. Cardinality(T \cup {Len(recs) + 1}) = Cardinality(T) + 1
  BY <1>4, <1>7, FS_AddElement
<1> QED
  BY <1>2, <1>3, <1>4, <1>6, <1>8

LEMMA SameRecords ==
    ASSUME recs' = recs
    PROVE  Whole' = Whole /\ \A n : Store!Taken(n)' = Store!Taken(n)
BY DEF Whole, Store!Taken

LEMMA StoreBegins == Store!Init => StoreInv
<1> SUFFICES ASSUME Store!Init PROVE StoreInv
  OBVIOUS
<1> USE StoreParameters DEF Store!Init
<1>1. Store!ObjectFileTypeOK
  <2>1. <<>> \in Store!Lists /\ <<>> \in Seq(Configs \cup {Store!Part, Store!Garbage})
    BY DEF Store!Lists
  <2>2. 0 \in 0 .. MaxChanges /\ 0 \in 0 .. MaxFaults
    OBVIOUS
  <2> QED
    BY <2>1, <2>2 DEF Store!ObjectFileTypeOK
<1>2. StoreCounts /\ StoreHeads
  BY DEF StoreCounts, StoreHeads
<1>3. StoreWhole /\ StoreLengths /\ StoreLists
  BY DEF StoreWhole, StoreLengths, StoreLists
<1>4. StoreFaultless /\ StoreReads
  BY DEF StoreFaultless, StoreReads
<1> QED
  BY <1>1, <1>2, <1>3, <1>4 DEF StoreInv

LEMMA StoreStutters == StoreInv /\ UNCHANGED Store!vars => StoreInv'
<1> SUFFICES ASSUME StoreInv, UNCHANGED Store!vars PROVE StoreInv'
  OBVIOUS
<1> USE DEF StoreInv, Store!vars
<1>1. Store!ObjectFileTypeOK'
  BY DEF Store!ObjectFileTypeOK, Store!Lists
<1>2. StoreCounts' /\ StoreHeads'
  BY DEF StoreCounts, StoreHeads
<1>3. StoreWhole'
  BY SameRecords DEF StoreWhole
<1>4. StoreLengths' /\ StoreLists' /\ StoreFaultless'
  BY DEF StoreLengths, StoreLists, StoreFaultless
<1>5. StoreReads'
  <2>1. Store!Taken(recordCount)' = Store!Taken(recordCount)
    BY DEF Store!Taken
  <2> QED
    BY <2>1 DEF StoreReads
<1> QED
  BY <1>1, <1>2, <1>3, <1>4, <1>5

(* What the invariant says of the types, where the provers need it. *)
LEMMA StoreIs ==
    ASSUME StoreInv
    PROVE  /\ recs \in Records /\ Len(recs) \in Nat /\ Whole \in 0 .. Len(recs)
           /\ held \in Nat /\ recordsWritten \in Nat /\ recordCount \in Nat /\ changes \in Nat
           /\ missed \in Nat /\ failures \in Nat /\ MaxChanges \in Nat /\ MaxFaults \in Nat
           /\ changes <= MaxChanges /\ failures <= MaxFaults
           /\ todo \in Store!Lists /\ Len(todo) \in Nat /\ Len(promised) \in Nat
           /\ Len(goal) \in Nat
<1>1. recs \in Records
  BY DEF StoreInv, Store!ObjectFileTypeOK, Records
<1>2. Len(recs) \in Nat /\ Whole \in 0 .. Len(recs)
  BY <1>1, TakenType DEF TakenShape, TakenIs, Records
<1>3. /\ held \in Nat /\ recordsWritten \in Nat /\ recordCount \in Nat /\ changes \in Nat
      /\ missed \in Nat /\ failures \in Nat /\ changes <= MaxChanges /\ failures <= MaxFaults
  BY StoreParameters DEF StoreInv, Store!ObjectFileTypeOK
<1>4. /\ todo \in Store!Lists /\ Len(todo) \in Nat /\ Len(promised) \in Nat
      /\ Len(goal) \in Nat
  BY DEF StoreInv, Store!ObjectFileTypeOK, Store!Lists
<1> QED
  BY <1>1, <1>2, <1>3, <1>4, StoreParameters

(* What is listed is as long as the header says. *)
LEMMA ListedIs ==
    ASSUME StoreInv
    PROVE  /\ Store!Listed \in Store!Lists
           /\ Len(Store!Listed) = IF head = "whole" THEN held ELSE 0
<1>1. CASE head = "whole"
  <2>1. TakenIs(held) /\ Fewer(held) = held
    BY <1>1, StoreIs, TakenType DEF TakenShape, StoreInv, StoreWhole, Fewer
  <2> QED
    BY <1>1, <2>1 DEF TakenIs, Store!Listed, Store!Readable
<1>2. CASE head # "whole"
  BY <1>2 DEF Store!Listed, Store!Readable, Store!Lists
<1> QED
  BY <1>1, <1>2

(* Whatever the writer adds at the end of the file, a reader still finds what it is to read. *)
LEMMA ReadsStay ==
    ASSUME StoreInv, UNCHANGED <<rPc, recordCount, got, opened, renewed, readOk>>,
           head = "whole" => head' = "whole" /\ held <= held',
           held' \in Nat,
           \/ recs' = recs
           \/ \E x \in Configs \cup {Store!Part, Store!Garbage} : recs' = Append(recs, x)
    PROVE  StoreReads'
<1> SUFFICES ASSUME rPc = "read", ~ renewed
             PROVE  Store!Taken(recordCount)' = Store!Taken(recordCount) /\ recordCount <= held'
  <2>1. readOk /\ readOk' = readOk
    BY DEF StoreInv, StoreReads
  <2> QED
    BY <2>1 DEF StoreInv, StoreReads
<1>1. head = "whole" /\ recordCount <= held /\ held <= Whole
  BY DEF StoreInv, StoreReads, StoreWhole
<1>2. recordCount <= held'
  BY <1>1, StoreIs
<1>3. CASE recs' = recs
  BY <1>2, <1>3 DEF Store!Taken
<1>4. CASE \E x \in Configs \cup {Store!Part, Store!Garbage} : recs' = Append(recs, x)
  <2>1. /\ recs' \in Records /\ Len(recs) <= Len(recs') /\ Whole <= Whole' /\ Whole' \in Nat
        /\ \A i \in 1 .. Len(recs) : recs'[i] = recs[i]
    BY <1>4, WholeAppends, StoreIs
  <2>2. PICK n \in Nat : n = recordCount
    BY StoreIs
  <2>3. Store!IsPrefix(Store!Taken(n), Store!Taken(n)')
    BY <2>1, StoreIs, TakenGrows
  <2>4. TakenIs(n) /\ TakenIs(n)'
    <3>1. TakenShape'
      BY TakenType, PTL
    <3> QED
      BY <2>1, <3>1, StoreIs, TakenType DEF TakenShape
  <2>5. Fewer(n) = n /\ Fewer(n)' = n
    BY <1>1, <2>1, <2>2, StoreIs DEF Fewer
  <2>6. /\ Store!Taken(n) \in Store!Lists /\ Len(Store!Taken(n)) = n
        /\ Store!Taken(n)' \in Store!Lists /\ Len(Store!Taken(n)') = n
    BY <2>4, <2>5 DEF TakenIs, Store!Lists
  <2>7. Store!Taken(n)' = Store!Taken(n)
    BY <2>3, <2>6 DEF Store!IsPrefix, Store!Lists
  <2>8. Store!Taken(recordCount)' = Store!Taken(n)'
    BY <2>2 DEF Store!Taken
  <2> QED
    BY <1>2, <2>2, <2>7, <2>8
<1> QED
  BY <1>3, <1>4

LEMMA StoreAddConfig ==
    ASSUME StoreInv, NEW c \in Configs, Store!AddConfig(c)
    PROVE  StoreInv'
<1> USE StoreParameters DEF Store!AddConfig, Store!file, Store!reader, StoreInv
<1>1. Store!ObjectFileTypeOK'
  <2>1. todo' \in Store!Lists /\ goal' \in Store!Lists
    BY DEF Store!ObjectFileTypeOK, Store!Lists
  <2>2. changes' \in 0 .. MaxChanges
    BY StoreIs
  <2> QED
    BY <2>1, <2>2 DEF Store!ObjectFileTypeOK
<1>2. StoreCounts'
  BY DEF StoreCounts, Store!ObjectFileTypeOK
<1>3. StoreHeads'
  BY DEF StoreHeads
<1>4. StoreWhole'
  BY SameRecords DEF StoreWhole
<1>5. StoreLengths'
  <2>1. goal' = promised \o todo'
    BY DEF Store!ObjectFileTypeOK, Store!Lists
  <2> QED
    BY <2>1 DEF StoreLengths
<1>6. StoreLists' /\ StoreFaultless'
  BY DEF StoreLists, StoreFaultless
<1>7. StoreReads'
  BY StoreIs, ReadsStay
<1> QED
  BY <1>1, <1>2, <1>3, <1>4, <1>5, <1>6, <1>7

LEMMA StoreRemoveConfig ==
    ASSUME StoreInv, NEW c \in Configs, Store!RemoveConfig(c)
    PROVE  StoreInv'
<1> USE StoreParameters DEF Store!RemoveConfig, Store!file, Store!reader, StoreInv
<1>1. todo' \in Store!Lists /\ Len(todo') \in Nat /\ Len(todo') <= held
  <2>1. todo' \in Store!Lists /\ Len(todo') <= Len(Store!Listed)
    BY ListedIs, WithoutType DEF Store!Lists
  <2>2. Len(todo') \in Nat /\ Len(Store!Listed) = held
    BY <2>1 DEF Store!Lists, Store!ListOk
  <2> QED
    BY <2>1, <2>2, StoreIs
<1>2. head = "whole" /\ goal' = todo' /\ wOk' \in BOOLEAN
  BY DEF Store!ListOk, Store!Readable, Store!Contains
<1>3. Store!ObjectFileTypeOK'
  <2>1. changes' \in 0 .. MaxChanges
    BY StoreIs
  <2> QED
    BY <1>1, <1>2, <2>1 DEF Store!ObjectFileTypeOK
<1>4. StoreCounts'
  BY <1>1, StoreIs DEF StoreCounts
<1>5. StoreHeads'
  BY <1>2 DEF StoreHeads
<1>6. StoreWhole'
  BY SameRecords DEF StoreWhole
<1>7. StoreLengths' /\ StoreLists' /\ StoreFaultless'
  BY <1>2 DEF StoreLengths, StoreLists, StoreFaultless
<1>8. StoreReads'
  BY StoreIs, ReadsStay
<1> QED
  BY <1>3, <1>4, <1>5, <1>6, <1>7, <1>8

LEMMA StoreOpenFails ==
    ASSUME StoreInv, Store!OpenFails
    PROVE  StoreInv'
<1> USE StoreParameters DEF Store!OpenFails, Store!Fault, Store!file, Store!reader,
        Store!ghosts, StoreInv
<1>1. Store!ObjectFileTypeOK'
  <2>1. failures' \in 0 .. MaxFaults
    BY StoreIs
  <2> QED
    BY <2>1 DEF Store!ObjectFileTypeOK
<1>2. StoreCounts' /\ failures' # 0
  BY StoreIs DEF StoreCounts
<1>3. StoreHeads'
  BY DEF StoreHeads
<1>4. StoreWhole'
  BY SameRecords DEF StoreWhole
<1>5. StoreLengths' /\ StoreLists' /\ StoreFaultless'
  BY <1>2 DEF StoreLengths, StoreLists, StoreFaultless
<1>6. StoreReads'
  BY StoreIs, ReadsStay
<1> QED
  BY <1>1, <1>2, <1>3, <1>4, <1>5, <1>6

LEMMA StoreOpenAppend ==
    ASSUME StoreInv, Store!OpenAppend
    PROVE  StoreInv'
<1> USE StoreParameters DEF Store!OpenAppend, Store!file, Store!reader, Store!ghosts, StoreInv
<1>1. /\ wPc' = IF head = "whole" THEN "write"
                ELSE IF head \in {"nofile", "empty"} THEN "create" ELSE "idle"
      /\ Len(todo) = 1 /\ wOp = "add" /\ todo # <<>> /\ ~ wOk
  BY SMTT(30) DEF StoreHeads
<1>2. recordsWritten' = IF head = "whole" THEN held ELSE 0
  OBVIOUS
<1>3. Store!ObjectFileTypeOK'
  BY <1>1 DEF Store!ObjectFileTypeOK
<1>4. StoreCounts'
  BY <1>1, StoreIs DEF StoreCounts
<1>5. StoreHeads'
  BY <1>1 DEF StoreHeads, Store!ObjectFileTypeOK
<1>6. StoreWhole'
  BY <1>1, SameRecords DEF StoreWhole
<1>7. StoreLengths'
  <2>1. Len(goal) = Len(promised) + 1
    <3>1. goal = promised \o todo
      BY DEF StoreLengths
    <3>2. /\ promised \in Seq(Configs \cup {Store!Garbage})
          /\ todo \in Seq(Configs \cup {Store!Garbage})
      BY DEF Store!ObjectFileTypeOK, Store!Lists
    <3>3. Len(promised \o todo) = Len(promised) + Len(todo)
      BY <3>2
    <3> QED
      BY <1>1, <3>1, <3>3, Zenon
  <2> QED
    BY <1>1, <1>2, <2>1, StoreIs DEF StoreLengths
<1>8. StoreLists'
  BY <1>1, <1>2 DEF StoreLists, StoreLengths
<1>9. StoreFaultless'
  BY <1>1, <1>2 DEF StoreFaultless, StoreHeads
<1>10. StoreReads'
  BY StoreIs, ReadsStay
<1> QED
  BY <1>3, <1>4, <1>5, <1>6, <1>7, <1>8, <1>9, <1>10

LEMMA StoreCreate ==
    ASSUME StoreInv, Store!Create
    PROVE  StoreInv'
<1> USE StoreParameters DEF Store!Create, StoreInv
<1>1. Store!ObjectFileTypeOK'
  <2>1. <<>> \in Seq(Configs \cup {Store!Part, Store!Garbage}) /\ <<>> \in Store!Lists
    BY DEF Store!Lists
  <2> QED
    BY <2>1, StoreIs DEF Store!ObjectFileTypeOK
<1>2. StoreCounts'
  BY StoreIs DEF StoreCounts
<1>3. StoreHeads'
  BY DEF StoreHeads
<1>4. StoreWhole' /\ StoreLengths' /\ StoreLists'
  BY DEF StoreWhole, StoreLengths, StoreLists
<1>5. StoreFaultless' /\ StoreReads'
  BY DEF StoreFaultless, StoreReads
<1> QED
  BY <1>1, <1>2, <1>3, <1>4, <1>5

LEMMA StoreWriteHeader ==
    ASSUME StoreInv, Store!WriteHeader
    PROVE  StoreInv'
<1> USE StoreParameters DEF Store!WriteHeader, Store!ghosts, Store!reader, StoreInv
<1>1. Store!ObjectFileTypeOK'
  BY DEF Store!ObjectFileTypeOK
<1>2. StoreCounts'
  <2>1. recordsWritten = 0 /\ Len(todo) <= changes
    BY DEF StoreCounts
  <2>2. recordsWritten + Len(todo) <= changes
    BY <2>1, StoreIs
  <2> QED
    BY <2>1, <2>2 DEF StoreCounts
<1>3. StoreHeads'
  <2>1. wPc = "header" /\ head = "empty" /\ (wOp = "add" => Len(todo) = 1 /\ ~ wOk)
    BY DEF StoreHeads
  <2>2. /\ wPc' = "write" /\ head' = "short" /\ wOp' = wOp /\ todo' = todo /\ wOk' = wOk
        /\ cut' = cut
    OBVIOUS
  <2>3. wOp' = "add" => Len(todo') <= 1 /\ ~ wOk'
    BY <2>1, <2>2
  <2> QED
    BY <2>2, <2>3 DEF StoreHeads
<1>4. recordsWritten = 0 /\ recs = <<>> /\ goal = todo /\ missed = 0 /\ promised = <<>>
  BY DEF StoreCounts, StoreLengths
<1>5. StoreWhole'
  <2>1. Whole' = Whole /\ 0 <= Whole
    BY SameRecords, StoreIs
  <2> QED
    BY <1>4, <2>1 DEF StoreWhole
<1>6. StoreLengths'
  <2>1. wOp = "add" => Len(goal) = 1 /\ ~ wOk
    BY <1>4 DEF StoreHeads
  <2> QED
    BY <1>4, <2>1, StoreIs DEF StoreLengths
<1>7. StoreLists'
  <2>1. goal = recs \o todo
    BY <1>4, StoreIs, ConcatEmptySeq DEF Store!Lists
  <2> QED
    BY <2>1 DEF StoreLists
<1>8. StoreFaultless'
  BY <1>4 DEF StoreFaultless
<1>9. StoreReads'
  BY StoreIs, ReadsStay DEF StoreHeads
<1> QED
  BY <1>1, <1>2, <1>3, <1>5, <1>6, <1>7, <1>8, <1>9

LEMMA StoreHeaderFails ==
    ASSUME StoreInv, Store!HeaderFails
    PROVE  StoreInv'
<1> USE StoreParameters DEF Store!HeaderFails, Store!Fault, Store!file, Store!reader, StoreInv
<1>1. Store!ObjectFileTypeOK'
  <2>1. failures' \in 0 .. MaxFaults
    BY StoreIs
  <2> QED
    BY <2>1 DEF Store!ObjectFileTypeOK
<1>2. StoreCounts' /\ failures' # 0
  BY StoreIs DEF StoreCounts
<1>3. StoreHeads'
  BY DEF StoreHeads
<1>4. StoreWhole'
  BY SameRecords DEF StoreWhole
<1>5. StoreLengths' /\ StoreLists' /\ StoreFaultless'
  BY <1>2 DEF StoreLengths, StoreLists, StoreFaultless
<1>6. StoreReads'
  BY StoreIs, ReadsStay
<1> QED
  BY <1>1, <1>2, <1>3, <1>4, <1>5, <1>6

(* What is left to write, one record on. *)
LEMMA RestOf ==
    ASSUME NEW S, todo \in Seq(S), todo # <<>>
    PROVE  /\ Tail(todo) \in Seq(S) /\ Head(todo) \in S
           /\ Len(Tail(todo)) = Len(todo) - 1 /\ Len(todo) \in Nat \ {0}
           /\ todo = <<Head(todo)>> \o Tail(todo)
OBVIOUS

LEMMA StoreWrite ==
    ASSUME StoreInv, Store!Write
    PROVE  StoreInv'
<1> USE StoreParameters DEF Store!Write, Store!ghosts, Store!reader, StoreInv
<1>1. /\ todo' \in Store!Lists /\ Head(todo) \in Configs \cup {Store!Garbage}
      /\ Len(todo') = Len(todo) - 1 /\ Len(todo) \in Nat \ {0}
      /\ todo = <<Head(todo)>> \o todo'
  BY RestOf DEF Store!Lists, Store!ObjectFileTypeOK
<1>2. /\ Whole' = Whole + 1 /\ recs' \in Records /\ Len(recs') = Len(recs) + 1
  <2>1. Head(todo) \in Configs \cup {Store!Part, Store!Garbage} /\ Head(todo) # Store!Part
    BY <1>1 DEF Store!Part, Store!Garbage
  <2>2. recs \in Records /\ recs' = Append(recs, Head(todo))
    BY StoreIs
  <2> QED
    BY <2>1, <2>2, WholeAppends
<1>3. /\ head' = IF head = "short" THEN "hole" ELSE head
      /\ wOk' = (wOp = "add" \/ wOk) /\ wOp' = wOp /\ wOp \in {"add", "remove"}
      /\ wOp = "add" => todo' = <<>> /\ ~ wOk
  <2>1. wOp = "add" => Len(todo') = 0 /\ ~ wOk
    BY <1>1 DEF StoreHeads
  <2>2. wOp = "add" => todo' = <<>>
    BY <1>1, <2>1, EmptySeq, Zenon DEF Store!Lists
  <2> QED
    BY <2>1, <2>2 DEF Store!ObjectFileTypeOK
<1>4. Store!ObjectFileTypeOK'
  <2>1. recordsWritten' \in 0 .. MaxChanges
    BY <1>1, StoreIs DEF StoreCounts
  <2>2. /\ head' \in {"nofile", "empty", "short", "hole", "whole"}
        /\ recs' \in Seq(Configs \cup {Store!Part, Store!Garbage})
    BY <1>2 DEF Store!ObjectFileTypeOK, Records
  <2> QED
    BY <1>1, <2>1, <2>2 DEF Store!ObjectFileTypeOK
<1>5. StoreCounts'
  <2>1. /\ recordsWritten + Len(todo) <= changes /\ wPc = "write"
        /\ held <= changes /\ recordCount <= changes /\ missed <= failures
    BY DEF StoreCounts
  <2>2. recordsWritten' <= changes /\ recordsWritten' + Len(todo') <= changes
    BY <1>1, <2>1, StoreIs
  <2> QED
    BY <2>1, <2>2 DEF StoreCounts
<1>6. StoreHeads'
  <2>1. head \in {"short", "hole", "whole"} /\ (head = "whole" => wOp = "add") /\ wPc = "write"
    BY DEF StoreHeads
  <2>2. head' \in {"hole", "whole"} /\ (head' = "whole" => wOp = "add") /\ wPc' = "write"
    BY <1>3, <2>1
  <2> QED
    BY <1>3, <2>2 DEF StoreHeads
<1>7. StoreWhole'
  <2>1. (head = "whole" => held <= Whole) /\ recordsWritten <= Whole
    BY DEF StoreWhole
  <2>2. (head' = "whole" => held' <= Whole') /\ recordsWritten' <= Whole'
    BY <1>2, <1>3, <2>1, StoreIs
  <2> QED
    BY <2>2 DEF StoreWhole
<1>8. StoreLengths'
  <2>1. /\ head = "whole" => held + missed = Len(promised)
        /\ wOp = "remove" => recordsWritten' + Len(todo') + missed = Len(goal)
        /\ wOp = "add" =>
             /\ recordsWritten' = (IF head = "whole" THEN held ELSE 0) + 1
             /\ Len(goal) = Len(promised) + 1
             /\ head # "whole" => promised = <<>> /\ missed = 0
    <3>1. /\ head = "whole" => held + missed = Len(promised)
          /\ wOp = "remove" => recordsWritten + Len(todo) + missed = Len(goal)
          /\ wOp = "add" =>
               /\ recordsWritten = (IF head = "whole" THEN held ELSE 0) + (IF wOk THEN 1 ELSE 0)
               /\ Len(goal) = Len(promised) + 1
               /\ head # "whole" => promised = <<>> /\ missed = 0
      BY DEF StoreLengths
    <3>2. recordsWritten' + Len(todo') + missed = recordsWritten + Len(todo) + missed
      BY <1>1, StoreIs
    <3>3. wOp = "add" => recordsWritten = (IF head = "whole" THEN held ELSE 0)
      BY <1>3, <3>1, StoreIs
    <3> QED
      BY <3>1, <3>2, <3>3
  <2> QED
    BY <1>3, <2>1 DEF StoreLengths
<1>9. StoreLists'
  <2>1. ASSUME Len(recs) = recordsWritten, missed = 0 PROVE goal = recs' \o todo'
    <3>1. goal = recs \o todo
      BY <2>1 DEF StoreLists
    <3>2. /\ recs \in Seq(Configs \cup {Store!Part, Store!Garbage})
          /\ <<Head(todo)>> \in Seq(Configs \cup {Store!Part, Store!Garbage})
          /\ todo' \in Seq(Configs \cup {Store!Part, Store!Garbage})
      BY <1>1, StoreIs DEF Records, Store!Lists
    <3>3. goal = (recs \o <<Head(todo)>>) \o todo'
      <4>1. (recs \o <<Head(todo)>>) \o todo' = recs \o (<<Head(todo)>> \o todo')
        BY <3>2, ConcatAssociative, SMTT(30)
      <4> QED
        BY <1>1, <3>1, <4>1, Zenon
    <3>4. recs' = recs \o <<Head(todo)>>
      BY <1>1, <3>2, AppendIsConcat
    <3> QED
      BY <3>3, <3>4, Zenon
  <2>2. head' = "whole" => Len(recs') # held'
    BY <1>2, StoreIs DEF StoreWhole
  <2>3. Len(recs') = recordsWritten' => Len(recs) = recordsWritten
    BY <1>2, StoreIs
  <2> QED
    BY <2>1, <2>2, <2>3 DEF StoreLists
<1>10. StoreFaultless'
  BY <1>2, <1>3 DEF StoreFaultless
<1>11. StoreReads'
  <2>1. \E x \in Configs \cup {Store!Part, Store!Garbage} : recs' = Append(recs, x)
    BY <1>1
  <2> QED
    BY <1>3, <2>1, StoreIs, ReadsStay
<1> QED
  BY <1>4, <1>5, <1>6, <1>7, <1>8, <1>9, <1>10, <1>11

LEMMA StoreWriteFails ==
    ASSUME StoreInv, Store!WriteFails
    PROVE  StoreInv'
<1> USE StoreParameters DEF Store!WriteFails, Store!Fault, Store!reader, StoreInv
<1>1. /\ todo' \in Store!Lists /\ Len(todo') = Len(todo) - 1 /\ Len(todo) \in Nat \ {0}
  BY RestOf DEF Store!Lists, Store!ObjectFileTypeOK
<1>2. /\ held' = held /\ head' \in {head, IF head = "short" THEN "hole" ELSE head}
      /\ recs' = recs \/ recs' = Append(recs, Store!Part)
  BY DEF Store!file
<1>3. /\ recs' \in Records /\ Whole' = Whole
      /\ \/ recs' = recs
         \/ Len(recs') = Len(recs) + 1
  <2>1. Store!Part \in Configs \cup {Store!Part, Store!Garbage} /\ recs \in Records
    BY StoreIs
  <2>2. CASE recs' = recs
    BY <2>1, <2>2, SameRecords
  <2>3. CASE recs' = Append(recs, Store!Part)
    BY <2>1, <2>3, WholeAppends, StoreIs
  <2> QED
    BY <1>2, <2>2, <2>3
<1>4. /\ failures' # 0 /\ failures' \in 0 .. MaxFaults
      /\ missed' = (IF wOp = "remove" THEN missed + 1 ELSE missed)
      /\ missed' <= failures' /\ missed' \in 0 .. MaxFaults
  <2>1. missed' = (IF wOp = "remove" THEN missed + 1 ELSE missed) /\ missed <= failures
    BY DEF StoreCounts
  <2>2. failures' = failures + 1 /\ failures < MaxFaults
    OBVIOUS
  <2>3. missed' \in {missed, missed + 1}
    BY <2>1
  <2> QED
    BY <2>1, <2>2, <2>3, StoreIs
<1>5. wOp = "add" => todo' = <<>> /\ ~ wOk
  <2>1. wOp = "add" => Len(todo') = 0 /\ ~ wOk
    BY <1>1 DEF StoreHeads
  <2> QED
    BY <1>1, <2>1 DEF Store!Lists
<1>6. Store!ObjectFileTypeOK'
  <2>1. /\ recs' \in Seq(Configs \cup {Store!Part, Store!Garbage})
        /\ head' \in {"nofile", "empty", "short", "hole", "whole"}
    BY <1>2, <1>3 DEF Store!ObjectFileTypeOK, Records
  <2> QED
    BY <1>1, <1>2, <1>4, <2>1 DEF Store!ObjectFileTypeOK
<1>7. StoreCounts'
  BY <1>1, <1>2, <1>4, StoreIs DEF StoreCounts
<1>8. StoreHeads'
  <2>1. head \in {"short", "hole", "whole"} /\ (head = "whole" => wOp = "add")
    BY DEF StoreHeads
  <2> QED
    BY <1>1, <1>2, <1>5, <2>1 DEF StoreHeads
<1>9. StoreWhole'
  BY <1>2, <1>3 DEF StoreWhole
<1>10. (head' = "whole") = (head = "whole")
  BY <1>2
<1>11. StoreLengths'
  <2>1. /\ head = "whole" => held + missed' = Len(promised)
        /\ wOp = "remove" => recordsWritten + Len(todo') + missed' = Len(goal)
        /\ wOp = "add" =>
             /\ recordsWritten = (IF head = "whole" THEN held ELSE 0) + 0
             /\ Len(goal) = Len(promised) + 1
             /\ head # "whole" => promised = <<>> /\ missed' = 0
    <3>1. head = "whole" => wOp = "add"
      BY DEF StoreHeads
    <3>2. /\ head = "whole" => held + missed = Len(promised)
          /\ wOp = "remove" => recordsWritten + Len(todo) + missed = Len(goal)
          /\ wOp = "add" =>
               /\ recordsWritten = (IF head = "whole" THEN held ELSE 0) + (IF wOk THEN 1 ELSE 0)
               /\ Len(goal) = Len(promised) + 1
               /\ head # "whole" => promised = <<>> /\ missed = 0
      BY DEF StoreLengths
    <3>3. wOp = "add" => missed' = missed
      BY <1>4
    <3>4. wOp = "remove" => recordsWritten + Len(todo') + missed' = Len(goal)
      <4>1. \A a, b, m, g \in Nat : b # 0 /\ a + b + m = g => a + (b - 1) + (m + 1) = g
        OBVIOUS
      <4>2. /\ recordsWritten \in Nat /\ Len(todo) \in Nat /\ missed \in Nat /\ Len(goal) \in Nat
            /\ Len(todo) # 0 /\ Len(todo') = Len(todo) - 1
        BY <1>1, StoreIs
      <4>3. wOp = "remove" => missed' = missed + 1
        BY <1>4
      <4> QED
        <5>1. ASSUME wOp = "remove"
              PROVE  recordsWritten + (Len(todo) - 1) + (missed + 1) = Len(goal)
          <6>1. recordsWritten + Len(todo) + missed = Len(goal)
            BY <3>2, <5>1
          <6> QED
            BY <4>1, <4>2, <6>1
        <5> QED
          BY <4>2, <4>3, <5>1, Zenon
    <3>5. wOp = "add" => recordsWritten = (IF head = "whole" THEN held ELSE 0) + 0
      BY <1>5, <3>2
    <3> QED
      BY <3>1, <3>2, <3>3, <3>4, <3>5
  <2> QED
    BY <1>2, <1>5, <1>10, <2>1 DEF StoreLengths
<1>12. StoreLists'
  <2>1. wOp = "remove" => missed' # 0
    BY <1>4, StoreIs
  <2>2. ASSUME head' = "whole", Len(recs') = held', missed' = 0 PROVE recs' = promised'
    <3>1. head = "whole" /\ missed = 0 /\ wOp = "add"
      BY <1>4, <1>10, <2>1, <2>2 DEF Store!ObjectFileTypeOK
    <3>2. recs' = recs
      BY <1>2, <1>3, <2>2, <3>1, StoreIs DEF StoreWhole
    <3> QED
      BY <1>2, <2>2, <3>1, <3>2 DEF StoreLists
  <2>3. wOp' = wOp /\ wOp \in {"add", "remove"}
    BY DEF Store!ObjectFileTypeOK
  <2> QED
    BY <1>5, <2>1, <2>2, <2>3 DEF StoreLists
<1>13. StoreFaultless'
  BY <1>4 DEF StoreFaultless
<1>14. StoreReads'
  BY <1>2, <1>10, StoreIs, ReadsStay
<1> QED
  BY <1>6, <1>7, <1>8, <1>9, <1>11, <1>12, <1>13, <1>14

LEMMA StoreClose ==
    ASSUME StoreInv, Store!Close
    PROVE  StoreInv'
<1> USE StoreParameters DEF Store!Close, Store!Promise, Store!reader, StoreInv
<1>1. Store!ObjectFileTypeOK'
  BY DEF Store!ObjectFileTypeOK
<1>2. StoreCounts'
  BY DEF StoreCounts, Store!ObjectFileTypeOK
<1>3. StoreHeads'
  BY DEF StoreHeads
<1>4. StoreWhole'
  BY SameRecords DEF StoreWhole
<1>5. promised' = (IF wOk \/ wOp = "remove" THEN goal ELSE promised) /\ wOp \in {"add", "remove"}
  BY DEF Store!ObjectFileTypeOK
<1>6. StoreLengths'
  <2>1. recordsWritten + missed = Len(promised')
    <3>1. CASE wOp = "remove"
      BY <1>5, <3>1, StoreIs DEF StoreLengths
    <3>2. CASE wOp = "add"
      BY <1>5, <3>2, StoreIs DEF StoreLengths
    <3> QED
      BY <1>5, <3>1, <3>2
  <2> QED
    BY <2>1 DEF StoreLengths
<1>7. StoreLists'
  <2> SUFFICES ASSUME Len(recs) = recordsWritten, missed = 0
               PROVE  recs = promised'
    BY DEF StoreLists
  <2>1. CASE wOk \/ wOp = "remove"
    <3>1. goal = recs \o <<>>
      BY <2>1 DEF StoreLists
    <3>2. recs \o <<>> = recs
      BY StoreIs, ConcatEmptySeq DEF Records
    <3> QED
      BY <1>5, <2>1, <3>1, <3>2
  <2>2. CASE ~ wOk /\ wOp = "add"
    <3>1. promised' = promised
      BY <1>5, <2>2
    <3>2. CASE head = "whole"
      BY <2>2, <3>1, <3>2, StoreIs DEF StoreLists, StoreLengths
    <3>3. CASE head # "whole"
      <4>1. promised = <<>> /\ Len(recs) = 0
        BY <2>2, <3>3, StoreIs DEF StoreLengths
      <4>2. recs = <<>>
        BY <4>1, StoreIs DEF Records
      <4> QED
        BY <3>1, <4>1, <4>2
    <3> QED
      BY <3>2, <3>3
  <2> QED
    BY <1>5, <2>1, <2>2
<1>8. StoreFaultless'
  BY DEF StoreFaultless
<1>9. StoreReads'
  <2>1. head = "whole" => held <= held'
    <3>1. head = "whole" => wOp = "add"
      BY DEF StoreHeads
    <3> QED
      BY <3>1, StoreIs DEF StoreLengths
  <2> QED
    BY <2>1, StoreIs, ReadsStay
<1> QED
  BY <1>1, <1>2, <1>3, <1>4, <1>6, <1>7, <1>8, <1>9

LEMMA StoreCloseFails ==
    ASSUME StoreInv, Store!CloseFails
    PROVE  StoreInv'
<1> USE StoreParameters DEF Store!CloseFails, Store!Promise, Store!Fault, Store!file,
        Store!reader, StoreInv
<1>1. promised' = (IF wOk \/ wOp = "remove" THEN goal ELSE promised) /\ wOp \in {"add", "remove"}
  BY DEF Store!ObjectFileTypeOK
<1>2. /\ failures' # 0 /\ failures' \in 0 .. MaxFaults
      /\ missed' = (IF wOk /\ wOp = "add" THEN missed + 1 ELSE missed)
      /\ missed' <= failures' /\ missed' \in 0 .. MaxFaults
  BY StoreIs DEF StoreCounts
<1>3. Store!ObjectFileTypeOK'
  BY <1>2 DEF Store!ObjectFileTypeOK
<1>4. StoreCounts'
  BY <1>2, StoreIs DEF StoreCounts
<1>5. StoreHeads'
  BY DEF StoreHeads
<1>6. StoreWhole'
  BY SameRecords DEF StoreWhole
<1>7. StoreLengths'
  <2>1. head = "whole" => held + missed' = Len(promised')
    <3> SUFFICES ASSUME head = "whole" PROVE held + missed' = Len(promised')
      OBVIOUS
    <3>1. wOp = "add" /\ held + missed = Len(promised) /\ Len(goal) = Len(promised) + 1
      BY DEF StoreHeads, StoreLengths
    <3>2. CASE wOk
      BY <1>1, <1>2, <3>1, <3>2, StoreIs
    <3>3. CASE ~ wOk
      BY <1>1, <1>2, <3>1, <3>3
    <3> QED
      BY <3>2, <3>3
  <2> QED
    BY <2>1 DEF StoreLengths
<1>8. StoreLists'
  <2> SUFFICES ASSUME head = "whole", Len(recs) = held, missed' = 0
               PROVE  recs = promised'
    BY DEF StoreLists
  <2>1. wOp = "add"
    BY DEF StoreHeads
  <2>2. ~ wOk /\ missed = 0
    BY <1>2, <2>1, StoreIs
  <2> QED
    BY <1>1, <2>1, <2>2 DEF StoreLists
<1>9. StoreFaultless'
  BY <1>2 DEF StoreFaultless
<1>10. StoreReads'
  BY StoreIs, ReadsStay
<1> QED
  BY <1>3, <1>4, <1>5, <1>6, <1>7, <1>8, <1>9, <1>10

(* The steps of a reader leave the file and its writer alone. *)
LEMMA ReadingLeaves ==
    ASSUME StoreInv, UNCHANGED <<Store!file, Store!writer, Store!ghosts, failures, changes>>,
           recordCount' <= changes
    PROVE  /\ StoreCounts' /\ StoreHeads' /\ StoreWhole' /\ StoreLengths' /\ StoreLists'
           /\ StoreFaultless'
<1> USE DEF Store!file, Store!writer, Store!ghosts, StoreInv
<1>1. StoreCounts' /\ StoreHeads'
  BY DEF StoreCounts, StoreHeads
<1>2. StoreWhole'
  BY SameRecords DEF StoreWhole
<1>3. StoreLengths' /\ StoreLists' /\ StoreFaultless'
  BY DEF StoreLengths, StoreLists, StoreFaultless
<1> QED
  BY <1>1, <1>2, <1>3

LEMMA StoreReadOpen ==
    ASSUME StoreInv, Store!ReadOpen
    PROVE  StoreInv'
<1> USE StoreParameters DEF Store!ReadOpen, Store!Readable
<1>1. Store!ObjectFileTypeOK'
  <2>1. Store!Listed \in Store!Lists /\ <<>> \in Store!Lists
    BY ListedIs DEF Store!Lists
  <2> QED
    BY <2>1 DEF Store!ObjectFileTypeOK, Store!file, Store!writer, Store!ghosts, StoreInv
<1>2. /\ StoreCounts' /\ StoreHeads' /\ StoreWhole' /\ StoreLengths' /\ StoreLists'
      /\ StoreFaultless'
  <2>1. recordCount' <= changes
    BY DEF StoreInv, StoreCounts
  <2> QED
    BY <2>1, ReadingLeaves
<1>3. StoreReads'
  <2>1. /\ readOk' /\ head' = "whole" /\ recordCount' = held' /\ recordCount' = held
        /\ opened' = Store!Taken(held) /\ got' = <<>>
    BY DEF Store!file, Store!Listed, StoreInv, StoreReads
  <2>2. recs' = recs /\ held \in Nat
    BY StoreIs DEF Store!file
  <2>3. Store!Taken(recordCount)' = Store!Taken(held)
    BY <2>1, <2>2 DEF Store!Taken
  <2> QED
    BY <2>1, <2>2, <2>3 DEF StoreReads
<1> QED
  BY <1>1, <1>2, <1>3 DEF StoreInv

LEMMA StoreReadRecord ==
    ASSUME StoreInv, Store!ReadRecord
    PROVE  StoreInv'
<1> USE StoreParameters DEF Store!ReadRecord
<1> DEFINE n == Len(got)
           more == Store!Taken(n + 1)
<1>1. n \in Nat /\ got \in Store!Lists
  BY DEF StoreInv, Store!ObjectFileTypeOK, Store!Lists
<1>2. more \in Store!Lists /\ Len(more) <= n + 1 /\ Len(more) = Fewer(n + 1)
  <2>1. TakenIs(n + 1)
    BY <1>1, StoreIs, TakenType DEF TakenShape
  <2> QED
    BY <2>1 DEF TakenIs
<1>3. IF Len(more) > n THEN got' = Append(got, Store!Last(more)) /\ rPc' = rPc
                       ELSE rPc' = "idle" /\ got' = got
  OBVIOUS
<1>4. recs' = recs /\ readOk' = readOk /\ renewed' = renewed /\ opened' = opened
      /\ recordCount' = recordCount /\ held' = held /\ head' = head
  BY DEF Store!file
<1> HIDE DEF more
<1>5. Len(more) > n => Len(more) = n + 1 /\ Store!Last(more) = more[n + 1]
                        /\ more[n + 1] \in Configs \cup {Store!Garbage}
  BY <1>1, <1>2 DEF Store!Lists, Store!Last
<1>6. got' \in Store!Lists /\ rPc' \in {"read", "idle"}
  <2>1. rPc = "read"
    OBVIOUS
  <2> QED
    BY <1>1, <1>3, <1>5, <2>1 DEF Store!Lists
<1>7. Store!ObjectFileTypeOK'
  BY <1>6 DEF Store!ObjectFileTypeOK, Store!file, Store!writer, Store!ghosts, StoreInv
<1>8. /\ StoreCounts' /\ StoreHeads' /\ StoreWhole' /\ StoreLengths' /\ StoreLists'
      /\ StoreFaultless'
  <2>1. recordCount' <= changes
    BY DEF StoreInv, StoreCounts
  <2> QED
    BY <2>1, ReadingLeaves
<1>9. StoreReads'
  <2>1. Store!Taken(recordCount)' = Store!Taken(recordCount)
    BY <1>4 DEF Store!Taken
  <2> SUFFICES ASSUME ~ renewed, rPc' = "read"
               PROVE  /\ head = "whole" /\ recordCount <= held
                      /\ opened = Store!Taken(recordCount)
                      /\ Len(got') <= recordCount /\ \A i \in 1 .. Len(got') : got'[i] = opened[i]
    BY <1>4, <2>1 DEF StoreReads, StoreInv
  <2>2. /\ head = "whole" /\ recordCount <= held /\ opened = Store!Taken(recordCount)
        /\ n < recordCount /\ held <= Whole /\ \A i \in 1 .. n : got[i] = opened[i]
    BY DEF StoreReads, StoreWhole, StoreInv
  <2>3. CASE Len(more) > n
    <3>1. /\ got' = Append(got, more[n + 1]) /\ Len(got') = n + 1
          /\ \A i \in 1 .. n : got'[i] = got[i]
          /\ got'[n + 1] = more[n + 1]
      BY <1>1, <1>3, <1>5, <2>3 DEF Store!Lists
    <3>2. more[n + 1] = opened[n + 1]
      <4>1. TakenIs(n + 1) /\ TakenIs(recordCount)
        BY <1>1, StoreIs, TakenType DEF TakenShape
      <4>2. /\ n + 1 <= recordCount /\ n + 1 <= Whole /\ recordCount <= Whole
            /\ Whole \in Nat /\ recordCount \in Nat
        <5>1. held \in Nat /\ Whole \in Nat /\ recordCount \in Nat
          BY StoreIs
        <5>2. \A a, b, c, d \in Nat : a < b /\ b <= c /\ c <= d => a + 1 <= b /\ a + 1 <= d /\ b <= d
          OBVIOUS
        <5>3. n \in Nat /\ n < recordCount /\ recordCount <= held /\ held <= Whole
          BY <1>1, <2>2
        <5> HIDE DEF n
        <5> QED
          BY <5>1, <5>2, <5>3, Zenon
      <4>3. Fewer(n + 1) = n + 1 /\ Fewer(recordCount) = recordCount
        BY <1>1, <4>2 DEF Fewer
      <4>4. n + 1 \in 1 .. Fewer(n + 1) /\ n + 1 \in 1 .. Fewer(recordCount)
        BY <1>1, <4>2, <4>3
      <4> QED
        BY <2>2, <4>1, <4>4 DEF TakenIs, more
    <3>3. Len(got') <= recordCount
      BY <1>1, <2>2, <3>1, StoreIs
    <3>4. \A i \in 1 .. Len(got') : got'[i] = opened[i]
      <4>1. ASSUME NEW i \in 1 .. (n + 1) PROVE got'[i] = opened[i]
        <5>1. i \in 1 .. n \/ i = n + 1
          BY <1>1
        <5> QED
          BY <2>2, <3>1, <3>2, <5>1
      <4> QED
        BY <3>1, <4>1
    <3> QED
      BY <2>2, <3>3, <3>4
  <2>4. CASE ~ (Len(more) > n)
    BY <1>3, <2>4
  <2> QED
    BY <2>3, <2>4
<1> QED
  BY <1>7, <1>8, <1>9 DEF StoreInv

LEMMA StoreReadEnds ==
    ASSUME StoreInv, Store!ReadEnds
    PROVE  StoreInv'
<1> USE StoreParameters DEF Store!ReadEnds
<1>1. renewed \/ got = opened
  <2> SUFFICES ASSUME ~ renewed PROVE got = opened
    BY Zenon
  <2>1. /\ recordCount <= held /\ opened = Store!Taken(recordCount) /\ held <= Whole
        /\ \A i \in 1 .. Len(got) : got[i] = opened[i]
    BY DEF StoreReads, StoreWhole, StoreInv
  <2>2. TakenIs(recordCount) /\ Fewer(recordCount) = recordCount
    BY <2>1, StoreIs, TakenType DEF TakenShape, Fewer
  <2>3. /\ got \in Seq(Configs \cup {Store!Garbage}) /\ opened \in Seq(Configs \cup {Store!Garbage})
        /\ Len(got) = Len(opened)
    BY <2>1, <2>2 DEF TakenIs, StoreInv, Store!ObjectFileTypeOK, Store!Lists
  <2> QED
    BY <2>1, <2>3, SeqEqual
<1>2. readOk'
  BY <1>1
<1>3. Store!ObjectFileTypeOK'
  BY <1>2 DEF Store!ObjectFileTypeOK, Store!file, Store!writer, Store!ghosts, StoreInv
<1>4. /\ StoreCounts' /\ StoreHeads' /\ StoreWhole' /\ StoreLengths' /\ StoreLists'
      /\ StoreFaultless'
  <2>1. recordCount' <= changes
    BY DEF StoreInv, StoreCounts
  <2> QED
    BY <2>1, ReadingLeaves
<1>5. StoreReads'
  BY <1>2 DEF StoreReads
<1> QED
  BY <1>3, <1>4, <1>5 DEF StoreInv

LEMMA StorePowerLoss ==
    ASSUME StoreInv, Store!PowerLoss
    PROVE  StoreInv'
<1> USE StoreParameters DEF Store!PowerLoss, Store!Fault, Store!file, StoreInv
<1>1. failures' \in 0 .. MaxFaults /\ failures' # 0
  BY StoreIs
<1>2. Store!ObjectFileTypeOK'
  <2>1. <<>> \in Store!Lists /\ 0 \in 0 .. MaxChanges
    BY DEF Store!Lists
  <2> QED
    BY <1>1, <2>1 DEF Store!ObjectFileTypeOK
<1>3. StoreCounts'
  BY StoreIs DEF StoreCounts
<1>4. StoreHeads'
  <2>1. wPc' = "idle" /\ head' = head /\ cut' = (cut \/ head \in {"empty", "short", "hole"})
    OBVIOUS
  <2> QED
    BY <2>1 DEF StoreHeads
<1>5. StoreWhole'
  BY SameRecords DEF StoreWhole
<1>6. StoreLengths' /\ StoreLists' /\ StoreFaultless'
  BY <1>1 DEF StoreLengths, StoreLists, StoreFaultless
<1>7. StoreReads'
  BY DEF StoreReads
<1> QED
  BY <1>2, <1>3, <1>4, <1>5, <1>6, <1>7

LEMMA StoreInvHolds == Store!Spec => []StoreInv
<1>1. StoreInv /\ [Store!Next]_(Store!vars) => StoreInv'
  BY StoreStutters, StoreAddConfig, StoreRemoveConfig, StoreOpenFails, StoreOpenAppend,
     StoreCreate, StoreWriteHeader, StoreHeaderFails, StoreWrite, StoreWriteFails, StoreClose,
     StoreCloseFails, StoreReadOpen, StoreReadRecord, StoreReadEnds, StorePowerLoss
     DEF Store!Next, Store!WriterStep
<1> QED
  BY <1>1, StoreBegins, PTL DEF Store!Spec

LEMMA StoreSafe == StoreInv => Store!ObjectFileTypeOK /\ FileKeepsPromises
<1> SUFFICES ASSUME StoreInv PROVE Store!ObjectFileTypeOK /\ FileKeepsPromises
  OBVIOUS
<1>1. Store!ListIsPromised
  <2>1. Store!Readable => Len(Store!Listed) + missed = Len(promised)
    BY ListedIs DEF StoreInv, StoreLengths, Store!Readable
  <2>2. ASSUME Store!Readable, Store!Clean, missed = 0
        PROVE  Store!Listed = promised
    <3>1. recs = promised /\ head = "whole" /\ Len(recs) = held
      BY <2>2 DEF StoreInv, StoreLists, Store!Readable, Store!Clean
    <3>2. Whole = Len(recs)
      BY <3>1, StoreIs DEF StoreInv, StoreWhole
    <3>3. Store!Taken(Len(recs)) = recs
      BY <3>2, StoreIs, TakenWhole
    <3> QED
      BY <2>2, <3>1, <3>3 DEF Store!Listed
  <2>3. ASSUME failures = 0
        PROVE  missed = 0 /\ (wPc = "idle" => Store!Clean /\ (Store!Readable \/ promised = <<>>))
    <3>1. missed = 0
      BY <2>3, StoreIs DEF StoreInv, StoreCounts
    <3>2. ASSUME wPc = "idle" PROVE head \in {"nofile", "whole"}
      BY <2>3, <3>2 DEF StoreInv, StoreHeads, StoreFaultless, Store!ObjectFileTypeOK
    <3>3. ASSUME wPc = "idle" PROVE Len(recs) = held /\ (head = "whole" \/ promised = <<>>)
      BY <2>3, <3>2, <3>3 DEF StoreInv, StoreHeads, StoreFaultless
    <3> QED
      BY <3>1, <3>3 DEF Store!Clean, Store!Readable
  <2> QED
    BY <2>1, <2>2, <2>3 DEF Store!ListIsPromised
<1>2. Store!UnreadableWasCut /\ Store!ReadsAreWhole
  BY DEF StoreInv, StoreHeads, StoreReads, Store!UnreadableWasCut, Store!ReadsAreWhole
<1> QED
  BY <1>1, <1>2 DEF StoreInv, FileKeepsPromises

(* A behaviour of the parts is one of the file. *)
LEMMA PartsAreStore == PartsSpec => Store!Spec
<1>1. [PartsNext]_allVars => [Store!Next]_(Store!vars)
  BY DEF PartsNext, Rest, allVars, storeVars, Store!vars
<1> QED
  BY <1>1, PTL DEF PartsSpec, PartsInit, Store!Spec

(* What a writer that is adding does to a file that can be read: it goes on where the
   file ends.                                                                        *)
LEMMA AddingContinues ==
    ASSUME StoreInv, StoreInv', [Store!Next]_(Store!vars), wOp = "add", wPc # "idle",
           head = "whole"
    PROVE  /\ head' = "whole" /\ held <= held' /\ Len(recs) <= Len(recs')
           /\ \A i \in 1 .. Len(recs) : recs'[i] = recs[i]
<1>1. wPc \notin {"create", "header"} /\ held \in Nat /\ Len(recs) \in Nat
  BY DEF StoreInv, StoreHeads, Store!ObjectFileTypeOK
<1>2. CASE UNCHANGED <<head, held, recs>>
  BY <1>1, <1>2
<1>3. CASE Store!Write \/ Store!WriteFails
  <2>1. head' = "whole" /\ held' = held /\ (recs' = recs \/ \E x : recs' = Append(recs, x))
    BY <1>3 DEF Store!Write, Store!WriteFails, Store!file
  <2>2. recs \in Seq(Configs \cup {Store!Part, Store!Garbage})
    BY DEF StoreInv, Store!ObjectFileTypeOK
  <2> QED
    BY <1>1, <2>1, <2>2
<1>4. CASE Store!Close
  <2>1. head' = "whole" /\ held' = recordsWritten /\ recs' = recs /\ held <= recordsWritten
    BY <1>1, <1>4 DEF Store!Close, StoreInv, StoreLengths
  <2> QED
    BY <1>1, <2>1
<1>5. UNCHANGED <<head, held, recs>> \/ Store!Write \/ Store!WriteFails \/ Store!Close
  BY <1>1 DEF Store!Next, Store!WriterStep, Store!AddConfig, Store!RemoveConfig,
     Store!OpenAppend, Store!Create, Store!WriteHeader, Store!HeaderFails,
     Store!OpenFails, Store!CloseFails, Store!ReadOpen, Store!ReadRecord, Store!ReadEnds,
     Store!PowerLoss, Store!file,
     Store!vars
<1> QED
  BY <1>2, <1>3, <1>4, <1>5

ListsAList == StoreInv => Store!Listed \in Store!Lists

LEMMA ListedIsList == ListsAList
BY ListedIs DEF ListsAList

LEMMA AddingKeeps ==
    ASSUME StoreInv, StoreInv', [Store!Next]_(Store!vars)
    PROVE  Store!AddKeepsListed
<1> SUFFICES ASSUME wOp = "add", wPc # "idle"
             PROVE  Store!IsPrefix(Store!Listed, Store!Listed')
  BY DEF Store!AddKeepsListed
<1>1. /\ recs \in Records /\ recs' \in Records /\ held \in Nat /\ held' \in Nat
  BY StoreParameters DEF StoreInv, Store!ObjectFileTypeOK, Records
<1>2. CASE head = "whole"
  <2>1. /\ head' = "whole" /\ held <= held' /\ Len(recs) <= Len(recs')
        /\ \A i \in 1 .. Len(recs) : recs'[i] = recs[i]
    BY <1>2, AddingContinues
  <2>2. \A n, m \in Nat : n <= m => Store!IsPrefix(Store!Taken(n), Store!Taken(m)')
    BY <1>1, <2>1, TakenGrows
  <2>3. PICK n \in Nat, m \in Nat : n = held /\ m = held'
    BY <1>1
  <2>4. Store!Listed = Store!Taken(n) /\ Store!Listed' = Store!Taken(m)'
    BY <1>2, <2>1, <2>3 DEF Store!Listed, Store!Readable, Store!Taken
  <2> QED
    BY <2>1, <2>2, <2>3, <2>4
<1>3. CASE head # "whole"
  <2>1. Store!Listed = <<>>
    BY <1>3 DEF Store!Listed, Store!Readable
  <2>2. ListsAList'
    BY ListedIsList, PTL
  <2>3. Store!Listed' \in Store!Lists
    BY <2>2 DEF ListsAList, Store!Lists
  <2> QED
    BY <2>1, <2>3 DEF Store!IsPrefix, Store!Lists
<1> QED
  BY <1>2, <1>3

(* The file lists as many configurations as the answers promised, but for those lost
   to a write whose failure no answer told, these very ones if none was lost and
   nothing lies behind them, and always so without failures; it becomes unreadable
   only where a failure hit a file that was begun anew; a list that is read is the
   one there was when the reading began, unless the file was begun anew meanwhile
   (addGpsConfiguration(), removeGpsConfiguration(), getGpsConfigurations()), for
   any number of calls and of failures. *)
THEOREM FileKeepsItsPromises == PartsSpec => []FileKeepsPromises
<1>1. StoreInv => FileKeepsPromises
  BY StoreSafe
<1> QED
  BY <1>1, PartsAreStore, StoreInvHolds, PTL

(* A configuration that is added takes none of those away that were listed, whatever
   fails meanwhile.                                                                 *)
THEOREM AddingKeepsTheOthers == PartsSpec => [][Store!AddKeepsListed]_(Store!vars)
<1>1. StoreInv /\ StoreInv' /\ [Store!Next]_(Store!vars) => Store!AddKeepsListed
  BY AddingKeeps
<1> QED
  BY <1>1, PartsAreStore, StoreInvHolds, PTL DEF Store!Spec

-----------------------------------------------------------------------------
(* What is added takes nothing away: a configuration none of those that were listed,
   whatever fails, and a satellite only a record that is old enough to be recycled
   or the oldest of those heard since the ticks began anew (addGpsConfiguration(),
   findRecordToRecycle()). *)
THEOREM OldStaysKept == PartsSpec => OldIsKept
<1>1. StoreInv /\ StoreInv' /\ HeardInv /\ [PartsNext]_allVars
        => [Store!AddKeepsListed /\ Heard!OldestIsRecycled]_allVars
  <2>1. [PartsNext]_allVars => [Store!Next]_(Store!vars) /\ [Heard!Next]_(Heard!vars)
    BY DEF PartsNext, Rest, allVars, storeVars, Store!vars, heardVars, Heard!vars
  <2> QED
    BY <2>1, AddingKeeps, OldestGivenUp
<1> QED
  BY <1>1, PartsAreStore, StoreInvHolds, PartsAreHeard, HeardInvHolds, PTL
  DEF PartsSpec, OldIsKept
-----------------------------------------------------------------------------
(* The answers of a GPS receiver.  What the reader has matched are the last bytes that
   it read.                                                                          *)
UbxMatched ==
    /\ matched <= taken /\ matched < 10
    /\ \A i \in 1 .. matched : sent[taken - matched + i] = Ack!UbxAck[i]
    /\ errors <= taken /\ errors < Len(ErrorText)
    /\ \A i \in 1 .. errors : sent[taken - errors + i] = ErrorText[i]

MonMatched ==
    /\ matched <= taken /\ matched <= 5
    /\ \A i \in 1 .. matched : i <= 4 => sent[taken - matched + i] = Ack!MonHead[i]

CasMatched ==
    /\ matched <= taken /\ matched < 13
    /\ casBuffer = [n \in 0 .. 13 |-> IF n < matched THEN sent[taken - matched + n + 1] ELSE "00"]
    /\ matched >= 2 => casBuffer[0] = "BA" /\ casBuffer[1] = "CE"

Matched ==
    found = "reading" =>
      /\ reader = "ubx" => UbxMatched
      /\ reader = "mon" => MonMatched
      /\ reader = "cas" => CasMatched

(* Where an answer stands in what is sent, and that a part of one stands before it. *)
UbxStands(n) == n + 10 <= Len(sent) /\ \A i \in 1 .. 10 : sent[n + i] = Ack!UbxAck[i]
UbxBegun(n) == \E k \in 1 .. 9 : k <= n /\ \A i \in 1 .. k : sent[n - k + i] = Ack!UbxAck[i]

HeadStands(n) == sent[n + 1] = "BA" /\ sent[n + 2] = "CE"
CasStands(n) == /\ n + 13 <= Len(sent) /\ HeadStands(n)
                /\ sent[n + 5] = "05" /\ sent[n + 6] = "01" /\ sent[n + 7] = "cl" /\ sent[n + 8] = "id"
CasBegun(n) == \E k \in 2 .. 12 : k <= n /\ HeadStands(n - k)

(* An answer with nothing before it that could mislead is matched from its first byte on. *)
UbxOnTrack ==
    reader = "ubx" /\ found = "reading" =>
      \A n \in 0 .. taken : UbxStands(n) /\ ~ UbxBegun(n) =>
         taken < n + 10 /\ matched = taken - n

CasOnTrack ==
    reader = "cas" /\ found = "reading" =>
      \A n \in 0 .. taken - 1 : CasStands(n) /\ ~ CasBegun(n) =>
         taken < n + 13 /\ matched = taken - n

AckInv ==
    /\ Ack!AckFramesTypeOK
    /\ Matched /\ Ack!NoAnswerMadeUp
    /\ UbxOnTrack /\ CasOnTrack

LEMMA AckConstants ==
    /\ Len(Ack!UbxAck) = 10 /\ Len(Ack!UbxNak) = 4 /\ Len(Ack!MonHead) = 4
    /\ Ack!UbxAck = <<"B5", "62", "05", "01", "02", "00", "cl", "id", "ck", "ck">>
    /\ Ack!UbxNak = <<"B5", "62", "05", "00">>
    /\ ErrorText \in Seq(STRING) /\ Len(ErrorText) \in Nat \ {0}
<1>1. ErrorText \in Seq(STRING) /\ ErrorText # <<>>
  BY InstanceParameters DEF Ack!AckFramesParameters
<1>2. Len(ErrorText) \in Nat \ {0}
  BY <1>1, EmptySeq
<1> QED
  BY <1>1, <1>2 DEF Ack!UbxAck, Ack!UbxNak, Ack!MonHead

LEMMA SentType ==
    ASSUME Ack!AckFramesTypeOK
    PROVE  sent \in Seq(STRING) /\ Len(sent) \in Nat /\ taken \in 0 .. Len(sent) /\ taken \in Nat
<1>1. sent \in Seq(STRING)
  BY InstanceParameters DEF Ack!AckFramesParameters, Ack!AckFramesTypeOK
<1> QED
  BY <1>1 DEF Ack!AckFramesTypeOK

LEMMA AckBegins == Ack!Init => AckInv
<1> SUFFICES ASSUME Ack!Init PROVE AckInv
  OBVIOUS
<1>1. /\ reader \in Ack!Readers /\ taken = 0 /\ matched = 0 /\ errors = 0 /\ found = "reading"
      /\ casBuffer = [n \in 0 .. 13 |-> "00"] /\ sent \in Streams[reader]
  BY DEF Ack!Init, Ack!CasSize
<1>2. Ack!AckFramesTypeOK
  <2>1. sent \in Seq(STRING)
    BY <1>1, InstanceParameters DEF Ack!AckFramesParameters
  <2>2. Len(sent) \in Nat
    BY <2>1
  <2> QED
    BY <1>1, <2>2, AckConstants DEF Ack!AckFramesTypeOK, Ack!CasSize
<1>3. Matched
  BY <1>1, AckConstants DEF Matched, UbxMatched, MonMatched, CasMatched
<1>4. Ack!NoAnswerMadeUp
  BY <1>1 DEF Ack!NoAnswerMadeUp, Ack!Readers
<1>5. UbxOnTrack /\ CasOnTrack
  <2>1. \A n \in 0 .. taken : n = 0
    BY <1>1
  <2>2. \A n \in 0 .. taken - 1 : FALSE
    BY <1>1
  <2>3. UbxOnTrack
    <3> SUFFICES ASSUME NEW n \in 0 .. taken PROVE taken < n + 10 /\ matched = taken - n
      BY DEF UbxOnTrack
    <3>1. n = 0
      BY <2>1
    <3> QED
      BY <1>1, <3>1
  <2>4. CasOnTrack
    BY <2>2 DEF CasOnTrack
  <2> QED
    BY <2>3, <2>4
<1> QED
  BY <1>2, <1>3, <1>4, <1>5 DEF AckInv

LEMMA AckStutters ==
    ASSUME AckInv, UNCHANGED Ack!vars
    PROVE  AckInv'
<1>1. /\ reader' = reader /\ sent' = sent /\ taken' = taken /\ matched' = matched
      /\ errors' = errors /\ casBuffer' = casBuffer /\ found' = found
  BY DEF Ack!vars
<1>2. Ack!AckFramesTypeOK' /\ Matched'
  BY <1>1 DEF AckInv, Ack!AckFramesTypeOK, Matched, UbxMatched, MonMatched, CasMatched
<1>3. Ack!NoAnswerMadeUp'
  BY <1>1, ZenonT(30)
  DEF AckInv, Ack!NoAnswerMadeUp, Ack!WasRead, Ack!MonHeadWasRead, Ack!CasAt, Ack!At
<1>4. UbxOnTrack' /\ CasOnTrack'
  BY <1>1, ZenonT(30)
  DEF AckInv, UbxOnTrack, CasOnTrack, UbxStands, UbxBegun, CasStands, CasBegun, HeadStands
<1> QED
  BY <1>2, <1>3, <1>4 DEF AckInv

(* What a byte that is read leaves as it was. *)
LEMMA ByteRead ==
    ASSUME AckInv, NEW r, Ack!Reading(r)
    PROVE  /\ reader = r /\ reader' = r /\ found = "reading" /\ sent' = sent
           /\ taken \in Nat /\ taken + 1 \in 1 .. Len(sent) /\ Len(sent) \in Nat
           /\ r \in Ack!Readers /\ Ack!Byte = sent[taken + 1]
           /\ matched \in 0 .. 14 /\ errors \in 0 .. Len(ErrorText) /\ sent \in Streams[r]
BY SentType DEF AckInv, Ack!AckFramesTypeOK, Ack!Reading, Ack!Byte, Ack!CasSize

LEMMA AckReadTypes ==
    ASSUME AckInv, NEW r, Ack!Reading(r), matched' \in 0 .. 14, taken' \in 0 .. Len(sent),
           errors' \in 0 .. Len(ErrorText),
           found' \in {"reading", "Ok", "NotAck", "FrameErrors", "None"}
    PROVE  Ack!AckFramesTypeOK'
BY ByteRead DEF Ack!AckFramesTypeOK, Ack!CasSize

LEMMA AckReadUbx ==
    ASSUME AckInv, Ack!ReadUbx
    PROVE  AckInv'
<1> DEFINE good == sent[taken + 1] = Ack!UbxAck[matched + 1]
           ended == found' = "FrameErrors"
<1>1. Ack!Reading("ubx")
  BY DEF Ack!ReadUbx
<1>2. /\ reader = "ubx" /\ reader' = "ubx" /\ found = "reading" /\ sent' = sent
      /\ taken \in Nat /\ taken + 1 \in 1 .. Len(sent) /\ Len(sent) \in Nat
      /\ Ack!Byte = sent[taken + 1] /\ taken' = taken + 1 /\ taken' \in Nat
  BY <1>1, ByteRead DEF Ack!ReadUbx
<1>0. UbxMatched /\ matched \in 0 .. 14 /\ errors \in 0 .. Len(ErrorText)
  BY <1>1, <1>2, ByteRead DEF AckInv, Matched
<1>3. /\ matched \in 0 .. 9 /\ matched <= taken
      /\ errors \in 0 .. Len(ErrorText) - 1 /\ errors <= taken
  <2>1. matched <= taken /\ matched < 10 /\ errors <= taken /\ errors < Len(ErrorText)
    BY <1>0 DEF UbxMatched
  <2> QED
    BY <1>0, <2>1, AckConstants
<1>11. \A i \in 1 .. matched : sent[taken - matched + i] = Ack!UbxAck[i]
  BY <1>0 DEF UbxMatched
<1>12. \A i \in 1 .. errors : sent[taken - errors + i] = ErrorText[i]
  BY <1>0 DEF UbxMatched
<1>4. /\ sent[taken + 1] = ErrorText[errors + 1] => errors' = errors + 1
      /\ sent[taken + 1] # ErrorText[errors + 1] => errors' = 0
  BY <1>2 DEF Ack!ReadUbx, Ack!ErrorsNow
<1>5. CASE errors' = Len(ErrorText)
  <2>1. found' = "FrameErrors" /\ matched' = matched
    BY <1>5 DEF Ack!ReadUbx
  <2>2. Ack!AckFramesTypeOK'
    BY <1>1, <1>2, <1>3, <1>5, <2>1, AckConstants, AckReadTypes
  <2>3. errors' = errors + 1 /\ sent[taken + 1] = ErrorText[errors + 1]
    BY <1>4, <1>5, AckConstants
  <2>4. \A i \in 1 .. Len(ErrorText) : sent[taken - errors + i] = ErrorText[i]
    <3> SUFFICES ASSUME NEW i \in 1 .. Len(ErrorText) PROVE sent[taken - errors + i] = ErrorText[i]
      OBVIOUS
    <3>1. CASE i = errors + 1
      <4>1. taken - errors + i = taken + 1
        BY <1>2, <1>3, <3>1
      <4> QED
        BY <2>3, <3>1, <4>1, Zenon
    <3>2. CASE i # errors + 1
      BY <1>12, <1>3, <1>5, <2>3, <3>2, AckConstants
    <3> QED
      BY <3>1, <3>2
  <2>5. PICK n \in 0 .. taken' : n = taken - errors /\ n + Len(ErrorText) = taken'
    BY <1>2, <1>3, <1>5, <2>3, AckConstants
  <2>6. Ack!At(n, ErrorText)'
    BY <1>2, <2>4, <2>5 DEF Ack!At
  <2>7. Ack!WasRead(ErrorText)'
    BY <2>5, <2>6 DEF Ack!WasRead
  <2> QED
    BY <1>2, <2>1, <2>2, <2>7 DEF AckInv, Matched, UbxOnTrack, CasOnTrack, Ack!NoAnswerMadeUp
<1>6. CASE errors' # Len(ErrorText)
  <2>1. /\ good => matched' = matched + 1 /\ (matched = 9 => found' \in {"Ok", "None"})
                   /\ (matched # 9 => found' = "reading")
        /\ ~ good => matched' = 0 /\ found' = IF matched = 3 /\ sent[taken + 1] = "00"
                                             THEN "NotAck" ELSE "reading"
    BY <1>2, <1>6 DEF Ack!ReadUbx, Ack!MatchUbx, Ack!ErrorsNow
  <2> HIDE DEF good
  <2>2. Ack!AckFramesTypeOK'
    <3>1. found' \in {"reading", "Ok", "NotAck", "FrameErrors", "None"} /\ matched' \in 0 .. 14
      BY <1>3, <2>1
    <3>2. errors' \in 0 .. Len(ErrorText)
      BY <1>3, <1>4, AckConstants
    <3> QED
      BY <1>1, <1>2, <3>1, <3>2, AckReadTypes
  <2>3. \A i \in 1 .. errors' : sent[taken' - errors' + i] = ErrorText[i]
    <3>1. CASE errors' = 0
      BY <3>1
    <3>2. CASE errors' = errors + 1 /\ sent[taken + 1] = ErrorText[errors + 1]
      <4> SUFFICES ASSUME NEW i \in 1 .. errors + 1 PROVE sent[taken - errors + i] = ErrorText[i]
        BY <1>2, <1>3, <3>2
      <4>1. CASE i = errors + 1
        <5>1. taken - errors + i = taken + 1
          BY <1>2, <1>3, <4>1
        <5> QED
          BY <3>2, <4>1, <5>1, Zenon
      <4>2. CASE i # errors + 1
        BY <1>12, <1>3, <4>2
      <4> QED
        BY <4>1, <4>2
    <3> QED
      BY <1>4, <3>1, <3>2
  <2>4. errors' <= taken' /\ errors' < Len(ErrorText)
    BY <1>2, <1>3, <1>4, <1>6, AckConstants
  <2>5. good => \A i \in 1 .. matched + 1 : sent[taken - matched + i] = Ack!UbxAck[i]
    <3> SUFFICES ASSUME good, NEW i \in 1 .. matched + 1
                 PROVE  sent[taken - matched + i] = Ack!UbxAck[i]
      OBVIOUS
    <3>1. CASE i = matched + 1
      <4>1. taken - matched + i = taken + 1
        BY <1>2, <1>3, <3>1
      <4> QED
        BY <3>1, <4>1, Zenon DEF good
    <3>2. CASE i # matched + 1
      BY <1>11, <1>3, <3>2
    <3> QED
      BY <3>1, <3>2
  <2>6. found' = "reading" => UbxMatched'
    <3> SUFFICES ASSUME found' = "reading" PROVE UbxMatched'
      OBVIOUS
    <3>1. CASE good
      <4>1. matched' = matched + 1 /\ matched # 9 /\ taken' - matched' = taken - matched
        BY <1>2, <1>3, <2>1, <3>1
      <4>2. \A i \in 1 .. matched' : sent[taken' - matched' + i] = Ack!UbxAck[i]
        BY <2>5, <3>1, <4>1
      <4>3. matched' <= taken' /\ matched' < 10
        BY <1>2, <1>3, <4>1
      <4> QED
        BY <1>2, <2>3, <2>4, <4>2, <4>3 DEF UbxMatched
    <3>2. CASE ~ good
      <4>1. matched' = 0
        BY <2>1, <3>2
      <4>2. matched' <= taken' /\ matched' < 10
            /\ \A i \in 1 .. matched' : sent[taken' - matched' + i] = Ack!UbxAck[i]
        BY <1>2, <4>1
      <4> QED
        BY <1>2, <2>3, <2>4, <4>2 DEF UbxMatched
    <3> QED
      BY <3>1, <3>2
  <2>7. ASSUME found' = "Ok"
        PROVE  Ack!WasRead(Ack!UbxAck)'
    <3>1. good /\ matched = 9
      BY <2>1, <2>7
    <3>2. PICK n \in 0 .. taken' : n = taken - matched /\ n + 10 = taken'
      BY <1>2, <1>3, <3>1
    <3>3. \A i \in 1 .. 10 : sent[n + i] = Ack!UbxAck[i]
      <4>1. matched + 1 = 10 /\ taken - matched = n
        BY <3>1, <3>2
      <4> QED
        BY <2>5, <3>1, <4>1
    <3>4. Ack!At(n, Ack!UbxAck)'
      BY <1>2, <3>2, <3>3, AckConstants DEF Ack!At
    <3> QED
      BY <3>2, <3>4 DEF Ack!WasRead
  <2>8. ASSUME found' = "NotAck"
        PROVE  Ack!WasRead(Ack!UbxNak)'
    <3>1. matched = 3 /\ sent[taken + 1] = "00"
      BY <2>1, <2>8
    <3>2. PICK n \in 0 .. taken' : n = taken - matched /\ n + 4 = taken'
      BY <1>2, <1>3, <3>1
    <3>3. \A i \in 1 .. 3 : sent[n + i] = Ack!UbxNak[i]
      <4>1. \A i \in 1 .. 3 : sent[n + i] = Ack!UbxAck[i]
        BY <1>11, <3>1, <3>2
      <4> QED
        BY <4>1, AckConstants
    <3>4. sent[n + 4] = Ack!UbxNak[4]
      <4>1. n + 4 = taken + 1
        BY <1>2, <3>2
      <4>2. Ack!UbxNak[4] = "00"
        BY AckConstants
      <4> QED
        BY <3>1, <4>1, <4>2, Zenon
    <3>5. \A i \in 1 .. 4 : sent[n + i] = Ack!UbxNak[i]
      BY <3>3, <3>4
    <3>6. Ack!At(n, Ack!UbxNak)'
      BY <1>2, <3>2, <3>5, AckConstants DEF Ack!At
    <3> QED
      BY <3>2, <3>6 DEF Ack!WasRead
  <2>9. Ack!NoAnswerMadeUp'
    <3>1. found' # "FrameErrors"
      BY <1>3, <2>1
    <3> QED
      BY <1>2, <2>7, <2>8, <3>1 DEF Ack!NoAnswerMadeUp
  <2>10. UbxOnTrack'
    <3> SUFFICES ASSUME found' = "reading", NEW n \in 0 .. taken', UbxStands(n)', ~ UbxBegun(n)'
                 PROVE  taken' < n + 10 /\ matched' = taken' - n
      BY DEF UbxOnTrack
    <3>0. UbxStands(n) /\ ~ UbxBegun(n) /\ n \in 0 .. taken + 1
      BY <1>2 DEF UbxStands, UbxBegun
    <3>1. CASE n = taken + 1
      <4>1. matched' \in 0 .. 9 /\ matched' <= taken + 1
            /\ \A i \in 1 .. matched' : sent[n - matched' + i] = Ack!UbxAck[i]
        BY <1>2, <2>2, <2>6, <3>1 DEF UbxMatched, Ack!AckFramesTypeOK, Ack!CasSize
      <4>2. matched' \notin 1 .. 9
        BY <3>0, <3>1, <4>1 DEF UbxBegun
      <4> QED
        BY <1>2, <3>1, <4>1, <4>2
    <3>2. CASE n # taken + 1
      <4>1. n \in 0 .. taken /\ taken < n + 10 /\ matched = taken - n
        BY <1>2, <3>0, <3>2 DEF AckInv, UbxOnTrack
      <4>2. matched + 1 \in 1 .. 10 /\ n + (matched + 1) = taken + 1
        BY <1>2, <1>3, <4>1
      <4>3. good
        <5>1. sent[n + (matched + 1)] = Ack!UbxAck[matched + 1]
          BY <3>0, <4>2 DEF UbxStands
        <5> QED
          BY <4>2, <5>1, Zenon DEF good
      <4> QED
        BY <1>2, <1>3, <2>1, <4>1, <4>3
    <3> QED
      BY <3>1, <3>2
  <2> QED
    BY <1>2, <2>2, <2>6, <2>9, <2>10 DEF AckInv, Matched, CasOnTrack
<1> QED
  BY <1>5, <1>6

LEMMA AckReadMon ==
    ASSUME AckInv, Ack!ReadMon
    PROVE  AckInv'
<1>1. Ack!Reading("mon")
  BY DEF Ack!ReadMon
<1>2. /\ reader = "mon" /\ reader' = "mon" /\ found = "reading" /\ sent' = sent
      /\ taken \in Nat /\ taken + 1 \in 1 .. Len(sent) /\ Len(sent) \in Nat
      /\ Ack!Byte = sent[taken + 1]
  BY <1>1, ByteRead
<1>3. MonMatched /\ matched \in 0 .. 14
  BY <1>1, <1>2, ByteRead DEF AckInv, Matched
<1>4. matched \in 0 .. 5 /\ matched <= taken
  BY <1>3 DEF MonMatched
<1>5. \A i \in 1 .. matched : i <= 4 => sent[taken - matched + i] = Ack!MonHead[i]
  BY <1>3 DEF MonMatched
<1>6. \/ /\ matched < 4 /\ taken' = taken + 1 /\ found' = "reading"
         /\ \/ matched' = matched + 1 /\ sent[taken + 1] = Ack!MonHead[matched + 1]
            \/ matched' = 0
      \/ matched = 4 /\ matched' = 5 /\ found' = "reading" /\ taken' = taken + 1
      \/ /\ matched = 5 /\ matched' = 0 /\ found' \in {"Ok", "reading"} /\ taken' \in taken + 1 .. Len(sent)
         /\ found' = "Ok" => sent[taken + 1] = "00"
  BY <1>2 DEF Ack!ReadMon
<1>7. taken' \in 0 .. Len(sent) /\ taken' >= taken + 1 /\ taken' \in Nat
  BY <1>2, <1>6
<1>8. found' \in {"Ok", "reading"} /\ matched' \in 0 .. 5
  BY <1>4, <1>6
<1>9. Ack!AckFramesTypeOK'
  <2>1. errors' \in 0 .. Len(ErrorText)
    BY <1>1, ByteRead DEF Ack!ReadMon
  <2> QED
    BY <1>1, <1>7, <1>8, <2>1, AckReadTypes
<1>10. MonMatched'
  <2>1. CASE matched < 4 /\ matched' = matched + 1 /\ sent[taken + 1] = Ack!MonHead[matched + 1]
             /\ taken' = taken + 1
    <3>1. ASSUME NEW i \in 1 .. matched + 1
          PROVE  sent[taken - matched + i] = Ack!MonHead[i]
      <4>1. CASE i = matched + 1
        <5>1. taken - matched + i = taken + 1
          BY <1>2, <1>4, <4>1
        <5> QED
          BY <2>1, <4>1, <5>1, Zenon
      <4>2. CASE i # matched + 1
        BY <1>4, <1>5, <2>1, <4>2
      <4> QED
        BY <4>1, <4>2
    <3>2. taken' - matched' = taken - matched /\ matched' <= taken' /\ matched' <= 5
      BY <1>2, <1>4, <2>1
    <3> QED
      BY <1>2, <2>1, <3>1, <3>2 DEF MonMatched
  <2>2. CASE matched = 4 /\ matched' = 5 /\ taken' = taken + 1
    <3>1. taken' - matched' = taken - matched /\ matched' <= taken'
      BY <1>2, <1>4, <2>2
    <3>2. ASSUME NEW i \in 1 .. 5, i <= 4
          PROVE  sent[taken - matched + i] = Ack!MonHead[i]
      BY <1>5, <2>2, <3>2
    <3> QED
      BY <1>2, <2>2, <3>1, <3>2 DEF MonMatched
  <2>3. CASE matched' = 0
    BY <1>7, <2>3 DEF MonMatched
  <2> QED
    BY <1>6, <2>1, <2>2, <2>3
<1>11. ASSUME found' = "Ok"
       PROVE  Ack!MonHeadWasRead'
  <2>1. matched = 5 /\ sent[taken + 1] = "00"
    BY <1>6, <1>11
  <2>2. PICK n \in 0 .. taken' : n = taken - 5
    BY <1>2, <1>4, <1>7, <2>1
  <2>3. n + 4 <= taken' /\ n + 6 <= taken'
    BY <1>2, <1>7, <2>2
  <2>4. sent[n + 6] = "00"
    <3>1. n + 6 = taken + 1
      BY <1>2, <2>2
    <3> QED
      BY <2>1, <3>1, Zenon
  <2>5. \A i \in 1 .. 4 : sent[n + i] = Ack!MonHead[i]
    <3> SUFFICES ASSUME NEW i \in 1 .. 4 PROVE sent[n + i] = Ack!MonHead[i]
      OBVIOUS
    <3>1. taken - matched = n /\ i \in 1 .. matched /\ i <= 4
      BY <2>1, <2>2
    <3>2. sent[taken - matched + i] = Ack!MonHead[i]
      BY <1>5, <3>1
    <3> QED
      BY <3>1, <3>2, Zenon
  <2>6. Ack!At(n, Ack!MonHead)'
    BY <1>2, <2>3, <2>5, AckConstants DEF Ack!At
  <2> QED
    BY <1>2, <2>3, <2>4, <2>6 DEF Ack!MonHeadWasRead
<1>12. Ack!NoAnswerMadeUp'
  BY <1>2, <1>8, <1>11 DEF Ack!NoAnswerMadeUp
<1> QED
  BY <1>2, <1>9, <1>10, <1>12 DEF AckInv, Matched, UbxOnTrack, CasOnTrack

LEMMA AckTimeout ==
    ASSUME AckInv, Ack!Timeout
    PROVE  AckInv'
<1>1. /\ reader' = reader /\ sent' = sent /\ taken' = taken /\ matched' = matched
      /\ errors' = errors /\ found' = "None"
  BY DEF Ack!Timeout
<1>2. Ack!AckFramesTypeOK'
  BY <1>1 DEF AckInv, Ack!AckFramesTypeOK
<1> QED
  BY <1>1, <1>2 DEF AckInv, Matched, UbxOnTrack, CasOnTrack, Ack!NoAnswerMadeUp

LEMMA AckReadCas ==
    ASSUME AckInv, Ack!ReadCas
    PROVE  AckInv'
<1> DEFINE b == sent[taken + 1]
           stored == [casBuffer EXCEPT ![matched] = b]
           wrong == matched = 1 /\ ~ (stored[0] = "BA" /\ stored[1] = "CE")
           full == ~ wrong /\ matched = 12
           mine == stored[4] = "05" /\ stored[6] = "cl" /\ stored[7] = "id"
<1>1. Ack!Reading("cas")
  BY DEF Ack!ReadCas
<1>2. /\ reader = "cas" /\ reader' = "cas" /\ found = "reading" /\ sent' = sent
      /\ taken \in Nat /\ taken + 1 \in 1 .. Len(sent) /\ taken' = taken + 1
      /\ Len(sent) \in Nat /\ Ack!Byte = b /\ Ack!CasSize = 14 /\ taken' \in Nat
  BY <1>1, ByteRead DEF Ack!ReadCas, Ack!CasSize
<1>3. /\ matched \in 0 .. 12 /\ matched <= taken
      /\ casBuffer = [n \in 0 .. 13 |-> IF n < matched THEN sent[taken - matched + n + 1] ELSE "00"]
      /\ matched >= 2 => casBuffer[0] = "BA" /\ casBuffer[1] = "CE"
  <2>1. CasMatched /\ matched \in 0 .. 14
    BY <1>1, <1>2, ByteRead DEF AckInv, Matched
  <2> QED
    BY <2>1 DEF CasMatched
<1>4. /\ wrong => /\ matched' = 1 /\ found' = "reading"
                  /\ casBuffer' = [stored EXCEPT ![0] = b, ![1] = "00"]
      /\ full => /\ matched' = 0 /\ casBuffer' = [n \in 0 .. 13 |-> "00"]
                 /\ found' = "Ok" => mine /\ stored[5] = "01"
                 /\ found' = "NotAck" => mine /\ stored[5] = "00"
                 /\ mine /\ stored[5] = "01" => found' = "Ok"
                 /\ found' \in {"reading", "Ok", "NotAck"}
      /\ ~ wrong /\ ~ full => matched' = matched + 1 /\ casBuffer' = stored /\ found' = "reading"
  <2> DEFINE s == Ack!CasStore(Ack!Byte)
  <2>1. /\ wrong => s = [buffer |-> [stored EXCEPT ![0] = b, ![1] = "00"], pos |-> 1]
        /\ ~ wrong => s = [buffer |-> stored, pos |-> matched + 1]
    BY <1>2 DEF Ack!CasStore
  <2>2. LET m == s.buffer[4] = "05" /\ s.buffer[6] = "cl" /\ s.buffer[7] = "id"
        IN  /\ matched' = IF s.pos = 13 THEN 0 ELSE s.pos
            /\ casBuffer' = IF s.pos = 13 THEN [n \in 0 .. 13 |-> "00"] ELSE s.buffer
            /\ found' = CASE s.pos = 13 /\ m /\ s.buffer[5] = "01" -> "Ok"
                          [] s.pos = 13 /\ m /\ s.buffer[5] = "00" -> "NotAck"
                          [] OTHER -> "reading"
    BY <1>2 DEF Ack!ReadCas, Ack!CasSize
  <2> HIDE DEF s, stored
  <2>3. CASE wrong
    <3>1. s.pos = 1 /\ s.buffer = [stored EXCEPT ![0] = b, ![1] = "00"]
      BY <2>1, <2>3
    <3> QED
      BY <2>2, <2>3, <3>1
  <2>4. CASE ~ wrong /\ matched # 12
    BY <1>3, <2>1, <2>2, <2>4
  <2>5. CASE ~ wrong /\ matched = 12
    <3>1. s.pos = 13 /\ s.buffer = stored
      BY <2>1, <2>5
    <3> QED
      BY <2>2, <2>5, <3>1
  <2> QED
    BY <2>3, <2>4, <2>5
<1>5. /\ DOMAIN casBuffer = 0 .. 13
      /\ \A n \in 0 .. 13 : casBuffer[n] =
            IF n < matched THEN sent[taken - matched + n + 1] ELSE "00"
  BY <1>3
(* What is stored are the bytes read last. *)
<1>6. /\ stored = [n \in 0 .. 13 |-> IF n = matched THEN b ELSE casBuffer[n]]
      /\ \A n \in 0 .. matched : stored[n] = sent[taken - matched + n + 1]
  <2>1. stored = [n \in 0 .. 13 |-> IF n = matched THEN b ELSE casBuffer[n]]
    BY <1>5
  <2>2. ASSUME NEW n \in 0 .. matched
        PROVE  stored[n] = sent[taken - matched + n + 1]
    <3>1. n \in 0 .. 13 /\ (n = matched => taken - matched + n + 1 = taken + 1)
      BY <1>2, <1>3
    <3> HIDE DEF b, stored
    <3>2. CASE n = matched
      <4>1. stored[n] = b
        BY <2>1, <3>1, <3>2
      <4> QED
        BY <3>1, <3>2, <4>1, Zenon DEF b
    <3>3. CASE n # matched
      BY <1>3, <1>5, <2>1, <3>1, <3>3
    <3> QED
      BY <3>2, <3>3
  <2> QED
    BY <2>1, <2>2
<1>7. matched # 0 => (wrong <=> matched = 1 /\ ~ (sent[taken] = "BA" /\ b = "CE"))
  <2>1. ASSUME matched = 1
        PROVE  stored[0] = sent[taken] /\ stored[1] = b
    <3>1. taken - matched + 0 + 1 = taken /\ taken - matched + 1 + 1 = taken + 1
      BY <1>2, <2>1
    <3> HIDE DEF stored
    <3> QED
      BY <1>6, <2>1, <3>1
  <2> QED
    BY <2>1
<1> HIDE DEF b, stored, wrong, full
<1>8. Ack!AckFramesTypeOK'
  <2>1. matched' \in 0 .. 14 /\ found' \in {"reading", "Ok", "NotAck", "FrameErrors", "None"}
    BY <1>3, <1>4
  <2>2. errors' \in 0 .. Len(ErrorText) /\ taken' \in 0 .. Len(sent)
    BY <1>1, <1>2, ByteRead DEF Ack!ReadCas
  <2> QED
    BY <1>1, <2>1, <2>2, AckReadTypes
<1>9. found' = "reading" => CasMatched'
  <2>1. CASE wrong
    <3>1. casBuffer' = [n \in 0 .. 13 |-> IF n < 1 THEN b ELSE "00"]
      <4>1. matched = 1
        BY <2>1 DEF wrong
      <4>2. casBuffer' = [n \in 0 .. 13 |-> IF n = 0 THEN b ELSE IF n = 1 THEN "00" ELSE stored[n]]
        BY <1>4, <1>6, <2>1
      <4>3. \A n \in 2 .. 13 : stored[n] = "00"
        BY <1>5, <1>6, <4>1
      <4> QED
        BY <4>2, <4>3
    <3>2. \A n \in 0 .. 13 : n < 1 => taken' - 1 + n + 1 = taken + 1
      BY <1>2
    <3>3. casBuffer' = [n \in 0 .. 13 |-> IF n < 1 THEN sent[taken' - 1 + n + 1] ELSE "00"]
      BY <3>1, <3>2 DEF b
    <3> QED
      BY <1>2, <1>4, <2>1, <3>3 DEF CasMatched
  <2>2. CASE full
    <3>1. matched' = 0 /\ casBuffer' = [n \in 0 .. 13 |-> "00"]
      BY <1>4, <2>2
    <3>2. casBuffer' = [n \in 0 .. 13 |-> IF n < 0 THEN sent[taken' - 0 + n + 1] ELSE "00"]
      BY <3>1
    <3> QED
      BY <1>2, <3>1, <3>2 DEF CasMatched
  <2>3. CASE ~ wrong /\ ~ full
    <3>1. matched' = matched + 1 /\ casBuffer' = stored /\ matched < 12
          /\ taken' - matched' = taken - matched
      BY <1>2, <1>3, <1>4, <2>3 DEF full
    <3>2. \A n \in 0 .. 13 : stored[n] = IF n < matched + 1 THEN sent[taken - matched + n + 1]
                                         ELSE "00"
      BY <1>3, <1>5, <1>6
    <3>3. stored = [n \in 0 .. 13 |-> IF n < matched + 1 THEN sent[taken - matched + n + 1]
                                      ELSE "00"]
      BY <1>6, <3>2
    <3>4. matched' >= 2 => stored[0] = "BA" /\ stored[1] = "CE"
      <4>1. CASE matched = 1
        BY <2>3, <4>1 DEF wrong
      <4>2. CASE matched >= 2
        BY <1>3, <1>6, <4>2
      <4> QED
        BY <1>3, <3>1, <4>1, <4>2
    <3> QED
      BY <1>2, <1>3, <3>1, <3>3, <3>4 DEF CasMatched
  <2> QED
    BY <2>1, <2>2, <2>3
(* A frame that is full and asked for was read as it is taken. *)
<1>10. ASSUME full, mine, NEW c, c = stored[5]
       PROVE  \E n \in 0 .. taken' : Ack!CasAt(n, c)'
  <2>1. matched = 12 /\ taken >= 12
    BY <1>3, <1>10 DEF full
  <2>2. PICK n \in 0 .. taken' : n = taken - 12
    BY <1>2, <2>1
  <2>3. ASSUME NEW i \in 0 .. 12
        PROVE  stored[i] = sent[n + (i + 1)]
    <3>1. taken - matched + i + 1 = n + (i + 1)
      BY <1>2, <2>1, <2>2
    <3>2. stored[i] = sent[taken - matched + i + 1]
      BY <1>6, <2>1
    <3> QED
      BY <3>1, <3>2, Zenon
  <2>4. stored[0] = "BA" /\ stored[1] = "CE"
    <3>1. 0 # matched /\ 1 # matched /\ matched >= 2
      BY <2>1
    <3> QED
      BY <1>3, <1>6, <3>1
  <2>5. /\ sent[n + 1] = "BA" /\ sent[n + 2] = "CE" /\ sent[n + 5] = "05"
        /\ sent[n + 6] = c /\ sent[n + 7] = "cl" /\ sent[n + 8] = "id"
    BY <1>10, <2>3, <2>4
  <2>6. n + 2 <= taken' /\ n + 13 <= taken'
    BY <1>2, <2>2
  <2>8. Ack!At(n, <<"BA", "CE">>)'
    BY <1>2, <2>5, <2>6 DEF Ack!At
  <2> QED
    BY <1>2, <2>5, <2>6, <2>8 DEF Ack!CasAt, Ack!CasSize
<1>12. Ack!NoAnswerMadeUp'
  <2>1. found' = "Ok" => \E n \in 0 .. taken' : Ack!CasAt(n, "01")'
    BY <1>4, <1>10 DEF full
  <2>2. found' = "NotAck" => \E n \in 0 .. taken' : Ack!CasAt(n, "00")'
    BY <1>4, <1>10 DEF full
  <2>3. found' # "FrameErrors"
    BY <1>4
  <2> QED
    BY <1>2, <2>1, <2>2, <2>3 DEF Ack!NoAnswerMadeUp
<1>13. CasOnTrack'
  <2> SUFFICES ASSUME found' = "reading", NEW n \in 0 .. taken, CasStands(n), ~ CasBegun(n)
               PROVE  taken + 1 < n + 13 /\ matched' = taken + 1 - n
    <3> SUFFICES ASSUME found' = "reading", NEW n \in 0 .. taken' - 1, CasStands(n)', ~ CasBegun(n)'
                 PROVE  taken' < n + 13 /\ matched' = taken' - n
      BY DEF CasOnTrack
    <3>1. CasStands(n) /\ ~ CasBegun(n) /\ n \in 0 .. taken
      BY <1>2 DEF CasStands, CasBegun, HeadStands
    <3> QED
      BY <1>2, <3>1
  <2>1. CASE n = taken
    <3>1. b = "BA"
      BY <2>1 DEF b, CasStands, HeadStands
    <3>2. CASE matched = 0
      <4>1. ~ wrong /\ ~ full
        BY <3>2 DEF wrong, full
      <4> QED
        BY <1>2, <1>4, <2>1, <3>2, <4>1
    <3>3. CASE matched = 1
      <4>1. wrong
        BY <1>7, <3>1, <3>3
      <4> QED
        BY <1>2, <1>4, <2>1, <4>1
    <3>4. CASE matched >= 2
      <4>1. HeadStands(n - matched)
        <5>1. casBuffer[0] = "BA" /\ casBuffer[1] = "CE"
          BY <1>3, <3>4
        <5>2. 0 \in 0 .. 13 /\ 1 \in 0 .. 13 /\ 0 < matched /\ 1 < matched
              /\ taken - matched + 0 + 1 = n - matched + 1 /\ taken - matched + 1 + 1 = n - matched + 2
          BY <1>2, <1>3, <2>1, <3>4
        <5>3. casBuffer[0] = sent[taken - matched + 0 + 1] /\ casBuffer[1] = sent[taken - matched + 1 + 1]
          BY <1>5, <5>2
        <5> QED
          BY <5>1, <5>2, <5>3, Zenon DEF HeadStands
      <4>2. matched \in 2 .. 12 /\ matched <= n
        BY <1>3, <2>1, <3>4
      <4> QED
        BY <4>1, <4>2 DEF CasBegun
    <3> QED
      BY <1>3, <3>2, <3>3, <3>4
  <2>2. CASE n # taken
    <3>1. n \in 0 .. taken - 1 /\ taken < n + 13 /\ matched = taken - n
      BY <1>2, <2>2 DEF AckInv, CasOnTrack
    <3>2. ~ wrong
      <4> SUFFICES ASSUME wrong PROVE FALSE
        OBVIOUS
      <4>1. matched = 1 /\ taken = n + 1 /\ taken + 1 = n + 2
        BY <1>2, <3>1 DEF wrong
      <4>2. sent[taken] = "BA" /\ b = "CE"
        BY <4>1, Zenon DEF CasStands, HeadStands, b
      <4> QED
        BY <1>7, <4>1, <4>2
    <3>3. ~ full
      <4> SUFFICES ASSUME full PROVE FALSE
        OBVIOUS
      <4>1. matched = 12 /\ taken - matched = n
        BY <1>2, <3>1 DEF full
      <4>2. \A i \in 0 .. 12 : stored[i] = sent[n + (i + 1)]
        <5> SUFFICES ASSUME NEW i \in 0 .. 12 PROVE stored[i] = sent[n + (i + 1)]
          OBVIOUS
        <5>1. taken - matched + i + 1 = n + (i + 1) /\ i \in 0 .. matched
          BY <1>2, <3>1, <4>1
        <5> QED
          BY <1>6, <5>1
      <4>3. stored[4] = sent[n + 5] /\ stored[5] = sent[n + 6] /\ stored[6] = sent[n + 7]
            /\ stored[7] = sent[n + 8]
        BY <4>2
      <4>4. mine /\ stored[5] = "01"
        BY <4>3 DEF CasStands
      <4> QED
        BY <1>4, <4>4
    <3> QED
      BY <1>2, <1>3, <1>4, <3>1, <3>2, <3>3 DEF full
  <2> QED
    BY <2>1, <2>2
<1> QED
  BY <1>2, <1>8, <1>9, <1>12, <1>13 DEF AckInv, Matched, UbxOnTrack

LEMMA AckInvHolds == Ack!Spec => []AckInv
<1>1. AckInv /\ [Ack!Next]_(Ack!vars) => AckInv'
  BY AckStutters, AckReadUbx, AckReadMon, AckReadCas, AckTimeout DEF Ack!Next
<1> QED
  BY <1>1, AckBegins, PTL DEF Ack!Spec

LEMMA AckSafe == AckInv => Ack!NoAnswerMadeUp /\ Ack!NoAnswerMissed
<1> SUFFICES ASSUME AckInv, found = "reading" PROVE Ack!NoAnswerMissed
  BY DEF AckInv, Ack!NoAnswerMissed
<1>1. /\ taken \in Nat /\ Len(sent) \in Nat /\ taken <= Len(sent) /\ Ack!CasSize = 14
  BY SentType DEF AckInv, Ack!CasSize
<1>2. ASSUME reader = "ubx", NEW n \in 0 .. taken, Ack!At(n, Ack!UbxAck)
      PROVE  \E k \in 1 .. 9 : k <= n /\ Ack!At(n - k, SubSeq(Ack!UbxAck, 1, k))
  <2>1. n + 10 <= taken /\ \A i \in 1 .. 10 : sent[n + i] = Ack!UbxAck[i]
    BY <1>2, AckConstants DEF Ack!At
  <2>2. UbxStands(n)
    BY <1>1, <2>1 DEF UbxStands
  <2>3. UbxBegun(n)
    BY <1>1, <1>2, <2>1, <2>2 DEF AckInv, UbxOnTrack
  <2>4. PICK k \in 1 .. 9 : k <= n /\ \A i \in 1 .. k : sent[n - k + i] = Ack!UbxAck[i]
    BY <2>3 DEF UbxBegun
  <2>5. Len(SubSeq(Ack!UbxAck, 1, k)) = k /\ \A i \in 1 .. k : SubSeq(Ack!UbxAck, 1, k)[i] = Ack!UbxAck[i]
    <3>1. Ack!UbxAck \in Seq({"B5", "62", "05", "01", "02", "00", "cl", "id", "ck"})
      BY DEF Ack!UbxAck
    <3> QED
      BY <3>1, AckConstants
  <2>6. n - k + k <= taken
    BY <1>1, <2>1
  <2>7. Ack!At(n - k, SubSeq(Ack!UbxAck, 1, k))
    BY <2>4, <2>5, <2>6 DEF Ack!At
  <2> QED
    BY <2>4, <2>7
<1>3. ASSUME reader = "cas", NEW n \in 0 .. taken, Ack!CasAt(n, "01")
      PROVE  \E k \in 2 .. 12 : k <= n /\ Ack!At(n - k, <<"BA", "CE">>)
  <2>1. /\ n + 13 <= taken /\ HeadStands(n)
        /\ sent[n + 5] = "05" /\ sent[n + 6] = "01" /\ sent[n + 7] = "cl" /\ sent[n + 8] = "id"
    BY <1>1, <1>3 DEF Ack!CasAt, Ack!At, HeadStands
  <2>2. CasStands(n) /\ n \in 0 .. taken - 1
    BY <1>1, <2>1 DEF CasStands
  <2>3. CasBegun(n)
    BY <1>1, <1>3, <2>1, <2>2 DEF AckInv, CasOnTrack
  <2>4. PICK k \in 2 .. 12 : k <= n /\ HeadStands(n - k)
    BY <2>3 DEF CasBegun
  <2>5. n - k + 2 <= taken
    BY <1>1, <2>1, <2>4
  <2>6. Ack!At(n - k, <<"BA", "CE">>)
    BY <2>4, <2>5 DEF Ack!At, HeadStands
  <2> QED
    BY <2>4, <2>6
<1> QED
  BY <1>1, <1>2, <1>3 DEF Ack!NoAnswerMissed

LEMMA PartsAreAck == PartsSpec => Ack!Spec
<1>1. [PartsNext]_allVars => [Ack!Next]_(Ack!vars)
  BY DEF PartsNext, Rest, allVars, ackVars, Ack!vars
<1> QED
  BY <1>1, PTL DEF PartsSpec, PartsInit, Ack!Spec

(* No answer of a GPS receiver is made up, and none is missed but one of u-blox directly
   behind the beginning of another or one of CASIC in the 13 bytes behind a header, for
   any bytes that the receiver sends and any text of errors (getAck(), getACKCas()).   *)
THEOREM AnswersAreSent == PartsSpec => [](Ack!NoAnswerMadeUp /\ Ack!NoAnswerMissed)
BY AckSafe, PartsAreAck, AckInvHolds, PTL

-----------------------------------------------------------------------------
(* The calculator.  Its keys, and the states of infixToRPN() and evaluateRPN().     *)
Ops == Calc!Operators \cup {"("}
Tokens == [isNumber : {TRUE}, value : Nat] \cup [isNumber : {FALSE}, value : Ops]
RPN == [ops : Seq(Ops), out : Seq(Tokens), inNumber : BOOLEAN, popsEmpty : BOOLEAN]
Scans == {s \in RPN : s.inNumber => s.out # <<>> /\ s.out[Len(s.out)].isNumber}
Fractions == Int \X Int
Evals == [values : Seq(Fractions), gaveUp : BOOLEAN]

LEMMA NumeralKeys ==
    /\ \A i \in 1 .. 10 : Calc!Numerals[i] \notin Ops \cup {")"}
    /\ \A key : Calc!IsDigit(key) => Calc!DigitOf(key) \in Nat
<1>1. ASSUME NEW i \in 1 .. 10
      PROVE  Calc!Numerals[i] \notin Ops \cup {")"}
  <2>1. i \in {1, 2, 3, 4, 5, 6, 7, 8, 9, 10}
    OBVIOUS
  <2> QED
    BY <2>1 DEF Calc!Numerals, Ops, Calc!Operators
<1>2. ASSUME NEW key, Calc!IsDigit(key)
      PROVE  Calc!DigitOf(key) \in Nat
  <2> DEFINE P(i) == i \in 1 .. 10 /\ Calc!Numerals[i] = key
             d == CHOOSE i \in 1 .. 10 : Calc!Numerals[i] = key
  <2>1. d \in 1 .. 10
    BY <1>2 DEF Calc!IsDigit
  <2>2. Calc!DigitOf(key) = d - 1
    BY DEF Calc!DigitOf
  <2> HIDE DEF d
  <2> QED
    BY <2>1, <2>2
<1> QED
  BY <1>1, <1>2

LEMMA KeyKinds ==
    ASSUME NEW key \in Keys
    PROVE  /\ Calc!IsDigit(key) \/ key \in Calc!Operators \/ key = "(" \/ key = ")"
           /\ Calc!IsDigit(key) => key \notin Ops /\ key # ")"
           /\ "(" \notin Calc!Operators /\ ")" \notin Ops
<1>1. Calc!IsDigit(key) => key \notin Ops \cup {")"}
  BY NumeralKeys DEF Calc!IsDigit
<1> QED
  BY <1>1, InstanceParameters DEF Calc!CalculatorParameters, Ops, Calc!Operators

LEMMA StayExists ==
    ASSUME NEW O, NEW ops \in Seq(O), NEW stops
    PROVE  \E k \in 0 .. Len(ops) :
               /\ k # 0 => ops[k] \in stops
               /\ \A j \in k + 1 .. Len(ops) : ops[j] \notin stops
<1> DEFINE P(n) == \E k \in 0 .. n : /\ k # 0 => ops[k] \in stops
                                     /\ \A j \in k + 1 .. n : ops[j] \notin stops
           T == {n \in 0 .. Len(ops) : P(n)}
<1>1. 0 \in T
  OBVIOUS
<1>2. ASSUME NEW n \in 1 .. Len(ops), n - 1 \in T PROVE n \in T
  <2>1. CASE ops[n] \in stops
    BY <2>1
  <2>2. CASE ops[n] \notin stops
    <3>1. PICK k \in 0 .. n - 1 : /\ k # 0 => ops[k] \in stops
                                  /\ \A j \in k + 1 .. n - 1 : ops[j] \notin stops
      BY <1>2
    <3>2. \A j \in k + 1 .. n : ops[j] \notin stops
      BY <2>2, <3>1
    <3> QED
      BY <3>1, <3>2
  <2> QED
    BY <2>1, <2>2
<1>3. 0 .. Len(ops) \subseteq T
  <2>1. Len(ops) \in Nat
    OBVIOUS
  <2> HIDE DEF T, P
  <2> QED
    BY <1>1, <1>2, <2>1, UpTo
<1> QED
  BY <1>3

LEMMA StayIs ==
    ASSUME NEW O, NEW ops \in Seq(O), NEW stops
    PROVE  /\ Calc!Stay(ops, stops) \in 0 .. Len(ops)
           /\ Calc!Stay(ops, stops) # 0 => ops[Calc!Stay(ops, stops)] \in stops
           /\ \A j \in Calc!Stay(ops, stops) + 1 .. Len(ops) : ops[j] \notin stops
<1> DEFINE P(k) == /\ k # 0 => ops[k] \in stops
                   /\ \A j \in k + 1 .. Len(ops) : ops[j] \notin stops
           c == CHOOSE k \in 0 .. Len(ops) : P(k)
<1>1. \E k \in 0 .. Len(ops) : P(k)
  BY StayExists
<1>2. c \in 0 .. Len(ops) /\ P(c)
  <2> HIDE DEF P
  <2> QED
    BY <1>1
<1>3. Calc!Stay(ops, stops) = c
  BY DEF Calc!Stay
<1> QED
  BY <1>2, <1>3

LEMMA StayAt ==
    ASSUME NEW O, NEW ops \in Seq(O), NEW stops, NEW k \in 0 .. Len(ops),
           k # 0 => ops[k] \in stops,
           \A j \in k + 1 .. Len(ops) : ops[j] \notin stops
    PROVE  Calc!Stay(ops, stops) = k
<1> DEFINE c == Calc!Stay(ops, stops)
<1>1. /\ c \in 0 .. Len(ops)
      /\ c # 0 => ops[c] \in stops
      /\ \A j \in c + 1 .. Len(ops) : ops[j] \notin stops
  BY StayIs
<1> HIDE DEF c
<1>2. ~ c < k
  BY <1>1
<1>3. ~ k < c
  BY <1>1
<1> QED
  BY <1>1, <1>2, <1>3 DEF c

(* Moving operators to the output, one at a time. *)
LEMMA UnstackType ==
    ASSUME NEW s \in RPN, NEW keep \in 0 .. Len(s.ops)
    PROVE  /\ Calc!Unstack(s, keep) \in RPN
           /\ Calc!Unstack(s, keep).ops = SubSeq(s.ops, 1, keep)
           /\ Calc!Unstack(s, keep).inNumber = s.inNumber
           /\ Calc!Unstack(s, keep).popsEmpty = s.popsEmpty
<1>1. /\ s.ops \in Seq(Ops) /\ s.out \in Seq(Tokens)
      /\ s.inNumber \in BOOLEAN /\ s.popsEmpty \in BOOLEAN
      /\ DOMAIN s = {"ops", "out", "inNumber", "popsEmpty"}
  BY DEF RPN
<1> DEFINE n == Len(s.ops) - keep
           moved == [i \in 1 .. n |-> Calc!Operator(s.ops[Len(s.ops) + 1 - i])]
<1>2. n \in Nat
  BY <1>1
<1>3. ASSUME NEW i \in 1 .. n
      PROVE  Calc!Operator(s.ops[Len(s.ops) + 1 - i]) \in Tokens
  <2>1. Len(s.ops) + 1 - i \in 1 .. Len(s.ops)
    BY <1>1
  <2>2. s.ops[Len(s.ops) + 1 - i] \in Ops
    BY <1>1, <2>1
  <2> QED
    BY <2>2 DEF Calc!Operator, Tokens
<1>4. moved \in Seq(Tokens)
  <2> HIDE DEF n
  <2> QED
    BY <1>2, <1>3
<1>5. SubSeq(s.ops, 1, keep) \in Seq(Ops) /\ s.out \o moved \in Seq(Tokens)
  <2> HIDE DEF moved
  <2> QED
    BY <1>1, <1>4
<1>6. Calc!Unstack(s, keep) = [s EXCEPT !.ops = SubSeq(s.ops, 1, keep), !.out = s.out \o moved]
  BY DEF Calc!Unstack
<1> HIDE DEF moved
<1> QED
  BY <1>1, <1>5, <1>6 DEF RPN

LEMMA UnstackNone ==
    ASSUME NEW s \in RPN
    PROVE  Calc!Unstack(s, Len(s.ops)).out = s.out
<1>1. s.ops \in Seq(Ops) /\ s.out \in Seq(Tokens)
      /\ DOMAIN s = {"ops", "out", "inNumber", "popsEmpty"}
  BY DEF RPN
<1> DEFINE moved == [i \in 1 .. Len(s.ops) - Len(s.ops) |->
                       Calc!Operator(s.ops[Len(s.ops) + 1 - i])]
<1>2. moved = <<>>
  BY <1>1
<1>3. Calc!Unstack(s, Len(s.ops)).out = s.out \o moved
  BY <1>1 DEF Calc!Unstack
<1> HIDE DEF moved
<1> QED
  BY <1>1, <1>2, <1>3

LEMMA UnstackLess ==
    ASSUME NEW s \in RPN, NEW keep \in 1 .. Len(s.ops)
    PROVE  Calc!Unstack(s, keep - 1).out =
               Append(Calc!Unstack(s, keep).out, Calc!Operator(s.ops[keep]))
<1>1. s.ops \in Seq(Ops) /\ s.out \in Seq(Tokens)
      /\ DOMAIN s = {"ops", "out", "inNumber", "popsEmpty"}
  BY DEF RPN
<1> DEFINE Moved(k) == [i \in 1 .. Len(s.ops) - k |->
                          Calc!Operator(s.ops[Len(s.ops) + 1 - i])]
           n == Len(s.ops) - keep
<1>2. /\ Calc!Unstack(s, keep).out = s.out \o Moved(keep)
      /\ Calc!Unstack(s, keep - 1).out = s.out \o Moved(keep - 1)
  BY <1>1 DEF Calc!Unstack
<1>3. n \in Nat /\ Len(s.ops) - (keep - 1) = n + 1 /\ Len(s.ops) + 1 - (n + 1) = keep
  BY <1>1
<1>4. Moved(keep - 1) = [i \in 1 .. n + 1 |-> Calc!Operator(s.ops[Len(s.ops) + 1 - i])]
  BY <1>3, Zenon
<1> DEFINE S == {Calc!Operator(s.ops[Len(s.ops) + 1 - i]) : i \in 1 .. n + 1}
<1>5. /\ Moved(keep) \in Seq(S) /\ Len(Moved(keep)) = n
      /\ Moved(keep - 1) \in Seq(S) /\ Len(Moved(keep - 1)) = n + 1
      /\ Calc!Operator(s.ops[keep]) \in S
  <2>1. Moved(keep - 1) \in [1 .. n + 1 -> S]
    BY <1>4
  <2>2. Moved(keep) \in [1 .. n -> S]
    BY <1>3
  <2>3. n + 1 \in 1 .. n + 1
    BY <1>3
  <2>4. Calc!Operator(s.ops[keep]) \in S
    BY <1>3, <2>3
  <2> HIDE DEF Moved, n, S
  <2> QED
    BY <1>3, <2>1, <2>2, <2>4
<1>6. /\ \A i \in 1 .. n : Moved(keep - 1)[i] = Moved(keep)[i]
      /\ Moved(keep - 1)[n + 1] = Calc!Operator(s.ops[keep])
  <2>1. ASSUME NEW i \in 1 .. n
        PROVE  Moved(keep - 1)[i] = Moved(keep)[i]
    <3>1. i \in 1 .. n + 1
      BY <1>3
    <3> QED
      BY <1>4, <3>1
  <2>2. n + 1 \in 1 .. n + 1
    BY <1>3
  <2>3. Moved(keep - 1)[n + 1] = Calc!Operator(s.ops[keep])
    BY <1>3, <1>4, <2>2
  <2> QED
    BY <2>1, <2>3
<1>7. Moved(keep - 1) = Append(Moved(keep), Calc!Operator(s.ops[keep]))
  <2> HIDE DEF Moved, n, S
  <2> QED
    BY <1>3, <1>5, <1>6, SMTT(30)
<1>8. Moved(keep) \in Seq(Tokens) /\ Calc!Operator(s.ops[keep]) \in Tokens
  <2>1. ASSUME NEW i \in 1 .. n
        PROVE  Calc!Operator(s.ops[Len(s.ops) + 1 - i]) \in Tokens
    <3>1. Len(s.ops) + 1 - i \in 1 .. Len(s.ops)
      BY <1>1, <1>3
    <3>2. s.ops[Len(s.ops) + 1 - i] \in Ops
      BY <1>1, <3>1
    <3> QED
      BY <3>2 DEF Calc!Operator, Tokens
  <2>2. Calc!Operator(s.ops[keep]) \in Tokens
    BY <1>1 DEF Calc!Operator, Tokens
  <2>3. Moved(keep) \in Seq(Tokens)
    <3> HIDE DEF n
    <3>1. [i \in 1 .. n |-> Calc!Operator(s.ops[Len(s.ops) + 1 - i])] \in Seq(Tokens)
      BY <1>3, <2>1
    <3> QED
      BY <3>1 DEF n
  <2> QED
    BY <2>2, <2>3
<1>9. ASSUME NEW a \in Seq(Tokens), NEW b \in Seq(Tokens), NEW t \in Tokens
      PROVE  a \o Append(b, t) = Append(a \o b, t)
  OBVIOUS
<1> HIDE DEF Moved, n, S
<1> QED
  BY <1>1, <1>2, <1>7, <1>8, <1>9, Zenon

(* One key. *)
LEMMA ScanIs ==
    ASSUME NEW s \in RPN, NEW key \in Keys
    PROVE  /\ s.popsEmpty => Calc!Scan(s, key) = s
           /\ ~ s.popsEmpty /\ Calc!IsDigit(key) => Calc!Scan(s, key) = Calc!ScanDigit(s, key)
           /\ ~ s.popsEmpty /\ key = "(" =>
                 Calc!Scan(s, key) = [Calc!AfterNumber(s) EXCEPT !.ops = Append(s.ops, "(")]
           /\ ~ s.popsEmpty /\ key = ")" =>
                 Calc!Scan(s, key) = Calc!ScanClose(Calc!AfterNumber(s))
           /\ ~ s.popsEmpty /\ key \in Calc!Operators =>
                 Calc!Scan(s, key) = Calc!ScanOperator(Calc!AfterNumber(s), key)
<1>1. Calc!AfterNumber(s) \in RPN /\ Calc!AfterNumber(s).ops = s.ops
  BY DEF Calc!AfterNumber, RPN
<1>2. "(" # ")"
  OBVIOUS
<1>3. "(" \notin Calc!Operators /\ ")" \notin Calc!Operators /\ s.popsEmpty \in BOOLEAN
      /\ (Calc!IsDigit(key) => key # "(" /\ key # ")" /\ key \notin Calc!Operators)
  BY KeyKinds DEF Ops, RPN
<1>4. [Calc!AfterNumber(s) EXCEPT !.ops = Append(@, "(")]
          = [Calc!AfterNumber(s) EXCEPT !.ops = Append(s.ops, "(")]
  BY <1>1, Zenon
<1>5. CASE s.popsEmpty
  BY <1>5, <1>3 DEF Calc!Scan
<1>6. CASE ~ s.popsEmpty /\ Calc!IsDigit(key)
  BY <1>6, <1>2, <1>3 DEF Calc!Scan
<1>7. CASE ~ s.popsEmpty /\ key = "("
  BY <1>7, <1>2, <1>3, <1>4 DEF Calc!Scan
<1>8. CASE ~ s.popsEmpty /\ key = ")"
  BY <1>8, <1>2, <1>3 DEF Calc!Scan
<1>9. CASE ~ s.popsEmpty /\ key \in Calc!Operators
  BY <1>9, <1>2, <1>3 DEF Calc!Scan
<1> QED
  BY <1>2, <1>3, <1>5, <1>6, <1>7, <1>8, <1>9

LEMMA AfterNumberIs ==
    ASSUME NEW s \in RPN
    PROVE  /\ Calc!AfterNumber(s) \in Scans
           /\ Calc!AfterNumber(s).ops = s.ops
           /\ Calc!AfterNumber(s).out = s.out
           /\ Calc!AfterNumber(s).popsEmpty = s.popsEmpty
           /\ Calc!AfterNumber(s).inNumber = FALSE
           /\ \A keep \in 0 .. Len(s.ops) :
                 Calc!Unstack(Calc!AfterNumber(s), keep).out = Calc!Unstack(s, keep).out
<1>1. /\ Calc!AfterNumber(s) \in Scans
      /\ Calc!AfterNumber(s).ops = s.ops
      /\ Calc!AfterNumber(s).out = s.out
      /\ Calc!AfterNumber(s).popsEmpty = s.popsEmpty
      /\ Calc!AfterNumber(s).inNumber = FALSE
  BY DEF Calc!AfterNumber, RPN, Scans
<1>2. ASSUME NEW t \in RPN, t.ops = s.ops, t.out = s.out, NEW keep \in 0 .. Len(s.ops)
      PROVE  Calc!Unstack(t, keep).out = Calc!Unstack(s, keep).out
  <2>1. DOMAIN s = {"ops", "out", "inNumber", "popsEmpty"} /\ DOMAIN t = DOMAIN s
    BY DEF RPN
  <2> DEFINE moved == [i \in 1 .. Len(s.ops) - keep |->
                         Calc!Operator(s.ops[Len(s.ops) + 1 - i])]
  <2>2. Calc!Unstack(s, keep).out = s.out \o moved
    BY <2>1 DEF Calc!Unstack
  <2>3. Calc!Unstack(t, keep).out = s.out \o moved
    BY <1>2, <2>1 DEF Calc!Unstack
  <2> QED
    BY <2>2, <2>3
<1> QED
  BY <1>1, <1>2 DEF Scans

(* What a digit does: a number begins, or the last one goes on. *)
DigitScanned(s, key, d) ==
    /\ d \in Scans /\ d.ops = s.ops /\ d.popsEmpty = s.popsEmpty /\ d.inNumber
    /\ ~ s.inNumber => d.out = Append(s.out, Calc!Number(Calc!DigitOf(key)))
    /\ s.inNumber =>
          d.out = [s.out EXCEPT ![Len(s.out)] =
                     Calc!Number(10 * s.out[Len(s.out)].value + Calc!DigitOf(key))]

LEMMA ScanDigitIs ==
    ASSUME NEW s \in Scans, NEW key \in Keys, Calc!IsDigit(key)
    PROVE  DigitScanned(s, key, Calc!ScanDigit(s, key))
<1> DEFINE d == Calc!ScanDigit(s, key)
<1> HIDE DEF d
<1>1. /\ s.ops \in Seq(Ops) /\ s.out \in Seq(Tokens)
      /\ s.inNumber \in BOOLEAN /\ s.popsEmpty \in BOOLEAN
      /\ DOMAIN s = {"ops", "out", "inNumber", "popsEmpty"} /\ s \in RPN
  BY DEF RPN, Scans
<1>2. ASSUME NEW n \in Nat PROVE Calc!Number(n) \in Tokens /\ Calc!Number(n).isNumber
  BY DEF Calc!Number, Tokens
<1>3. Calc!DigitOf(key) \in Nat
  BY NumeralKeys
<1>4. CASE ~ s.inNumber
  <2> DEFINE t == Calc!Number(Calc!DigitOf(key))
             o == Append(s.out, t)
  <2>1. d = [s EXCEPT !.out = o, !.inNumber = TRUE]
    BY <1>1, <1>4 DEF Calc!ScanDigit, d
  <2>2. o \in Seq(Tokens) /\ o # <<>> /\ o[Len(o)].isNumber
    <3>1. t \in Tokens /\ t.isNumber
      BY <1>2, <1>3
    <3> HIDE DEF t
    <3>2. o \in Seq(Tokens) /\ Len(o) # 0 /\ o[Len(o)] = t
      BY <1>1, <3>1
    <3> HIDE DEF o
    <3> QED
      BY <3>1, <3>2
  <2> HIDE DEF o
  <2>3. d \in RPN /\ d.ops = s.ops /\ d.popsEmpty = s.popsEmpty /\ d.inNumber = TRUE /\ d.out = o
    BY <1>1, <2>1, <2>2 DEF RPN
  <2> QED
    <3>1. d \in Scans
      BY <2>2, <2>3 DEF Scans
    <3>2. d.out = Append(s.out, Calc!Number(Calc!DigitOf(key)))
      BY <2>3 DEF o
    <3> QED
      BY <1>4, <2>3, <3>1, <3>2 DEF DigitScanned, d
<1>5. CASE s.inNumber
  <2>1. s.out # <<>> /\ s.out[Len(s.out)].isNumber
    BY <1>5 DEF Scans
  <2>2. Len(s.out) \in 1 .. Len(s.out) /\ s.out[Len(s.out)] \in Tokens
    BY <1>1, <2>1
  <2>3. s.out[Len(s.out)].value \in Nat
    BY <2>1, <2>2 DEF Tokens
  <2> DEFINE t == Calc!Number(10 * s.out[Len(s.out)].value + Calc!DigitOf(key))
             o == [s.out EXCEPT ![Len(s.out)] = t]
  <2>4. t \in Tokens /\ t.isNumber
    BY <1>2, <1>3, <2>3
  <2>5. d = [s EXCEPT !.out = o]
    BY <1>1, <1>5 DEF Calc!ScanDigit, d
  <2>6. o \in Seq(Tokens) /\ o # <<>> /\ o[Len(o)].isNumber
    <3> HIDE DEF t
    <3>1. o \in Seq(Tokens) /\ Len(o) = Len(s.out) /\ o[Len(s.out)] = t
      BY <1>1, <2>2, <2>4
    <3> QED
      BY <2>2, <2>4, <3>1
  <2> HIDE DEF o
  <2>7. d \in RPN /\ d.ops = s.ops /\ d.popsEmpty = s.popsEmpty /\ d.inNumber = s.inNumber /\ d.out = o
    BY <1>1, <2>5, <2>6 DEF RPN
  <2> QED
    <3>1. d \in Scans
      BY <2>6, <2>7 DEF Scans
    <3>2. d.out = [s.out EXCEPT ![Len(s.out)] =
                     Calc!Number(10 * s.out[Len(s.out)].value + Calc!DigitOf(key))]
      BY <2>7 DEF o
    <3> QED
      BY <1>1, <1>5, <2>7, <3>1, <3>2 DEF DigitScanned, d
<1> QED
  BY <1>1, <1>4, <1>5 DEF d

LEMMA ScanOperatorIs ==
    ASSUME NEW s \in RPN, NEW op \in Calc!Operators
    PROVE  LET keep == Calc!Stay(s.ops, Calc!Weaker(op))
               d == Calc!ScanOperator(Calc!AfterNumber(s), op)
           IN  /\ keep \in 0 .. Len(s.ops)
               /\ d \in Scans /\ d.ops = Append(SubSeq(s.ops, 1, keep), op)
               /\ d.popsEmpty = s.popsEmpty /\ d.inNumber = FALSE
               /\ d.out = Calc!Unstack(s, keep).out
<1> DEFINE a == Calc!AfterNumber(s)
           keep == Calc!Stay(s.ops, Calc!Weaker(op))
           rest == Calc!Unstack(a, keep)
           o == Append(rest.ops, op)
<1>1. a \in RPN /\ a.ops = s.ops /\ a.inNumber = FALSE /\ a.popsEmpty = s.popsEmpty
  BY AfterNumberIs DEF Scans
<1>2. keep \in 0 .. Len(s.ops)
  <2>1. s.ops \in Seq(Ops)
    BY DEF RPN
  <2> QED
    BY <2>1, StayIs
<1> HIDE DEF keep, a
<1>3. /\ rest \in RPN /\ rest.ops = SubSeq(s.ops, 1, keep) /\ rest.inNumber = FALSE
      /\ rest.popsEmpty = s.popsEmpty
  BY <1>1, <1>2, UnstackType
<1>4. rest.out = Calc!Unstack(s, keep).out
  BY <1>2, AfterNumberIs DEF a
<1>5. Calc!ScanOperator(a, op) = [rest EXCEPT !.ops = o]
  BY <1>1, <1>3 DEF Calc!ScanOperator, keep, RPN
<1> HIDE DEF rest
<1>6. o \in Seq(Ops)
  <2>1. rest.ops \in Seq(Ops) /\ op \in Ops
    BY <1>3 DEF RPN, Ops
  <2> QED
    BY <2>1
<1> HIDE DEF o
<1>7. /\ [rest EXCEPT !.ops = o] \in Scans /\ [rest EXCEPT !.ops = o].ops = o
      /\ [rest EXCEPT !.ops = o].popsEmpty = rest.popsEmpty
      /\ [rest EXCEPT !.ops = o].inNumber = rest.inNumber
      /\ [rest EXCEPT !.ops = o].out = rest.out
  BY <1>3, <1>6 DEF RPN, Scans
<1> QED
  BY <1>2, <1>3, <1>4, <1>5, <1>7 DEF a, keep, o

LEMMA ScanCloseIs ==
    ASSUME NEW s \in RPN
    PROVE  LET open == Calc!Stay(s.ops, {"("})
               d == Calc!ScanClose(Calc!AfterNumber(s))
           IN  /\ open \in 0 .. Len(s.ops) /\ d \in Scans /\ d.inNumber = FALSE
               /\ open = 0 => d.popsEmpty /\ d.ops = SubSeq(s.ops, 1, 0)
               /\ open # 0 =>
                     /\ d.popsEmpty = s.popsEmpty
                     /\ d.ops = SubSeq(s.ops, 1, open - 1)
                     /\ d.out = Calc!Unstack(s, open).out
<1> DEFINE a == Calc!AfterNumber(s)
           open == Calc!Stay(s.ops, {"("})
           above == Calc!Unstack(a, open)
<1>1. a \in RPN /\ a.ops = s.ops /\ a.inNumber = FALSE /\ a.popsEmpty = s.popsEmpty
  BY AfterNumberIs DEF Scans
<1>2. open \in 0 .. Len(s.ops) /\ s.ops \in Seq(Ops)
  <2>1. s.ops \in Seq(Ops)
    BY DEF RPN
  <2> QED
    BY <2>1, StayIs
<1> HIDE DEF open, a
<1>3. /\ above \in RPN /\ above.ops = SubSeq(s.ops, 1, open) /\ above.inNumber = FALSE
      /\ above.popsEmpty = s.popsEmpty
  BY <1>1, <1>2, UnstackType
<1>4. above.out = Calc!Unstack(s, open).out
  BY <1>2, AfterNumberIs DEF a
<1>5. Calc!ScanClose(a) = IF open = 0 THEN [above EXCEPT !.popsEmpty = TRUE]
                          ELSE [above EXCEPT !.ops = SubSeq(above.ops, 1, open - 1)]
  BY <1>1, <1>3 DEF Calc!ScanClose, open, RPN
<1> HIDE DEF above
<1>6. CASE open = 0
  BY <1>2, <1>3, <1>5, <1>6 DEF RPN, Scans, a, open
<1>7. CASE open # 0
  <2> DEFINE o == SubSeq(above.ops, 1, open - 1)
  <2>1. o = SubSeq(s.ops, 1, open - 1) /\ o \in Seq(Ops)
    BY <1>2, <1>3, <1>7
  <2> HIDE DEF o
  <2>2. /\ [above EXCEPT !.ops = o] \in Scans /\ [above EXCEPT !.ops = o].ops = o
        /\ [above EXCEPT !.ops = o].popsEmpty = above.popsEmpty
        /\ [above EXCEPT !.ops = o].inNumber = above.inNumber
        /\ [above EXCEPT !.ops = o].out = above.out
    BY <1>3, <2>1 DEF RPN, Scans
  <2>3. Calc!ScanClose(a) = [above EXCEPT !.ops = o]
    BY <1>5, <1>7 DEF o
  <2> QED
    BY <1>2, <1>3, <1>4, <1>7, <2>1, <2>2, <2>3 DEF a, open
<1> QED
  BY <1>6, <1>7

LEMMA ScanType ==
    ASSUME NEW s \in Scans, NEW key \in Keys
    PROVE  Calc!Scan(s, key) \in Scans
<1>1. s \in RPN /\ s.popsEmpty \in BOOLEAN /\ s.ops \in Seq(Ops)
  BY DEF Scans, RPN
<1>2. ASSUME key = "(", ~ s.popsEmpty
      PROVE  [Calc!AfterNumber(s) EXCEPT !.ops = Append(s.ops, "(")] \in Scans
  <2>1. Append(s.ops, "(") \in Seq(Ops)
    BY <1>1 DEF Ops
  <2>2. Calc!AfterNumber(s) \in RPN /\ Calc!AfterNumber(s).inNumber = FALSE
    BY <1>1, AfterNumberIs DEF Scans
  <2> QED
    BY <2>1, <2>2 DEF Scans, RPN
<1>3. Calc!IsDigit(key) => Calc!ScanDigit(s, key) \in Scans
  BY ScanDigitIs DEF DigitScanned
<1>4. Calc!ScanClose(Calc!AfterNumber(s)) \in Scans
  BY <1>1, ScanCloseIs
<1>5. key \in Calc!Operators => Calc!ScanOperator(Calc!AfterNumber(s), key) \in Scans
  BY <1>1, ScanOperatorIs
<1> QED
  BY <1>1, <1>2, <1>3, <1>4, <1>5, ScanIs, KeyKinds, Zenon

(* All keys: scan[n] is the state after the first n. *)
Scanning(scan, f) ==
    /\ scan[0] = Calc!Unscanned
    /\ \A n \in 1 .. Len(f) : scan[n] = Calc!Scan(scan[n - 1], f[n])
    /\ \A n \in 0 .. Len(f) : scan[n] \in Scans

LEMMA ScannedIs ==
    ASSUME NEW f \in Seq(Keys)
    PROVE  \E scan : Scanning(scan, f) /\ Calc!Scanned(f) = scan[Len(f)]
<1> DEFINE m == Len(f)
           step == [x \in (1 .. m) \X Scans |-> Calc!Scan(x[2], f[x[1]])]
           Is(h) == h = [n \in 0 .. m |-> IF n = 0 THEN Calc!Unscanned
                                          ELSE Calc!Scan(h[n - 1], f[n])]
           scan == CHOOSE h : Is(h)
<1>1. m \in Nat /\ \A n \in 1 .. m : f[n] \in Keys
  OBVIOUS
<1>2. Calc!Unscanned \in Scans
  BY DEF Calc!Unscanned, Scans, RPN
<1>3. \A n \in 1 .. m : \A s \in Scans : step[<<n, s>>] \in Scans
  BY <1>1, ScanType
<1>4. \E h : Is(h)
  <2>1. PICK h : Folds(h, m, Calc!Unscanned, step)
    BY <1>1, FoldExists
  <2>2. \A n \in 0 .. m : h[n] \in Scans
    <3> HIDE DEF step, m
    <3> QED
      BY <1>1, <1>2, <1>3, <2>1, FoldType, Zenon
  <2>3. ASSUME NEW n \in 0 .. m, n # 0
        PROVE  step[<<n, h[n - 1]>>] = Calc!Scan(h[n - 1], f[n])
    <3>1. n \in 1 .. m /\ n - 1 \in 0 .. m
      BY <1>1, <2>3
    <3> QED
      BY <2>2, <3>1
  <2>4. Is(h)
    <3> HIDE DEF step
    <3> QED
      BY <2>1, <2>3, Zenon DEF Folds
  <2> QED
    BY <2>4
<1>5. Is(scan)
  <2> HIDE DEF Is
  <2> QED
    BY <1>4, Zenon
<1>6. Calc!Scanned(f) = scan[m]
  BY DEF Calc!Scanned
<1> DEFINE T == {n \in 0 .. m : scan[n] \in Scans}
<1> HIDE DEF scan
<1>7. scan[0] = Calc!Unscanned
  BY <1>1, <1>5
<1>8. ASSUME NEW n \in 1 .. m
      PROVE  scan[n] = Calc!Scan(scan[n - 1], f[n])
  <2>1. n \in 0 .. m /\ n # 0
    BY <1>1
  <2> HIDE DEF m, step
  <2> QED
    BY <1>5, <2>1
<1>9. 0 \in T
  BY <1>1, <1>2, <1>7
<1>10. ASSUME NEW n \in 1 .. m, n - 1 \in T PROVE n \in T
  <2>1. n \in 0 .. m /\ scan[n - 1] \in Scans /\ f[n] \in Keys
    BY <1>1, <1>10
  <2> QED
    BY <1>8, <2>1, ScanType
<1>11. 0 .. m \subseteq T
  <2> HIDE DEF T, Is
  <2> QED
    BY <1>1, <1>9, <1>10, UpTo
<1> QED
  BY <1>6, <1>7, <1>8, <1>11 DEF Scanning

(* One token. *)
LEMMA TokenTypes ==
    /\ \A n \in Nat : Calc!Number(n) \in Tokens
    /\ \A op \in Ops : Calc!Operator(op) \in Tokens
BY DEF Tokens, Calc!Number, Calc!Operator

LEMMA ApplyType ==
    ASSUME NEW op \in Calc!Operators, NEW a \in Fractions, NEW b \in Fractions
    PROVE  Calc!Apply(op, a, b) \in Fractions
BY DEF Calc!Apply, Calc!Operators, Fractions, Calc!Sum, Calc!Difference, Calc!Product,
       Calc!Quotient

LEMMA NumberEvaluated ==
    ASSUME NEW values \in Seq(Fractions), NEW n \in Nat
    PROVE  Calc!EvaluateToken([values |-> values, gaveUp |-> FALSE], Calc!Number(n)) =
               [values |-> Append(values, <<n, 1>>), gaveUp |-> FALSE]
<1> DEFINE e == [values |-> values, gaveUp |-> FALSE]
           t == Calc!Number(n)
<1>1. t.isNumber = TRUE /\ t.value = n
  BY DEF Calc!Number
<1>2. e.values = values /\ e.gaveUp = FALSE
  OBVIOUS
<1> HIDE DEF e, t
<1>3. Calc!EvaluateToken(e, t) = [e EXCEPT !.values = Append(values, <<n, 1>>)]
  BY <1>1, <1>2 DEF Calc!EvaluateToken
<1> QED
  BY <1>3 DEF e, t

LEMMA OperatorEvaluated ==
    ASSUME NEW values \in Seq(Fractions), NEW x \in Fractions, NEW y \in Fractions,
           NEW op \in Calc!Operators, op # "/" \/ y[1] # 0
    PROVE  Calc!EvaluateToken([values |-> Append(Append(values, x), y), gaveUp |-> FALSE],
                              Calc!Operator(op)) =
               [values |-> Append(values, Calc!Apply(op, x, y)), gaveUp |-> FALSE]
<1> DEFINE v == Append(Append(values, x), y)
           e == [values |-> v, gaveUp |-> FALSE]
           t == Calc!Operator(op)
           n == Len(v)
<1>1. /\ v \in Seq(Fractions) /\ n = Len(values) + 2 /\ ~ n < 2
      /\ v[n] = y /\ v[n - 1] = x /\ SubSeq(v, 1, n - 2) = values
  <2>1. n = Len(values) + 2 /\ v \in Seq(Fractions) /\ v[n] = y /\ v[n - 1] = x
    OBVIOUS
  <2>2. SubSeq(v, 1, n - 2) = values
    OBVIOUS
  <2> QED
    BY <2>1, <2>2
<1>2. t.isNumber = FALSE /\ t.value = op
  BY DEF Calc!Operator
<1>3. e.values = v /\ e.gaveUp = FALSE
  OBVIOUS
<1> HIDE DEF v, e, t
<1>4. Calc!EvaluateToken(e, t) =
          [e EXCEPT !.values = Append(SubSeq(v, 1, n - 2), Calc!Apply(op, v[n - 1], v[n]))]
  BY <1>1, <1>2, <1>3 DEF Calc!EvaluateToken
<1>5. Calc!EvaluateToken(e, t) = [e EXCEPT !.values = Append(values, Calc!Apply(op, x, y))]
  BY <1>1, <1>4
<1> QED
  BY <1>5 DEF e, v, t

LEMMA EvaluateType ==
    ASSUME NEW e \in Evals, NEW t \in Tokens
    PROVE  Calc!EvaluateToken(e, t) \in Evals
<1> DEFINE n == Len(e.values)
           rest == SubSeq(e.values, 1, n - 2)
<1>1. /\ e.values \in Seq(Fractions) /\ e.gaveUp \in BOOLEAN /\ t.isNumber \in BOOLEAN
      /\ t.isNumber => t.value \in Nat
  BY DEF Evals, Tokens
<1>2. CASE e.gaveUp
  BY <1>1, <1>2 DEF Calc!EvaluateToken
<1>3. CASE ~ e.gaveUp /\ t.isNumber
  <2>1. <<t.value, 1>> \in Fractions
    BY <1>1, <1>3 DEF Fractions
  <2>2. Append(e.values, <<t.value, 1>>) \in Seq(Fractions)
    BY <1>1, <2>1
  <2>3. Calc!EvaluateToken(e, t) = [e EXCEPT !.values = Append(e.values, <<t.value, 1>>)]
    BY <1>1, <1>3 DEF Calc!EvaluateToken
  <2> QED
    BY <2>2, <2>3 DEF Evals
<1>4. CASE ~ e.gaveUp /\ ~ t.isNumber /\ t.value \notin Calc!Operators
  BY <1>1, <1>4 DEF Calc!EvaluateToken
<1>5. CASE ~ e.gaveUp /\ ~ t.isNumber /\ t.value \in Calc!Operators
  <2>1. CASE n < 2
    BY <1>1, <1>5, <2>1 DEF Calc!EvaluateToken, Evals
  <2>2. CASE ~ n < 2
    <3>1. n \in Nat /\ rest \in Seq(Fractions) /\ n \in 1 .. Len(e.values) /\ n - 1 \in 1 .. Len(e.values)
      BY <1>1, <2>2
    <3>2. e.values[n - 1] \in Fractions /\ e.values[n] \in Fractions
      BY <1>1, <3>1
    <3> DEFINE a == Calc!Apply(t.value, e.values[n - 1], e.values[n])
    <3>3. a \in Fractions
      BY <1>5, <3>2, ApplyType
    <3> HIDE DEF a
    <3>4. Append(rest, a) \in Seq(Fractions)
      BY <3>1, <3>3
    <3>5. Calc!EvaluateToken(e, t) =
              IF t.value = "/" /\ e.values[n][1] = 0 THEN [e EXCEPT !.values = rest]
              ELSE [e EXCEPT !.values = Append(rest, a)]
      BY <1>1, <1>5, <2>2 DEF Calc!EvaluateToken, a
    <3> HIDE DEF rest
    <3> QED
      BY <3>1, <3>4, <3>5 DEF Evals
  <2> QED
    BY <2>1, <2>2
<1> QED
  BY <1>1, <1>2, <1>3, <1>4, <1>5

(* All tokens. *)
Evaluating(step, rpn) ==
    /\ step[0] = Calc!Unevaluated
    /\ \A n \in 1 .. Len(rpn) : step[n] = Calc!EvaluateToken(step[n - 1], rpn[n])
    /\ \A n \in 0 .. Len(rpn) : step[n] \in Evals

LEMMA EvaluatedIs ==
    ASSUME NEW rpn \in Seq(Tokens)
    PROVE  \E eval : Evaluating(eval, rpn) /\ Calc!Evaluated(rpn) = eval[Len(rpn)]
<1> DEFINE m == Len(rpn)
           step == [x \in (1 .. m) \X Evals |-> Calc!EvaluateToken(x[2], rpn[x[1]])]
           Is(h) == h = [n \in 0 .. m |-> IF n = 0 THEN Calc!Unevaluated
                                          ELSE Calc!EvaluateToken(h[n - 1], rpn[n])]
           eval == CHOOSE h : Is(h)
<1>1. m \in Nat /\ \A n \in 1 .. m : rpn[n] \in Tokens
  OBVIOUS
<1>2. Calc!Unevaluated \in Evals
  BY DEF Calc!Unevaluated, Evals
<1>3. \A n \in 1 .. m : \A s \in Evals : step[<<n, s>>] \in Evals
  BY <1>1, EvaluateType
<1>4. \E h : Is(h)
  <2>1. PICK h : Folds(h, m, Calc!Unevaluated, step)
    BY <1>1, FoldExists
  <2>2. \A n \in 0 .. m : h[n] \in Evals
    <3> HIDE DEF step, m
    <3> QED
      BY <1>1, <1>2, <1>3, <2>1, FoldType, Zenon
  <2>3. ASSUME NEW n \in 0 .. m, n # 0
        PROVE  step[<<n, h[n - 1]>>] = Calc!EvaluateToken(h[n - 1], rpn[n])
    <3>1. n \in 1 .. m /\ n - 1 \in 0 .. m
      BY <1>1, <2>3
    <3> QED
      BY <2>2, <3>1
  <2>4. Is(h)
    <3> HIDE DEF step
    <3> QED
      BY <2>1, <2>3, Zenon DEF Folds
  <2> QED
    BY <2>4
<1>5. Is(eval)
  <2> HIDE DEF Is
  <2> QED
    BY <1>4, Zenon
<1>6. Calc!Evaluated(rpn) = eval[m]
  BY DEF Calc!Evaluated
<1> DEFINE T == {n \in 0 .. m : eval[n] \in Evals}
<1> HIDE DEF eval
<1>7. eval[0] = Calc!Unevaluated
  BY <1>1, <1>5
<1>8. ASSUME NEW n \in 1 .. m
      PROVE  eval[n] = Calc!EvaluateToken(eval[n - 1], rpn[n])
  <2>1. n \in 0 .. m /\ n # 0
    BY <1>1
  <2> HIDE DEF m, step
  <2> QED
    BY <1>5, <2>1
<1>9. 0 \in T
  BY <1>1, <1>2, <1>7
<1>10. ASSUME NEW n \in 1 .. m, n - 1 \in T PROVE n \in T
  <2>1. n \in 0 .. m /\ eval[n - 1] \in Evals /\ rpn[n] \in Tokens
    BY <1>1, <1>10
  <2> QED
    BY <1>8, <2>1, EvaluateType
<1>11. 0 .. m \subseteq T
  <2> HIDE DEF T, Is
  <2> QED
    BY <1>1, <1>9, <1>10, UpTo
<1> QED
  BY <1>6, <1>7, <1>8, <1>11 DEF Evaluating

LEMMA EvaluatedType ==
    ASSUME NEW rpn \in Seq(Tokens)
    PROVE  Calc!Evaluated(rpn) \in Evals
BY EvaluatedIs DEF Evaluating

LEMMA EvaluatedEmpty == Calc!Evaluated(<<>>) = Calc!Unevaluated
<1>1. <<>> \in Seq(Tokens) /\ Len(<<>>) = 0
  OBVIOUS
<1> QED
  BY <1>1, EvaluatedIs DEF Evaluating

LEMMA EvaluatedAppend ==
    ASSUME NEW rpn \in Seq(Tokens), NEW t \in Tokens
    PROVE  Calc!Evaluated(Append(rpn, t)) = Calc!EvaluateToken(Calc!Evaluated(rpn), t)
<1> DEFINE more == Append(rpn, t)
           m == Len(rpn)
<1>1. /\ more \in Seq(Tokens) /\ Len(more) = m + 1 /\ m \in Nat /\ more[m + 1] = t
      /\ \A n \in 1 .. m : more[n] = rpn[n]
  OBVIOUS
<1> HIDE DEF more
<1>2. PICK a : Evaluating(a, rpn) /\ Calc!Evaluated(rpn) = a[m]
  BY EvaluatedIs
<1>3. PICK b : Evaluating(b, more) /\ Calc!Evaluated(more) = b[m + 1]
  BY <1>1, EvaluatedIs
<1> HIDE DEF m
<1> DEFINE T == {n \in 0 .. m : a[n] = b[n]}
<1>4. 0 \in T
  BY <1>1, <1>2, <1>3 DEF Evaluating
<1>5. ASSUME NEW n \in 1 .. m, n - 1 \in T PROVE n \in T
  <2>1. n \in 1 .. m + 1 /\ n \in 0 .. m
    BY <1>1
  <2>2. a[n] = Calc!EvaluateToken(a[n - 1], rpn[n])
    BY <1>2 DEF Evaluating, m
  <2>3. b[n] = Calc!EvaluateToken(b[n - 1], more[n])
    BY <1>1, <1>3, <2>1 DEF Evaluating
  <2> QED
    BY <1>1, <1>5, <2>1, <2>2, <2>3
<1>6. 0 .. m \subseteq T
  <2> HIDE DEF T
  <2> QED
    BY <1>1, <1>4, <1>5, UpTo
<1>7. a[m] = b[m]
  BY <1>1, <1>6
<1>8. b[m + 1] = Calc!EvaluateToken(b[(m + 1) - 1], more[m + 1]) /\ (m + 1) - 1 = m
  BY <1>1, <1>3 DEF Evaluating
<1> QED
  BY <1>1, <1>2, <1>3, <1>7, <1>8 DEF more, m

(* The grammar.  Which operators may be on the stack under what is read, which ones
   may be left above it, and what a sum and a product are made of.                  *)
Kinds == {"sum", "product", "factor"}
Under(kind) == IF kind = "sum" THEN {"("} ELSE IF kind = "product" THEN {"(", "+", "-"} ELSE Ops
Pending(kind) == IF kind = "sum" THEN Calc!Operators
                 ELSE IF kind = "product" THEN {"*", "/"} ELSE {}
OpsOf(kind) == IF kind = "sum" THEN {"+", "-"} ELSE {"*", "/"}
Inner(kind) == IF kind = "sum" THEN "product" ELSE "factor"

LEMMA KindFacts ==
    ASSUME NEW kind \in {"sum", "product"}
    PROVE  /\ Under(kind) \subseteq Under(Inner(kind)) /\ Under(kind) \subseteq Ops
           /\ Pending(Inner(kind)) \subseteq Pending(kind)
           /\ OpsOf(kind) \subseteq Pending(kind) /\ OpsOf(kind) \subseteq Calc!Operators
           /\ OpsOf(kind) \subseteq Under(Inner(kind))
           /\ \A op \in OpsOf(kind) : Calc!Weaker(op) = Under(kind)
           /\ \A op \in Pending(kind) : op \notin Under(kind)
<1>1. \A op \in OpsOf(kind) : Calc!Weaker(op) = Under(kind)
  <2>1. /\ Calc!Precedence("(") = 0
        /\ Calc!Precedence("+") = 1 /\ Calc!Precedence("-") = 1
        /\ Calc!Precedence("*") = 2 /\ Calc!Precedence("/") = 2
    BY DEF Calc!Precedence
  <2>2. Calc!Weaker("+") = {"("} /\ Calc!Weaker("-") = {"("}
    BY <2>1 DEF Calc!Weaker, Calc!Operators
  <2>3. Calc!Weaker("*") = {"(", "+", "-"} /\ Calc!Weaker("/") = {"(", "+", "-"}
    BY <2>1 DEF Calc!Weaker, Calc!Operators
  <2> QED
    BY <2>2, <2>3 DEF OpsOf, Under
<1> QED
  BY <1>1 DEF Under, Inner, Pending, OpsOf, Ops, Calc!Operators

(* What is ahead of what is read, and behind it: a value is computed as if the
   operators above those that were there before are moved to the output.        *)
Before(s, kind) ==
    /\ ~ s.popsEmpty /\ ~ s.inNumber
    /\ Len(s.ops) # 0 => s.ops[Len(s.ops)] \in Under(kind)
    /\ ~ Calc!Evaluated(s.out).gaveUp

After(s, e, kind, v) ==
    /\ ~ e.popsEmpty /\ Len(s.ops) <= Len(e.ops)
    /\ \A k \in 1 .. Len(s.ops) : e.ops[k] = s.ops[k]
    /\ \A k \in Len(s.ops) + 1 .. Len(e.ops) : e.ops[k] \in Pending(kind)
    /\ Calc!Evaluated(Calc!Unstack(e, Len(s.ops)).out) =
           [values |-> Append(Calc!Evaluated(s.out).values, v), gaveUp |-> FALSE]

Reads(scan, kind, i, j, v) ==
    v \in Fractions /\ (Before(scan[i - 1], kind) => After(scan[i - 1], scan[j], kind, v))

LEMMA ReadsInner ==
    ASSUME NEW scan, NEW kind \in {"sum", "product"}, NEW i, NEW j, NEW v,
           Reads(scan, Inner(kind), i, j, v)
    PROVE  Reads(scan, kind, i, j, v)
<1>1. ASSUME NEW s, Before(s, kind) PROVE Before(s, Inner(kind))
  BY <1>1, KindFacts DEF Before
<1>2. ASSUME NEW s, NEW e, After(s, e, Inner(kind), v) PROVE After(s, e, kind, v)
  BY <1>2, KindFacts DEF After
<1> QED
  BY <1>1, <1>2 DEF Reads

(* The operators that were there before are those that stay. *)
LEMMA SamePrefix ==
    ASSUME NEW a \in Seq(Ops), NEW b \in Seq(Ops), Len(a) <= Len(b),
           \A k \in 1 .. Len(a) : b[k] = a[k]
    PROVE  SubSeq(b, 1, Len(a)) = a
OBVIOUS

LEMMA AfterJoined ==
    ASSUME NEW s \in RPN, NEW a \in RPN, NEW b \in RPN, NEW e \in RPN,
           NEW kind \in {"sum", "product"}, NEW op \in Keys, op \in OpsOf(kind),
           NEW x \in Fractions, NEW y \in Fractions, op # "/" \/ y[1] # 0,
           Before(s, kind), After(s, a, kind, x), b = Calc!Scan(a, op),
           Before(b, Inner(kind)) => After(b, e, Inner(kind), y)
    PROVE  After(s, e, kind, Calc!Apply(op, x, y))
<1> DEFINE d == Len(s.ops)
           v == Calc!Apply(op, x, y)
           vs == Calc!Evaluated(s.out).values
<1>2. op \in Calc!Operators /\ op \in Ops
  BY KindFacts DEF Ops
<1>3. v \in Fractions
  BY <1>2, ApplyType
<1>5. /\ s.ops \in Seq(Ops) /\ a.ops \in Seq(Ops) /\ b.ops \in Seq(Ops) /\ e.ops \in Seq(Ops)
      /\ s.out \in Seq(Tokens) /\ d \in Nat
  BY DEF RPN
<1>7. b = Calc!ScanOperator(Calc!AfterNumber(a), op)
  <2>1. ~ a.popsEmpty
    BY DEF After
  <2> QED
    BY <1>2, <2>1, ScanIs
<1>8. Calc!Stay(a.ops, Calc!Weaker(op)) = d
  <2>1. Calc!Weaker(op) = Under(kind)
    BY KindFacts
  <2>2. d # 0 => a.ops[d] \in Under(kind)
    <3>1. d # 0 => d \in 1 .. d
      BY <1>5
    <3>2. \A k \in 1 .. d : a.ops[k] = s.ops[k]
      BY DEF After
    <3>3. d # 0 => s.ops[d] \in Under(kind)
      BY DEF Before
    <3> QED
      BY <3>1, <3>2, <3>3, Zenon
  <2>3. \A k \in d + 1 .. Len(a.ops) : a.ops[k] \notin Under(kind)
    BY KindFacts DEF After
  <2>4. d \in 0 .. Len(a.ops)
    BY <1>5 DEF After
  <2> QED
    BY <1>5, <2>1, <2>2, <2>3, <2>4, StayAt
<1>9. /\ d \in 0 .. Len(a.ops) /\ b.ops = Append(SubSeq(a.ops, 1, d), op)
      /\ b.popsEmpty = a.popsEmpty /\ b.inNumber = FALSE
      /\ b.out = Calc!Unstack(a, d).out
  BY <1>2, <1>7, <1>8, ScanOperatorIs
<1>10. b.ops = Append(s.ops, op) /\ Len(b.ops) = d + 1 /\ b.ops[d + 1] = op
       /\ \A k \in 1 .. d : b.ops[k] = s.ops[k]
  <2>1. SubSeq(a.ops, 1, d) = s.ops
    BY <1>5, SamePrefix DEF After
  <2>2. b.ops = Append(s.ops, op)
    BY <1>9, <2>1
  <2> QED
    BY <1>2, <1>5, <2>2
<1>11. Calc!Evaluated(b.out) = [values |-> Append(vs, x), gaveUp |-> FALSE]
  BY <1>9 DEF After
<1>12. Before(b, Inner(kind))
  <2>1. ~ b.popsEmpty
    BY <1>9 DEF After
  <2>2. op \in Under(Inner(kind))
    BY KindFacts
  <2> QED
    BY <1>5, <1>9, <1>10, <1>11, <2>1, <2>2 DEF Before
<1>13. After(b, e, Inner(kind), y)
  BY <1>12
<1>14. /\ ~ e.popsEmpty /\ d + 1 <= Len(e.ops) /\ e.ops[d + 1] = op
       /\ \A k \in 1 .. d : e.ops[k] = s.ops[k]
       /\ \A k \in d + 1 .. Len(e.ops) : e.ops[k] \in Pending(kind)
  <2>1. /\ ~ e.popsEmpty /\ d + 1 <= Len(e.ops)
        /\ \A k \in 1 .. d + 1 : e.ops[k] = b.ops[k]
        /\ \A k \in d + 1 + 1 .. Len(e.ops) : e.ops[k] \in Pending(Inner(kind))
    BY <1>10, <1>13 DEF After
  <2>2. d + 1 \in 1 .. d + 1 /\ \A k \in 1 .. d : k \in 1 .. d + 1
    BY <1>5
  <2>3. e.ops[d + 1] = op /\ \A k \in 1 .. d : e.ops[k] = s.ops[k]
    BY <1>10, <2>1, <2>2
  <2>4. op \in Pending(kind) /\ \A k \in d + 2 .. Len(e.ops) : e.ops[k] \in Pending(kind)
    BY <2>1, KindFacts, <1>5
  <2>5. ASSUME NEW k \in d + 1 .. Len(e.ops) PROVE e.ops[k] \in Pending(kind)
    <3>1. k = d + 1 \/ k \in d + 2 .. Len(e.ops)
      BY <1>5
    <3> QED
      BY <3>1, <2>3, <2>4, Zenon
  <2> QED
    BY <2>1, <2>3, <2>5, Zenon
<1>15. Calc!Evaluated(Calc!Unstack(e, d + 1).out) =
           [values |-> Append(Append(vs, x), y), gaveUp |-> FALSE]
  <2>1. Calc!Evaluated(b.out).values = Append(vs, x)
    BY <1>11
  <2> QED
    BY <1>10, <1>13, <2>1 DEF After
<1>16. Calc!Unstack(e, d).out = Append(Calc!Unstack(e, d + 1).out, Calc!Operator(op))
       /\ Calc!Unstack(e, d + 1).out \in Seq(Tokens)
  <2>1. d + 1 \in 1 .. Len(e.ops) /\ d + 1 \in 0 .. Len(e.ops) /\ (d + 1) - 1 = d
    BY <1>5, <1>14
  <2>2. Calc!Unstack(e, (d + 1) - 1).out
            = Append(Calc!Unstack(e, d + 1).out, Calc!Operator(e.ops[d + 1]))
    BY <2>1, UnstackLess
  <2>3. Calc!Unstack(e, d + 1) \in RPN
    BY <2>1, UnstackType
  <2> QED
    BY <1>14, <2>1, <2>2, <2>3 DEF RPN
<1>17. Calc!Evaluated(Calc!Unstack(e, d).out) = [values |-> Append(vs, v), gaveUp |-> FALSE]
  <2>1. vs \in Seq(Fractions)
    BY <1>5, EvaluatedType DEF Evals
  <2>2. Calc!Operator(op) \in Tokens
    BY <1>2, TokenTypes
  <2>3. Calc!Evaluated(Append(Calc!Unstack(e, d + 1).out, Calc!Operator(op))) =
            Calc!EvaluateToken(Calc!Evaluated(Calc!Unstack(e, d + 1).out), Calc!Operator(op))
    BY <1>16, <2>2, EvaluatedAppend
  <2>4. Calc!EvaluateToken([values |-> Append(Append(vs, x), y), gaveUp |-> FALSE],
                           Calc!Operator(op)) = [values |-> Append(vs, v), gaveUp |-> FALSE]
    <3> HIDE DEF vs, v
    <3> QED
      BY <1>2, <1>3, <2>1, OperatorEvaluated DEF v
  <2> HIDE DEF vs, v
  <2> QED
    BY <1>15, <1>16, <2>3, <2>4, Zenon
<1> QED
  BY <1>5, <1>14, <1>17 DEF After

LEMMA ReadsJoined ==
    ASSUME NEW f \in Seq(Keys), NEW scan, Scanning(scan, f),
           NEW kind \in {"sum", "product"}, NEW i \in 1 .. Len(f), NEW j \in 1 .. Len(f),
           NEW m \in i + 1 .. j - 1, f[m] \in OpsOf(kind), NEW x, NEW y,
           Reads(scan, kind, i, m - 1, x), Reads(scan, Inner(kind), m + 1, j, y),
           f[m] # "/" \/ y[1] # 0
    PROVE  Reads(scan, kind, i, j, Calc!Apply(f[m], x, y))
<1>1. /\ i - 1 \in 0 .. Len(f) /\ m - 1 \in 0 .. Len(f) /\ m \in 0 .. Len(f)
      /\ j \in 0 .. Len(f) /\ m \in 1 .. Len(f) /\ (m + 1) - 1 = m
  OBVIOUS
<1>2. scan[i - 1] \in RPN /\ scan[m - 1] \in RPN /\ scan[m] \in RPN /\ scan[j] \in RPN
  BY <1>1 DEF Scanning, Scans
<1>3. f[m] \in Keys /\ f[m] \in Calc!Operators /\ scan[m] = Calc!Scan(scan[m - 1], f[m])
  BY <1>1, KindFacts DEF Scanning
<1>4. x \in Fractions /\ y \in Fractions
  BY DEF Reads
<1>5. Calc!Apply(f[m], x, y) \in Fractions
  BY <1>3, <1>4, ApplyType
<1>6. ASSUME Before(scan[i - 1], kind)
      PROVE  After(scan[i - 1], scan[j], kind, Calc!Apply(f[m], x, y))
  <2>1. After(scan[i - 1], scan[m - 1], kind, x)
    BY <1>6 DEF Reads
  <2>2. Before(scan[m], Inner(kind)) => After(scan[m], scan[j], Inner(kind), y)
    BY <1>1 DEF Reads
  <2> QED
    BY <1>2, <1>3, <1>4, <1>6, <2>1, <2>2, AfterJoined
<1> QED
  BY <1>5, <1>6 DEF Reads

LEMMA AfterParens ==
    ASSUME NEW s \in RPN, NEW b \in RPN, NEW e \in RPN, NEW z \in RPN,
           "(" \in Keys, ")" \in Keys, NEW v, Before(s, "factor"),
           b = Calc!Scan(s, "("), z = Calc!Scan(e, ")"),
           Before(b, "sum") => After(b, e, "sum", v)
    PROVE  After(s, z, "factor", v)
<1> DEFINE d == Len(s.ops)
<1>4. /\ s.ops \in Seq(Ops) /\ e.ops \in Seq(Ops) /\ s.out \in Seq(Tokens) /\ d \in Nat
      /\ s.popsEmpty \in BOOLEAN /\ "(" \in Ops
  BY DEF RPN, Ops
<1>5. b = [Calc!AfterNumber(s) EXCEPT !.ops = Append(s.ops, "(")]
  BY ScanIs DEF Before
<1>6. /\ b.ops = Append(s.ops, "(") /\ b.out = s.out
      /\ b.popsEmpty = FALSE /\ b.inNumber = FALSE
  <2>1. /\ Calc!AfterNumber(s) \in RPN /\ Calc!AfterNumber(s).out = s.out
        /\ Calc!AfterNumber(s).popsEmpty = s.popsEmpty
        /\ Calc!AfterNumber(s).inNumber = FALSE
    BY AfterNumberIs DEF Scans
  <2> QED
    BY <1>4, <1>5, <2>1 DEF RPN, Before
<1>7. Len(b.ops) = d + 1 /\ b.ops[d + 1] = "(" /\ \A k \in 1 .. d : b.ops[k] = s.ops[k]
  <2>1. ASSUME NEW q \in Seq(Ops), NEW o \in Ops
        PROVE  /\ Len(Append(q, o)) = Len(q) + 1 /\ Append(q, o)[Len(q) + 1] = o
               /\ \A k \in 1 .. Len(q) : Append(q, o)[k] = q[k]
    OBVIOUS
  <2> QED
    BY <1>4, <1>6, <2>1
<1>8. Before(b, "sum")
  BY <1>6, <1>7 DEF Before, Under
<1>9. After(b, e, "sum", v)
  BY <1>8
<1>10. /\ ~ e.popsEmpty /\ d + 1 <= Len(e.ops) /\ e.ops[d + 1] = "("
       /\ \A k \in 1 .. d : e.ops[k] = s.ops[k]
       /\ \A k \in d + 2 .. Len(e.ops) : e.ops[k] \in Calc!Operators
  <2>1. /\ ~ e.popsEmpty /\ d + 1 <= Len(e.ops)
        /\ \A k \in 1 .. d + 1 : e.ops[k] = b.ops[k]
        /\ \A k \in d + 1 + 1 .. Len(e.ops) : e.ops[k] \in Calc!Operators
    BY <1>7, <1>9 DEF After, Pending
  <2>2. d + 1 \in 1 .. d + 1 /\ \A k \in 1 .. d : k \in 1 .. d + 1
    BY <1>4
  <2> QED
    BY <1>4, <1>7, <2>1, <2>2
<1>11. Calc!Evaluated(Calc!Unstack(e, d + 1).out) =
           [values |-> Append(Calc!Evaluated(s.out).values, v), gaveUp |-> FALSE]
  BY <1>6, <1>7, <1>9 DEF After
<1>12. Calc!Stay(e.ops, {"("}) = d + 1
  <2>1. d + 1 \in 0 .. Len(e.ops)
    BY <1>4, <1>10
  <2>2. \A k \in (d + 1) + 1 .. Len(e.ops) : e.ops[k] \notin {"("}
    <3>1. (d + 1) + 1 = d + 2 /\ "(" \notin Calc!Operators
      BY <1>4 DEF Calc!Operators
    <3> QED
      BY <1>10, <3>1, Zenon
  <2> QED
    BY <1>4, <1>10, <2>1, <2>2, StayAt
<1>13. z = Calc!ScanClose(Calc!AfterNumber(e))
  BY <1>10, ScanIs
<1>14. /\ z.popsEmpty = e.popsEmpty /\ z.ops = SubSeq(e.ops, 1, (d + 1) - 1)
       /\ z.out = Calc!Unstack(e, d + 1).out
  <2>1. d + 1 # 0
    BY <1>4
  <2> QED
    BY <1>12, <1>13, <2>1, ScanCloseIs
<1>15. z.ops = s.ops
  <2>1. (d + 1) - 1 = d /\ d <= Len(e.ops)
    BY <1>4, <1>10
  <2> QED
    BY <1>4, <1>10, <1>14, <2>1, SamePrefix
<1>16. Calc!Unstack(z, d).out = z.out
  BY <1>15, UnstackNone
<1> QED
  BY <1>4, <1>10, <1>11, <1>14, <1>15, <1>16 DEF After

LEMMA ReadsParens ==
    ASSUME NEW f \in Seq(Keys), NEW scan, Scanning(scan, f),
           NEW i \in 1 .. Len(f), NEW j \in 1 .. Len(f), i < j, f[i] = "(", f[j] = ")",
           NEW v, Reads(scan, "sum", i + 1, j - 1, v)
    PROVE  Reads(scan, "factor", i, j, v)
<1>1. /\ i - 1 \in 0 .. Len(f) /\ i \in 0 .. Len(f) /\ j - 1 \in 0 .. Len(f)
      /\ j \in 0 .. Len(f) /\ (i + 1) - 1 = i
  OBVIOUS
<1>2. scan[i - 1] \in RPN /\ scan[i] \in RPN /\ scan[j - 1] \in RPN /\ scan[j] \in RPN
  BY <1>1 DEF Scanning, Scans
<1>3. "(" \in Keys /\ ")" \in Keys
  <2>1. f[i] \in Keys /\ f[j] \in Keys
    OBVIOUS
  <2> QED
    BY <2>1
<1>4. scan[i] = Calc!Scan(scan[i - 1], "(") /\ scan[j] = Calc!Scan(scan[j - 1], ")")
  BY DEF Scanning
<1>5. Before(scan[i], "sum") => After(scan[i], scan[j - 1], "sum", v)
  BY <1>1 DEF Reads
<1> QED
  BY <1>2, <1>3, <1>4, <1>5, AfterParens DEF Reads

(* A number. *)
LEMMA NumeralIs ==
    ASSUME NEW f \in Seq(Keys), NEW i \in 1 .. Len(f), NEW j \in i .. Len(f),
           \A k \in i .. j : Calc!IsDigit(f[k])
    PROVE  \E number :
               /\ number[i] = Calc!DigitOf(f[i])
               /\ \A n \in i + 1 .. j : number[n] = 10 * number[n - 1] + Calc!DigitOf(f[n])
               /\ \A n \in i .. j : number[n] \in Nat
               /\ Calc!Numeral(f, i, j) = number[j]
<1> DEFINE m == j - i + 1
           step == [x \in (1 .. m) \X Nat |-> 10 * x[2] + Calc!DigitOf(f[i - 1 + x[1]])]
           Is(g) == g = [n \in i - 1 .. j |->
                          IF n = i - 1 THEN 0 ELSE 10 * g[n - 1] + Calc!DigitOf(f[n])]
           number == CHOOSE g : Is(g)
<1>1. m \in Nat /\ i \in Nat /\ j \in Nat /\ 0 \in Nat
  OBVIOUS
<1>2. \A n \in i .. j : Calc!DigitOf(f[n]) \in Nat
  BY NumeralKeys
<1>3. \E g : Is(g)
  <2>1. PICK h : Folds(h, m, 0, step)
    BY <1>1, FoldExists
  <2>2. ASSUME NEW n \in 1 .. m, NEW s \in Nat
        PROVE  step[<<n, s>>] = 10 * s + Calc!DigitOf(f[i - 1 + n]) /\ step[<<n, s>>] \in Nat
    <3>1. i - 1 + n \in i .. j
      BY <1>1
    <3>2. Calc!DigitOf(f[i - 1 + n]) \in Nat
      BY <1>2, <3>1
    <3>3. step[<<n, s>>] = 10 * s + Calc!DigitOf(f[i - 1 + n])
      OBVIOUS
    <3> HIDE DEF step
    <3>4. 10 * s + Calc!DigitOf(f[i - 1 + n]) \in Nat
      BY <3>2
    <3> QED
      BY <3>3, <3>4
  <2> HIDE DEF step
  <2>3. \A n \in 0 .. m : h[n] \in Nat
    <3> HIDE DEF m
    <3> QED
      BY <1>1, <2>1, <2>2, FoldType
  <2> DEFINE g == [n \in i - 1 .. j |-> h[n - (i - 1)]]
  <2>4. ASSUME NEW n \in i - 1 .. j
        PROVE  g[n] = IF n = i - 1 THEN 0 ELSE 10 * g[n - 1] + Calc!DigitOf(f[n])
    <3>1. n - (i - 1) \in 0 .. m
      BY <1>1
    <3>2. CASE n = i - 1
      <4>1. h[0] = 0
        BY <1>1, <2>1 DEF Folds
      <4> QED
        BY <1>1, <3>2, <4>1
    <3>3. CASE n # i - 1
      <4> DEFINE k == n - (i - 1)
      <4>1. /\ k \in 1 .. m /\ k \in 0 .. m /\ k # 0 /\ k - 1 \in 0 .. m /\ i - 1 + k = n
            /\ n - 1 \in i - 1 .. j /\ (n - 1) - (i - 1) = k - 1
        BY <1>1, <3>1, <3>3
      <4>2. g[n] = h[k] /\ g[n - 1] = h[k - 1]
        <5> HIDE DEF m
        <5> QED
          BY <4>1
      <4> HIDE DEF k, g, m
      <4>3. h[k] = step[<<k, h[k - 1]>>]
        BY <2>1, <4>1 DEF Folds
      <4>4. h[k] = 10 * h[k - 1] + Calc!DigitOf(f[n])
        BY <2>2, <2>3, <4>1, <4>3
      <4> QED
        BY <3>3, <4>2, <4>4
    <3> QED
      BY <3>2, <3>3
  <2>5. Is(g)
    <3> DEFINE Rhs(q, n) == IF n = i - 1 THEN 0 ELSE 10 * q[n - 1] + Calc!DigitOf(f[n])
    <3>1. g = [n \in i - 1 .. j |-> g[n]]
      OBVIOUS
    <3> HIDE DEF g
    <3> QED
      BY <2>4, <3>1, Zenon
  <2> QED
    BY <2>5
<1>4. Is(number)
  <2> HIDE DEF Is
  <2> QED
    BY <1>3, Zenon
<1>5. Calc!Numeral(f, i, j) = number[j]
  BY DEF Calc!Numeral
<1> HIDE DEF number
<1>6. ASSUME NEW n \in i - 1 .. j
      PROVE  number[n] = IF n = i - 1 THEN 0 ELSE 10 * number[n - 1] + Calc!DigitOf(f[n])
  <2> HIDE DEF m, step
  <2> QED
    BY <1>4
<1>7. number[i - 1] = 0 /\ number[i] = 10 * number[i - 1] + Calc!DigitOf(f[i])
  <2>1. i - 1 \in i - 1 .. j /\ i \in i - 1 .. j /\ i # i - 1
    BY <1>1
  <2> QED
    BY <1>6, <2>1
<1>8. number[i] = Calc!DigitOf(f[i])
  BY <1>1, <1>2, <1>7
<1>9. \A n \in i + 1 .. j : number[n] = 10 * number[n - 1] + Calc!DigitOf(f[n])
  <2>1. \A n \in i + 1 .. j : n \in i - 1 .. j /\ n # i - 1
    BY <1>1
  <2> QED
    BY <1>6, <2>1
<1>10. \A n \in i .. j : number[n] \in Nat
  <2> DEFINE T == {k \in 0 .. m - 1 : number[i + k] \in Nat}
  <2>1. 0 \in T
    BY <1>1, <1>2, <1>8
  <2>2. ASSUME NEW k \in 1 .. m - 1, k - 1 \in T PROVE k \in T
    <3>1. i + k \in i + 1 .. j /\ i + k \in i .. j /\ (i + k) - 1 = i + (k - 1)
      BY <1>1
    <3>2. number[i + (k - 1)] \in Nat
      BY <2>2
    <3>3. number[i + k] = 10 * number[(i + k) - 1] + Calc!DigitOf(f[i + k])
      BY <1>9, <3>1
    <3>4. number[(i + k) - 1] \in Nat /\ Calc!DigitOf(f[i + k]) \in Nat
      BY <1>2, <3>1, <3>2
    <3>5. number[i + k] \in Nat
      <4>1. ASSUME NEW x \in Nat, NEW y \in Nat PROVE 10 * x + y \in Nat
        OBVIOUS
      <4> HIDE DEF T, m
      <4> QED
        BY <3>3, <3>4, <4>1, Zenon
    <3> QED
      BY <1>1, <3>5
  <2>3. 0 .. m - 1 \subseteq T
    <3>1. m - 1 \in Nat
      BY <1>1
    <3> HIDE DEF T, m
    <3> QED
      BY <2>1, <2>2, <3>1, UpTo
  <2>4. ASSUME NEW n \in i .. j PROVE number[n] \in Nat
    <3>1. n - i \in 0 .. m - 1 /\ i + (n - i) = n
      BY <1>1
    <3>2. number[i + (n - i)] \in Nat
      BY <2>3, <3>1
    <3> QED
      BY <3>1, <3>2
  <2> QED
    BY <2>4
<1> QED
  BY <1>5, <1>8, <1>9, <1>10

LEMMA ReplaceLast ==
    ASSUME NEW q \in Seq(Tokens), NEW t \in Tokens, NEW u \in Tokens
    PROVE  /\ Append(q, t)[Len(Append(q, t))] = t
           /\ [Append(q, t) EXCEPT ![Len(Append(q, t))] = u] = Append(q, u)
<1> DEFINE a == Append(q, t)
           b == [a EXCEPT ![Len(a)] = u]
           c == Append(q, u)
<1>1. /\ a \in Seq(Tokens) /\ Len(a) = Len(q) + 1 /\ a[Len(q) + 1] = t /\ Len(q) \in Nat
      /\ \A k \in 1 .. Len(q) : a[k] = q[k]
  OBVIOUS
<1>2. /\ c \in Seq(Tokens) /\ Len(c) = Len(q) + 1 /\ c[Len(q) + 1] = u
      /\ \A k \in 1 .. Len(q) : c[k] = q[k]
  OBVIOUS
<1> HIDE DEF a, c
<1>3. /\ b \in Seq(Tokens) /\ Len(b) = Len(q) + 1 /\ b[Len(q) + 1] = u
      /\ \A k \in 1 .. Len(q) : b[k] = q[k]
  BY <1>1
<1> HIDE DEF b
<1>4. b = c
  <2>1. \A k \in 1 .. Len(q) + 1 : b[k] = c[k]
    BY <1>1, <1>2, <1>3
  <2> QED
    BY <1>1, <1>2, <1>3, <2>1
<1> QED
  BY <1>1, <1>4 DEF a, b, c

LEMMA ReadsNumber ==
    ASSUME NEW f \in Seq(Keys), NEW scan, Scanning(scan, f),
           NEW i \in 1 .. Len(f), NEW j \in i .. Len(f),
           \A k \in i .. j : Calc!IsDigit(f[k])
    PROVE  Reads(scan, "factor", i, j, <<Calc!Numeral(f, i, j), 1>>)
<1>1. PICK number :
          /\ number[i] = Calc!DigitOf(f[i])
          /\ \A n \in i + 1 .. j : number[n] = 10 * number[n - 1] + Calc!DigitOf(f[n])
          /\ \A n \in i .. j : number[n] \in Nat
          /\ Calc!Numeral(f, i, j) = number[j]
  BY NumeralIs
<1> DEFINE v == <<Calc!Numeral(f, i, j), 1>>
<1>2. v \in Fractions /\ i - 1 \in 0 .. Len(f)
  BY <1>1 DEF Fractions
<1>3. SUFFICES ASSUME Before(scan[i - 1], "factor")
               PROVE  After(scan[i - 1], scan[j], "factor", v)
  BY <1>2 DEF Reads
<1>4. PICK s : s = scan[i - 1]
  OBVIOUS
<1>5. /\ s \in Scans /\ s \in RPN /\ s.out \in Seq(Tokens) /\ s.ops \in Seq(Ops)
      /\ s.popsEmpty = FALSE /\ s.inNumber = FALSE
  BY <1>2, <1>3, <1>4 DEF Scanning, Scans, RPN, Before
<1> DEFINE Good(n) == /\ scan[n].ops = s.ops /\ scan[n].popsEmpty = FALSE /\ scan[n].inNumber
                      /\ scan[n].out = Append(s.out, Calc!Number(number[n]))
           T == {k \in 0 .. j - i : Good(i + k)}
<1>6. ASSUME NEW n \in i .. j
      PROVE  /\ scan[n - 1] \in RPN /\ scan[n - 1] \in Scans /\ f[n] \in Keys
             /\ Calc!IsDigit(f[n]) /\ scan[n] = Calc!Scan(scan[n - 1], f[n])
             /\ scan[n - 1].popsEmpty = FALSE =>
                   scan[n] = Calc!ScanDigit(scan[n - 1], f[n])
  <2>1. n - 1 \in 0 .. Len(f) /\ n \in 1 .. Len(f)
    BY <1>2
  <2>2. /\ scan[n - 1] \in RPN /\ scan[n - 1] \in Scans /\ f[n] \in Keys
        /\ Calc!IsDigit(f[n]) /\ scan[n] = Calc!Scan(scan[n - 1], f[n])
    BY <2>1 DEF Scanning, Scans
  <2> QED
    BY <2>2, ScanIs
<1>7. 0 \in T
  <2>1. i \in i .. j /\ i + 0 = i /\ 0 \in 0 .. j - i
    OBVIOUS
  <2>2. scan[i] = Calc!ScanDigit(s, f[i]) /\ Calc!IsDigit(f[i])
    BY <1>4, <1>5, <1>6, <2>1
  <2>3. /\ scan[i].ops = s.ops /\ scan[i].popsEmpty = s.popsEmpty /\ scan[i].inNumber
        /\ scan[i].out = Append(s.out, Calc!Number(Calc!DigitOf(f[i])))
    <3> HIDE DEF Good, T
    <3>1. DigitScanned(s, f[i], Calc!ScanDigit(s, f[i]))
      BY <1>5, <1>6, <2>1, ScanDigitIs
    <3>2. DigitScanned(s, f[i], scan[i])
      BY <2>2, <3>1, Zenon
    <3> QED
      BY <1>5, <3>2 DEF DigitScanned
  <2>4. Good(i)
    BY <1>1, <1>5, <2>3
  <2> QED
    BY <2>1, <2>4
<1>8. ASSUME NEW k \in 1 .. j - i, k - 1 \in T PROVE k \in T
  <2> DEFINE n == i + k
             w == scan[n - 1]
  <2>1. n \in i .. j /\ n \in i + 1 .. j /\ n - 1 = i + (k - 1) /\ n - 1 \in i .. j
        /\ k \in 0 .. j - i
    OBVIOUS
  <2>2. Good(n - 1)
    BY <1>8, <2>1
  <2>3. scan[n] = Calc!ScanDigit(w, f[n]) /\ Calc!IsDigit(f[n]) /\ w \in Scans /\ f[n] \in Keys
    BY <1>6, <2>1, <2>2
  <2>4. /\ w.ops = s.ops /\ w.popsEmpty = FALSE /\ w.inNumber
        /\ w.out = Append(s.out, Calc!Number(number[n - 1]))
    BY <2>2
  <2>5. number[n - 1] \in Nat /\ number[n] \in Nat
        /\ number[n] = 10 * number[n - 1] + Calc!DigitOf(f[n])
    BY <1>1, <2>1
  <2> HIDE DEF w, n
  <2>6. /\ scan[n].ops = s.ops /\ scan[n].popsEmpty = FALSE /\ scan[n].inNumber
        /\ scan[n].out = [w.out EXCEPT ![Len(w.out)] =
                            Calc!Number(10 * w.out[Len(w.out)].value + Calc!DigitOf(f[n]))]
    <3> HIDE DEF Good, T
    <3>1. DigitScanned(w, f[n], Calc!ScanDigit(w, f[n]))
      BY <2>3, ScanDigitIs
    <3>2. DigitScanned(w, f[n], scan[n])
      BY <2>3, <3>1, Zenon
    <3> QED
      BY <2>4, <3>2 DEF DigitScanned
  <2>7. ASSUME NEW q \in Seq(Tokens), NEW t \in Tokens, NEW u \in Tokens
        PROVE  /\ Append(q, t)[Len(Append(q, t))] = t
               /\ [Append(q, t) EXCEPT ![Len(Append(q, t))] = u] = Append(q, u)
    BY ReplaceLast
  <2>8. Calc!Number(number[n - 1]) \in Tokens /\ Calc!Number(number[n]) \in Tokens
        /\ Calc!Number(number[n - 1]).value = number[n - 1]
    BY <2>5, TokenTypes DEF Calc!Number
  <2>9. w.out[Len(w.out)] = Calc!Number(number[n - 1])
    BY <1>5, <2>4, <2>7, <2>8
  <2>10. scan[n].out = [w.out EXCEPT ![Len(w.out)] = Calc!Number(number[n])]
    BY <2>5, <2>6, <2>8, <2>9
  <2>11. scan[n].out = Append(s.out, Calc!Number(number[n]))
    <3> DEFINE x == Calc!Number(number[n - 1])
               y == Calc!Number(number[n])
               q == s.out
    <3>1. q \in Seq(Tokens) /\ x \in Tokens /\ y \in Tokens
      BY <1>5, <2>8
    <3>2. w.out = Append(q, x) /\ scan[n].out = [w.out EXCEPT ![Len(w.out)] = y]
      BY <2>4, <2>10
    <3> HIDE DEF x, y, q, Good, T
    <3>3. [Append(q, x) EXCEPT ![Len(Append(q, x))] = y] = Append(q, y)
      BY <3>1, ReplaceLast
    <3>4. scan[n].out = Append(q, y)
      BY <3>2, <3>3, Zenon
    <3> QED
      BY <3>4 DEF q, y
  <2>12. Good(n)
    BY <2>6, <2>11
  <2> QED
    BY <2>1, <2>12 DEF n
<1>9. Good(j)
  <2>1. 0 .. j - i \subseteq T
    <3>1. j - i \in Nat
      OBVIOUS
    <3> HIDE DEF T, Good
    <3> QED
      BY <1>7, <1>8, <3>1, UpTo
  <2>2. j - i \in 0 .. j - i /\ i + (j - i) = j
    OBVIOUS
  <2>3. Good(i + (j - i))
    <3> HIDE DEF Good
    <3> QED
      BY <2>1, <2>2
  <2> QED
    BY <2>2, <2>3
<1>10. PICK e : e = scan[j]
  OBVIOUS
<1>11. e \in RPN /\ e.ops = s.ops /\ ~ e.popsEmpty /\ number[j] \in Nat
       /\ e.out = Append(s.out, Calc!Number(number[j]))
  BY <1>1, <1>9, <1>10 DEF Scanning, Scans
<1>12. Calc!Unstack(e, Len(s.ops)).out = Append(s.out, Calc!Number(number[j]))
  BY <1>11, UnstackNone
<1> DEFINE ev == Calc!Evaluated(s.out)
<1>13. ev \in Evals /\ ev.gaveUp = FALSE
  BY <1>3, <1>4, <1>5, EvaluatedType DEF Before, Evals
<1>14. ev.values \in Seq(Fractions) /\ ev = [values |-> ev.values, gaveUp |-> FALSE]
  <2> HIDE DEF ev
  <2> QED
    BY <1>13 DEF Evals
<1>15. Calc!Evaluated(Append(s.out, Calc!Number(number[j]))) =
           Calc!EvaluateToken(ev, Calc!Number(number[j]))
  BY <1>5, <1>11, TokenTypes, EvaluatedAppend
<1>16. Calc!EvaluateToken(ev, Calc!Number(number[j])) =
           [values |-> Append(ev.values, <<number[j], 1>>), gaveUp |-> FALSE]
  <2> HIDE DEF ev
  <2>1. Calc!EvaluateToken([values |-> ev.values, gaveUp |-> FALSE], Calc!Number(number[j])) =
            [values |-> Append(ev.values, <<number[j], 1>>), gaveUp |-> FALSE]
    BY <1>11, <1>14, NumberEvaluated
  <2> QED
    BY <1>14, <2>1, Zenon
<1>17. Calc!Evaluated(Calc!Unstack(e, Len(s.ops)).out) =
           [values |-> Append(ev.values, v), gaveUp |-> FALSE]
  <2> HIDE DEF ev
  <2> QED
    BY <1>1, <1>12, <1>15, <1>16, Zenon
<1> HIDE DEF v
<1>18. After(s, e, "factor", v)
  BY <1>5, <1>11, <1>17 DEF After, Pending
<1> QED
  BY <1>4, <1>10, <1>18

(* The grammar, as a function of the kinds and the places: what is made of something
   smaller is not smaller than it.                                                  *)
Spans(n) == Kinds \X (1 .. n + 1) \X (0 .. n)
Rank(kind) == IF kind = "sum" THEN 2 ELSE IF kind = "product" THEN 1 ELSE 0
Size(n, p) == 3 * (p[3] - p[2] + n + 1) + Rank(p[1])

LEMMA SizeIs ==
    ASSUME NEW n \in Nat
    PROVE  /\ \A k \in Kinds, i \in 1 .. n + 1, j \in 0 .. n :
                 <<k, i, j>> \in Spans(n) /\ Size(n, <<k, i, j>>) = 3 * (j - i + n + 1) + Rank(k)
           /\ \A p \in Spans(n) : /\ p[1] \in Kinds /\ p[2] \in 1 .. n + 1 /\ p[3] \in 0 .. n
                                  /\ p = <<p[1], p[2], p[3]>>
                                  /\ Size(n, p) \in 0 .. 6 * n + 2
<1>1. ASSUME NEW p \in Spans(n)
      PROVE  /\ p[1] \in Kinds /\ p[2] \in 1 .. n + 1 /\ p[3] \in 0 .. n
             /\ p = <<p[1], p[2], p[3]>> /\ Size(n, p) \in 0 .. 6 * n + 2
  <2>1. p[1] \in Kinds /\ p[2] \in 1 .. n + 1 /\ p[3] \in 0 .. n /\ p = <<p[1], p[2], p[3]>>
    BY DEF Spans
  <2>2. Rank(p[1]) \in 0 .. 2
    BY DEF Rank
  <2> QED
    BY <2>1, <2>2 DEF Size
<1> QED
  BY <1>1 DEF Spans, Size

LEMMA Smaller ==
    ASSUME NEW n \in Nat, NEW i \in 1 .. n + 1, NEW j \in 0 .. n, NEW k \in Kinds, NEW l \in Kinds
    PROVE  /\ \A m \in i + 1 .. j - 1 :
                 /\ <<l, i, m - 1>> \in Spans(n)
                 /\ Size(n, <<l, i, m - 1>>) < Size(n, <<k, i, j>>)
                 /\ <<l, m + 1, j>> \in Spans(n)
                 /\ Size(n, <<l, m + 1, j>>) < Size(n, <<k, i, j>>)
           /\ i < j => /\ <<l, i + 1, j - 1>> \in Spans(n)
                       /\ Size(n, <<l, i + 1, j - 1>>) < Size(n, <<k, i, j>>)
           /\ Rank(l) < Rank(k) => /\ <<l, i, j>> \in Spans(n)
                                   /\ Size(n, <<l, i, j>>) < Size(n, <<k, i, j>>)
<1>1. Rank(k) \in 0 .. 2 /\ Rank(l) \in 0 .. 2
  BY DEF Rank
<1>2. Size(n, <<k, i, j>>) = 3 * (j - i + n + 1) + Rank(k)
  BY SizeIs
<1>3. ASSUME NEW m \in i + 1 .. j - 1
      PROVE  /\ <<l, i, m - 1>> \in Spans(n)
             /\ Size(n, <<l, i, m - 1>>) < Size(n, <<k, i, j>>)
             /\ <<l, m + 1, j>> \in Spans(n)
             /\ Size(n, <<l, m + 1, j>>) < Size(n, <<k, i, j>>)
  <2>1. m - 1 \in 0 .. n /\ m + 1 \in 1 .. n + 1
    OBVIOUS
  <2>2. /\ <<l, i, m - 1>> \in Spans(n) /\ <<l, m + 1, j>> \in Spans(n)
        /\ Size(n, <<l, i, m - 1>>) = 3 * (m - 1 - i + n + 1) + Rank(l)
        /\ Size(n, <<l, m + 1, j>>) = 3 * (j - (m + 1) + n + 1) + Rank(l)
    BY <2>1, SizeIs
  <2> QED
    BY <1>1, <1>2, <2>1, <2>2
<1>4. ASSUME i < j
      PROVE  /\ <<l, i + 1, j - 1>> \in Spans(n)
             /\ Size(n, <<l, i + 1, j - 1>>) < Size(n, <<k, i, j>>)
  <2>1. j - 1 \in 0 .. n /\ i + 1 \in 1 .. n + 1
    BY <1>4
  <2>2. /\ <<l, i + 1, j - 1>> \in Spans(n)
        /\ Size(n, <<l, i + 1, j - 1>>) = 3 * (j - 1 - (i + 1) + n + 1) + Rank(l)
    BY <2>1, SizeIs
  <2> QED
    BY <1>1, <1>2, <2>1, <2>2
<1>5. <<l, i, j>> \in Spans(n) /\ Size(n, <<l, i, j>>) = 3 * (j - i + n + 1) + Rank(l)
  BY SizeIs
<1> QED
  BY <1>1, <1>2, <1>3, <1>4, <1>5

IsJoined(f, value, ops, left, right, i, j, z) ==
    \E m \in i + 1 .. j - 1 :
        \E x \in value[<<left, i, m - 1>>], y \in value[<<right, m + 1, j>>] :
            f[m] \in ops /\ (f[m] # "/" \/ y[1] # 0) /\ z = Calc!Apply(f[m], x, y)

LEMMA JoinedIs ==
    ASSUME NEW f, NEW value, NEW ops, NEW left, NEW right, NEW i, NEW j, NEW z
    PROVE  z \in Calc!Joined(f, value, ops, left, right, i, j) <=>
               IsJoined(f, value, ops, left, right, i, j, z)
<1> DEFINE X(m) == value[<<left, i, m - 1>>]
           Y(m) == {y \in value[<<right, m + 1, j>>] : f[m] # "/" \/ y[1] # 0}
           Of(m) == {Calc!Apply(f[m], x, y) : x \in X(m), y \in Y(m)}
           Ms == {k \in i + 1 .. j - 1 : f[k] \in ops}
<1>1. Calc!Joined(f, value, ops, left, right, i, j) = UNION {Of(m) : m \in Ms}
  BY DEF Calc!Joined
<1>2. z \in UNION {Of(m) : m \in Ms} <=> \E m \in Ms : z \in Of(m)
  <2> HIDE DEF Of, Ms
  <2> QED
    OBVIOUS
<1>3. ASSUME NEW m
      PROVE  z \in Of(m) <=> \E x \in X(m), y \in Y(m) : z = Calc!Apply(f[m], x, y)
  <2> HIDE DEF X, Y
  <2> QED
    OBVIOUS
<1>4. ASSUME NEW m
      PROVE  (\E x \in X(m), y \in Y(m) : z = Calc!Apply(f[m], x, y)) <=>
             \E x \in value[<<left, i, m - 1>>], y \in value[<<right, m + 1, j>>] :
                 (f[m] # "/" \/ y[1] # 0) /\ z = Calc!Apply(f[m], x, y)
  OBVIOUS
<1> HIDE DEF Of, X, Y
<1> QED
  BY <1>1, <1>2, <1>3, <1>4, Zenon DEF IsJoined, Ms

(* A value depends on smaller ones only. *)
LEMMA ValuesDepend ==
    ASSUME NEW f, NEW n \in Nat, NEW g, NEW h,
           NEW k \in Kinds, NEW i \in 1 .. n + 1, NEW j \in 0 .. n,
           \A q \in Spans(n) : Size(n, q) < Size(n, <<k, i, j>>) => g[q] = h[q]
    PROVE  Calc!ValuesOf(f, g, k, i, j) = Calc!ValuesOf(f, h, k, i, j)
<1>1. ASSUME NEW ops, NEW left \in Kinds, NEW right \in Kinds
      PROVE  Calc!Joined(f, g, ops, left, right, i, j) = Calc!Joined(f, h, ops, left, right, i, j)
  <2>1. ASSUME NEW m \in i + 1 .. j - 1
        PROVE  g[<<left, i, m - 1>>] = h[<<left, i, m - 1>>]
               /\ g[<<right, m + 1, j>>] = h[<<right, m + 1, j>>]
    BY Smaller
  <2>2. ASSUME NEW a, NEW b, NEW z, IsJoined(f, a, ops, left, right, i, j, z),
               \A m \in i + 1 .. j - 1 : /\ a[<<left, i, m - 1>>] = b[<<left, i, m - 1>>]
                                         /\ a[<<right, m + 1, j>>] = b[<<right, m + 1, j>>]
        PROVE  IsJoined(f, b, ops, left, right, i, j, z)
    BY <2>2, ZenonT(30) DEF IsJoined
  <2>3. ASSUME NEW z
        PROVE  z \in Calc!Joined(f, g, ops, left, right, i, j) <=>
                   z \in Calc!Joined(f, h, ops, left, right, i, j)
    <3>1. IsJoined(f, g, ops, left, right, i, j, z) => IsJoined(f, h, ops, left, right, i, j, z)
      BY <2>1, <2>2
    <3>2. IsJoined(f, h, ops, left, right, i, j, z) => IsJoined(f, g, ops, left, right, i, j, z)
      BY <2>1, <2>2
    <3> QED
      BY <3>1, <3>2, JoinedIs
  <2> QED
    BY <2>3
<1>2. /\ "sum" \in Kinds /\ "product" \in Kinds /\ "factor" \in Kinds
      /\ Rank("sum") = 2 /\ Rank("product") = 1 /\ Rank("factor") = 0
  BY DEF Kinds, Rank
<1>3. CASE k = "sum"
  <2>1. Rank("product") < Rank(k)
    BY <1>2, <1>3
  <2>2. g[<<"product", i, j>>] = h[<<"product", i, j>>]
    BY <1>2, <2>1, Smaller
  <2>3. /\ Calc!ValuesOf(f, g, k, i, j) = g[<<"product", i, j>>] \cup
               Calc!Joined(f, g, {"+", "-"}, "sum", "product", i, j)
        /\ Calc!ValuesOf(f, h, k, i, j) = h[<<"product", i, j>>] \cup
               Calc!Joined(f, h, {"+", "-"}, "sum", "product", i, j)
    BY <1>3 DEF Calc!ValuesOf
  <2>4. Calc!Joined(f, g, {"+", "-"}, "sum", "product", i, j) =
            Calc!Joined(f, h, {"+", "-"}, "sum", "product", i, j)
    BY <1>1, <1>2
  <2> QED
    BY <2>2, <2>3, <2>4, Zenon
<1>4. CASE k = "product"
  <2>1. Rank("factor") < Rank(k)
    BY <1>2, <1>4
  <2>2. g[<<"factor", i, j>>] = h[<<"factor", i, j>>]
    BY <1>2, <2>1, Smaller
  <2>3. /\ Calc!ValuesOf(f, g, k, i, j) = g[<<"factor", i, j>>] \cup
               Calc!Joined(f, g, {"*", "/"}, "product", "factor", i, j)
        /\ Calc!ValuesOf(f, h, k, i, j) = h[<<"factor", i, j>>] \cup
               Calc!Joined(f, h, {"*", "/"}, "product", "factor", i, j)
    BY <1>4 DEF Calc!ValuesOf
  <2>4. Calc!Joined(f, g, {"*", "/"}, "product", "factor", i, j) =
            Calc!Joined(f, h, {"*", "/"}, "product", "factor", i, j)
    BY <1>1, <1>2
  <2> QED
    BY <2>2, <2>3, <2>4, Zenon
<1>5. CASE k = "factor"
  <2>1. i < j => g[<<"sum", i + 1, j - 1>>] = h[<<"sum", i + 1, j - 1>>]
    BY <1>2, Smaller
  <2> QED
    BY <1>5, <2>1 DEF Calc!ValuesOf
<1> QED
  BY <1>3, <1>4, <1>5 DEF Kinds

Grammar(value, f) ==
    value = [p \in Spans(Len(f)) |-> Calc!ValuesOf(f, value, p[1], p[2], p[3])]

LEMMA GrammarExists ==
    ASSUME NEW f \in Seq(Keys)
    PROVE  \E value : Grammar(value, f)
<1> DEFINE n == Len(f)
           V(g, p) == Calc!ValuesOf(f, g, p[1], p[2], p[3])
           Below(g, k) == \A p \in Spans(n) : Size(n, p) < k => g[p] = V(g, p)
           T == {k \in Nat : \E g : Below(g, k)}
<1>1. n \in Nat
  OBVIOUS
<1> HIDE DEF n
<1>2. ASSUME NEW g, NEW h, NEW p \in Spans(n),
             \A q \in Spans(n) : Size(n, q) < Size(n, p) => g[q] = h[q]
      PROVE  V(g, p) = V(h, p)
  <2>1. /\ p[1] \in Kinds /\ p[2] \in 1 .. n + 1 /\ p[3] \in 0 .. n
        /\ p = <<p[1], p[2], p[3]>>
    BY <1>1, SizeIs
  <2>2. \A q \in Spans(n) : Size(n, q) < Size(n, <<p[1], p[2], p[3]>>) => g[q] = h[q]
    BY <1>2, <2>1, Zenon
  <2> QED
    BY <1>1, <2>1, <2>2, ValuesDepend
<1> HIDE DEF V
<1>3. \A p \in Spans(n) : Size(n, p) \in 0 .. 6 * n + 2
  BY <1>1, SizeIs
<1>4. 0 \in T
  BY <1>3
<1>5. ASSUME NEW k \in 1 .. 6 * n + 3, k - 1 \in T PROVE k \in T
  <2>1. PICK g : Below(g, k - 1)
    BY <1>5
  <2> DEFINE h == [p \in Spans(n) |-> IF Size(n, p) < k - 1 THEN g[p] ELSE V(g, p)]
  <2>2. \A q \in Spans(n) : Size(n, q) < k - 1 => g[q] = h[q]
    OBVIOUS
  <2>3. ASSUME NEW p \in Spans(n), Size(n, p) < k
        PROVE  h[p] = V(h, p)
    <3>1. \A q \in Spans(n) : Size(n, q) < Size(n, p) => Size(n, q) < k - 1
      BY <1>1, <1>3, <2>3
    <3>2. V(g, p) = V(h, p)
      <4> HIDE DEF h
      <4> QED
        BY <1>2, <2>2, <3>1
    <3>3. Size(n, p) < k - 1 => g[p] = V(g, p)
      BY <2>1
    <3>4. h[p] = IF Size(n, p) < k - 1 THEN g[p] ELSE V(g, p)
      OBVIOUS
    <3> HIDE DEF h
    <3> QED
      BY <3>2, <3>3, <3>4
  <2>4. Below(h, k)
    BY <2>3
  <2>5. k \in Nat
    BY <1>1
  <2> HIDE DEF h, Below
  <2> QED
    BY <2>4, <2>5
<1>6. 6 * n + 3 \in T
  <2>1. 0 .. 6 * n + 3 \subseteq T
    <3>1. 6 * n + 3 \in Nat
      BY <1>1
    <3> HIDE DEF T
    <3> QED
      BY <1>4, <1>5, <3>1, UpTo
  <2>2. 6 * n + 3 \in 0 .. 6 * n + 3
    BY <1>1
  <2> HIDE DEF T
  <2> QED
    BY <2>1, <2>2
<1>7. PICK g : Below(g, 6 * n + 3)
  BY <1>6
<1> DEFINE value == [p \in Spans(n) |-> g[p]]
<1>8. \A p \in Spans(n) : value[p] = g[p]
  OBVIOUS
<1>9. ASSUME NEW p \in Spans(n) PROVE g[p] = V(value, p)
  <2>1. V(g, p) = V(value, p)
    <3> HIDE DEF value
    <3> QED
      BY <1>2, <1>8
  <2>2. Size(n, p) < 6 * n + 3
    BY <1>1, <1>3
  <2> HIDE DEF value
  <2> QED
    BY <1>7, <2>1, <2>2
<1>10. value = [p \in Spans(n) |-> V(value, p)]
  BY <1>9
<1> HIDE DEF value
<1> QED
  BY <1>10 DEF Grammar, V, n

LEMMA ValuesAre ==
    ASSUME NEW f \in Seq(Keys)
    PROVE  \E value : Grammar(value, f) /\ Calc!Values(f) = value[<<"sum", 1, Len(f)>>]
<1> DEFINE value == CHOOSE g : Grammar(g, f)
<1>1. Grammar(value, f)
  BY GrammarExists, Zenon
<1>2. Calc!Values(f) = value[<<"sum", 1, Len(f)>>]
  BY DEF Calc!Values, Grammar, Spans, Kinds
<1> HIDE DEF value
<1> QED
  BY <1>1, <1>2

(* What the grammar gives a value is read as that value. *)
LEMMA ReadsLarger ==
    ASSUME NEW f \in Seq(Keys), NEW scan, Scanning(scan, f), NEW value, NEW n, n = Len(f),
           NEW k \in Kinds, NEW i \in 1 .. n + 1, NEW j \in 0 .. n,
           \A l \in Kinds, a \in 1 .. n + 1, b \in 0 .. n :
               Size(n, <<l, a, b>>) < Size(n, <<k, i, j>>) =>
                   \A v \in value[<<l, a, b>>] : a <= b /\ Reads(scan, l, a, b, v),
           NEW v \in Calc!ValuesOf(f, value, k, i, j)
    PROVE  i <= j /\ Reads(scan, k, i, j, v)
<1>1. /\ n \in Nat /\ "sum" \in Kinds /\ "product" \in Kinds /\ "factor" \in Kinds
      /\ Rank("sum") = 2 /\ Rank("product") = 1 /\ Rank("factor") = 0
  BY DEF Kinds, Rank
<1>2. ASSUME NEW kind \in {"sum", "product"}, kind = k,
             v \in value[<<Inner(kind), i, j>>] \/
                 v \in Calc!Joined(f, value, OpsOf(kind), kind, Inner(kind), i, j)
      PROVE  i <= j /\ Reads(scan, k, i, j, v)
  <2>1. kind \in Kinds /\ Inner(kind) \in Kinds /\ Rank(Inner(kind)) < Rank(kind)
    BY <1>1 DEF Inner
  <2>2. CASE v \in value[<<Inner(kind), i, j>>]
    <3>1. Size(n, <<Inner(kind), i, j>>) < Size(n, <<k, i, j>>)
      BY <1>1, <1>2, <2>1, Smaller
    <3>2. i <= j /\ Reads(scan, Inner(kind), i, j, v)
      BY <2>1, <2>2, <3>1
    <3> QED
      BY <1>2, <3>2, ReadsInner
  <2>3. CASE v \in Calc!Joined(f, value, OpsOf(kind), kind, Inner(kind), i, j)
    <3>1. IsJoined(f, value, OpsOf(kind), kind, Inner(kind), i, j, v)
      BY <2>3, JoinedIs
    <3>2. PICK m \in i + 1 .. j - 1 :
              \E x \in value[<<kind, i, m - 1>>], y \in value[<<Inner(kind), m + 1, j>>] :
                  f[m] \in OpsOf(kind) /\ (f[m] # "/" \/ y[1] # 0) /\ v = Calc!Apply(f[m], x, y)
      BY <3>1 DEF IsJoined
    <3>3. PICK x \in value[<<kind, i, m - 1>>], y \in value[<<Inner(kind), m + 1, j>>] :
              f[m] \in OpsOf(kind) /\ (f[m] # "/" \/ y[1] # 0) /\ v = Calc!Apply(f[m], x, y)
      BY <3>2
    <3>4. m - 1 \in 0 .. n /\ m + 1 \in 1 .. n + 1 /\ i \in 1 .. Len(f) /\ j \in 1 .. Len(f)
          /\ i <= j
      BY <1>1
    <3>5. /\ Size(n, <<kind, i, m - 1>>) < Size(n, <<k, i, j>>)
          /\ Size(n, <<Inner(kind), m + 1, j>>) < Size(n, <<k, i, j>>)
      BY <1>1, <1>2, <2>1, Smaller
    <3>6. Reads(scan, kind, i, m - 1, x)
      BY <2>1, <3>3, <3>4, <3>5
    <3>7. Reads(scan, Inner(kind), m + 1, j, y)
      BY <2>1, <3>3, <3>4, <3>5
    <3>8. Reads(scan, kind, i, j, Calc!Apply(f[m], x, y))
      BY <3>3, <3>4, <3>6, <3>7, ReadsJoined
    <3> QED
      BY <1>2, <3>3, <3>4, <3>8, Zenon
  <2> QED
    BY <1>2, <2>2, <2>3
<1>3. CASE k = "sum"
  <2>1. v \in value[<<Inner("sum"), i, j>>] \/
            v \in Calc!Joined(f, value, OpsOf("sum"), "sum", Inner("sum"), i, j)
    BY <1>3 DEF Calc!ValuesOf, Inner, OpsOf
  <2> QED
    BY <1>2, <1>3, <2>1
<1>4. CASE k = "product"
  <2>1. v \in value[<<Inner("product"), i, j>>] \/
            v \in Calc!Joined(f, value, OpsOf("product"), "product", Inner("product"), i, j)
    BY <1>4 DEF Calc!ValuesOf, Inner, OpsOf
  <2> QED
    BY <1>2, <1>4, <2>1
<1>5. CASE k = "factor"
  <2>1. v \in IF i <= j /\ \A l \in i .. j : Calc!IsDigit(f[l])
              THEN {<<Calc!Numeral(f, i, j), 1>>}
              ELSE IF i < j /\ f[i] = "(" /\ f[j] = ")" THEN value[<<"sum", i + 1, j - 1>>]
              ELSE {}
    BY <1>5 DEF Calc!ValuesOf
  <2>2. CASE i <= j /\ \A l \in i .. j : Calc!IsDigit(f[l])
    <3>1. i \in 1 .. Len(f) /\ j \in i .. Len(f)
      BY <1>1, <2>2
    <3>2. v = <<Calc!Numeral(f, i, j), 1>>
      BY <2>1, <2>2
    <3>3. Reads(scan, "factor", i, j, <<Calc!Numeral(f, i, j), 1>>)
      BY <2>2, <3>1, ReadsNumber
    <3> QED
      BY <1>5, <2>2, <3>2, <3>3, Zenon
  <2>3. CASE ~ (i <= j /\ \A l \in i .. j : Calc!IsDigit(f[l]))
    <3>1. i < j /\ f[i] = "(" /\ f[j] = ")" /\ v \in value[<<"sum", i + 1, j - 1>>]
      BY <2>1, <2>3, Zenon
    <3>2. i + 1 \in 1 .. n + 1 /\ j - 1 \in 0 .. n /\ i \in 1 .. Len(f) /\ j \in 1 .. Len(f)
          /\ i <= j
      BY <1>1, <3>1
    <3>3. Size(n, <<"sum", i + 1, j - 1>>) < Size(n, <<k, i, j>>)
      BY <1>1, <3>1, Smaller
    <3>4. Reads(scan, "sum", i + 1, j - 1, v)
      BY <1>1, <3>1, <3>2, <3>3
    <3>5. Reads(scan, "factor", i, j, v)
      BY <3>1, <3>2, <3>4, ReadsParens
    <3> QED
      BY <1>5, <3>2, <3>5
  <2> QED
    BY <2>2, <2>3
<1> QED
  BY <1>3, <1>4, <1>5 DEF Kinds

LEMMA Readable ==
    ASSUME NEW f \in Seq(Keys), NEW scan, Scanning(scan, f), NEW value, Grammar(value, f),
           NEW v \in value[<<"sum", 1, Len(f)>>]
    PROVE  Reads(scan, "sum", 1, Len(f), v)
<1> DEFINE n == Len(f)
           Good(k, i, j) == \A w \in value[<<k, i, j>>] : i <= j /\ Reads(scan, k, i, j, w)
           T == {b \in Nat : \A k \in Kinds, i \in 1 .. n + 1, j \in 0 .. n :
                                 Size(n, <<k, i, j>>) < b => Good(k, i, j)}
<1>1. n \in Nat
  OBVIOUS
<1>2. ASSUME NEW k \in Kinds, NEW i \in 1 .. n + 1, NEW j \in 0 .. n
      PROVE  /\ Size(n, <<k, i, j>>) \in 0 .. 6 * n + 2
             /\ value[<<k, i, j>>] = Calc!ValuesOf(f, value, k, i, j)
  <2>1. <<k, i, j>> \in Spans(n)
    BY DEF Spans
  <2>2. Size(n, <<k, i, j>>) \in 0 .. 6 * n + 2
    BY <1>1, <2>1, SizeIs
  <2>3. value[<<k, i, j>>] = Calc!ValuesOf(f, value, <<k, i, j>>[1], <<k, i, j>>[2], <<k, i, j>>[3])
    BY <2>1, Zenon DEF Grammar
  <2> QED
    BY <2>2, <2>3
<1> HIDE DEF n
<1>3. 0 \in T
  BY <1>2
<1>4. ASSUME NEW b \in 1 .. 6 * n + 3, b - 1 \in T PROVE b \in T
  <2>1. ASSUME NEW k \in Kinds, NEW i \in 1 .. n + 1, NEW j \in 0 .. n,
               Size(n, <<k, i, j>>) < b, NEW w \in value[<<k, i, j>>]
        PROVE  i <= j /\ Reads(scan, k, i, j, w)
    <3>1. ASSUME NEW l \in Kinds, NEW x \in 1 .. n + 1, NEW y \in 0 .. n,
                 Size(n, <<l, x, y>>) < Size(n, <<k, i, j>>)
          PROVE  \A u \in value[<<l, x, y>>] : x <= y /\ Reads(scan, l, x, y, u)
      <4>1. Size(n, <<l, x, y>>) < b - 1
        <5>1. Size(n, <<l, x, y>>) \in Int /\ Size(n, <<k, i, j>>) \in Int /\ b \in Int
          BY <1>1, <1>2
        <5> QED
          BY <2>1, <3>1, <5>1
      <4>2. Good(l, x, y)
        <5> HIDE DEF Good
        <5> QED
          BY <1>4, <4>1
      <4> QED
        BY <4>2
    <3>2. w \in Calc!ValuesOf(f, value, k, i, j)
      BY <1>2, <2>1
    <3> QED
      BY <3>1, <3>2, ReadsLarger DEF n
  <2>2. b \in Nat
    BY <1>1
  <2> QED
    BY <2>1, <2>2
<1>5. 6 * n + 3 \in T
  <2>1. 0 .. 6 * n + 3 \subseteq T
    <3>1. 6 * n + 3 \in Nat
      BY <1>1
    <3> HIDE DEF T
    <3> QED
      BY <1>3, <1>4, <3>1, UpTo
  <2>2. 6 * n + 3 \in 0 .. 6 * n + 3
    BY <1>1
  <2> HIDE DEF T
  <2> QED
    BY <2>1, <2>2
<1>6. "sum" \in Kinds /\ 1 \in 1 .. n + 1 /\ n \in 0 .. n
  BY <1>1 DEF Kinds
<1>7. Size(n, <<"sum", 1, n>>) < 6 * n + 3
  <2>1. Size(n, <<"sum", 1, n>>) \in 0 .. 6 * n + 2
    BY <1>2, <1>6
  <2> QED
    BY <1>1, <2>1
<1>8. Good("sum", 1, n)
  <2> HIDE DEF Good
  <2> QED
    BY <1>5, <1>6, <1>7
<1> QED
  BY <1>8 DEF n

(* A formula with a value is evaluated to that value: the stack of operators never
   runs empty, and the detour over it computes what the grammar says.              *)
LEMMA Parsed ==
    ASSUME NEW f \in Seq(Keys), NEW v \in Calc!Values(f)
    PROVE  /\ ~ Calc!InfixToRPN(f).popsEmpty
           /\ Calc!EvaluateRPN(Calc!InfixToRPN(f).out) = v
<1>1. PICK scan : Scanning(scan, f) /\ Calc!Scanned(f) = scan[Len(f)]
  BY ScannedIs
<1>2. PICK value : Grammar(value, f) /\ Calc!Values(f) = value[<<"sum", 1, Len(f)>>]
  BY ValuesAre
<1>3. Reads(scan, "sum", 1, Len(f), v)
  BY <1>1, <1>2, Readable
<1>4. PICK s, e : s = scan[0] /\ e = scan[Len(f)]
  OBVIOUS
<1>5. s = Calc!Unscanned /\ e \in RPN /\ Calc!Scanned(f) = e
  BY <1>1, <1>4 DEF Scanning, Scans
<1>6. /\ ~ s.popsEmpty /\ ~ s.inNumber /\ s.ops = <<>> /\ s.out = <<>> /\ Len(s.ops) = 0
  BY <1>5 DEF Calc!Unscanned
<1>7. Calc!Evaluated(s.out).gaveUp = FALSE /\ Calc!Evaluated(s.out).values = <<>>
  BY <1>6, EvaluatedEmpty DEF Calc!Unevaluated
<1>8. After(s, e, "sum", v)
  <2>1. Before(s, "sum")
    BY <1>6, <1>7 DEF Before
  <2> QED
    BY <1>3, <1>4, <2>1 DEF Reads
<1>9. ~ e.popsEmpty /\ Calc!Evaluated(Calc!Unstack(e, 0).out) =
                            [values |-> Append(<<>>, v), gaveUp |-> FALSE]
  BY <1>6, <1>7, <1>8 DEF After
<1>10. Calc!InfixToRPN(f) = Calc!Unstack(e, 0) /\ 0 \in 0 .. Len(e.ops)
  BY <1>5 DEF Calc!InfixToRPN, RPN
<1>11. Calc!InfixToRPN(f).popsEmpty = e.popsEmpty
  BY <1>5, <1>10, UnstackType
<1>12. Calc!Evaluated(Calc!InfixToRPN(f).out) = [values |-> <<v>>, gaveUp |-> FALSE]
  BY <1>9, <1>10
<1> QED
  BY <1>9, <1>11, <1>12 DEF Calc!EvaluateRPN

(* Parentheses are counted. *)
Places(q, n, key) == {i \in 1 .. n : q[i] = key}
Opens(ops) == Cardinality(Places(ops, Len(ops), "("))

LEMMA CountIs ==
    ASSUME NEW q, NEW n, NEW key
    PROVE  Calc!Count(q, n, key) = Cardinality(Places(q, n, key))
<1>1. ASSUME NEW S PROVE Calc!Cardinality(S) = Cardinality(S)
  BY Zenon DEF Calc!Cardinality, Cardinality
<1> QED
  BY <1>1, Zenon DEF Calc!Count, Places

LEMMA PlacesCount ==
    ASSUME NEW q, NEW key
    PROVE  /\ Cardinality(Places(q, 0, key)) = 0
           /\ \A n \in Nat : /\ IsFiniteSet(Places(q, n, key))
                             /\ Cardinality(Places(q, n, key)) \in Nat
           /\ \A n \in Nat \ {0} : Cardinality(Places(q, n, key)) =
                  Cardinality(Places(q, n - 1, key)) + IF q[n] = key THEN 1 ELSE 0
<1>1. Cardinality(Places(q, 0, key)) = 0
  <2>1. Places(q, 0, key) = {}
    BY DEF Places
  <2> QED
    BY <2>1, FS_EmptySet
<1>2. ASSUME NEW n \in Nat
      PROVE  IsFiniteSet(Places(q, n, key)) /\ Cardinality(Places(q, n, key)) \in Nat
  <2>1. IsFiniteSet(1 .. n)
    BY FS_Interval
  <2>2. Places(q, n, key) \subseteq 1 .. n
    BY DEF Places
  <2>3. IsFiniteSet(Places(q, n, key))
    BY <2>1, <2>2, FS_Subset
  <2> QED
    BY <2>3, FS_CardinalityType
<1>3. ASSUME NEW n \in Nat \ {0}
      PROVE  Cardinality(Places(q, n, key)) =
                 Cardinality(Places(q, n - 1, key)) + IF q[n] = key THEN 1 ELSE 0
  <2>1. /\ n - 1 \in Nat /\ n \notin Places(q, n - 1, key)
        /\ q[n] = key => Places(q, n, key) = Places(q, n - 1, key) \cup {n}
        /\ q[n] # key => Places(q, n, key) = Places(q, n - 1, key)
    BY DEF Places
  <2>2. IsFiniteSet(Places(q, n - 1, key)) /\ Cardinality(Places(q, n - 1, key)) \in Nat
    BY <1>2, <2>1
  <2>3. Cardinality(Places(q, n - 1, key) \cup {n}) = Cardinality(Places(q, n - 1, key)) + 1
    BY <2>1, <2>2, FS_AddElement
  <2> QED
    BY <2>1, <2>2, <2>3
<1> QED
  BY <1>1, <1>2, <1>3

LEMMA OpensOf ==
    ASSUME NEW ops \in Seq(Ops)
    PROVE  /\ Opens(ops) \in Nat
           /\ \A op \in Ops : Opens(Append(ops, op)) = Opens(ops) + IF op = "(" THEN 1 ELSE 0
           /\ \A keep \in 0 .. Len(ops) :
                  (\A k \in keep + 1 .. Len(ops) : ops[k] # "(") =>
                      Opens(ops) = Opens(SubSeq(ops, 1, keep))
           /\ \A k \in 1 .. Len(ops) : ops[k] = "(" =>
                  Opens(SubSeq(ops, 1, k)) = Opens(SubSeq(ops, 1, k - 1)) + 1
<1>1. Opens(ops) \in Nat
  <2>1. Len(ops) \in Nat
    OBVIOUS
  <2> QED
    BY <2>1, PlacesCount DEF Opens
<1>2. ASSUME NEW op \in Ops
      PROVE  Opens(Append(ops, op)) = Opens(ops) + IF op = "(" THEN 1 ELSE 0
  <2>1. /\ Len(ops) \in Nat /\ Len(Append(ops, op)) = Len(ops) + 1
        /\ Append(ops, op)[Len(ops) + 1] = op
        /\ \A k \in 1 .. Len(ops) : Append(ops, op)[k] = ops[k]
    OBVIOUS
  <2> DEFINE more == Append(ops, op)
  <2> HIDE DEF more
  <2>2. Places(more, Len(ops), "(") = Places(ops, Len(ops), "(")
    BY <2>1 DEF Places, more
  <2>3. Cardinality(Places(more, Len(ops) + 1, "(")) =
            Cardinality(Places(more, Len(ops), "(")) + IF more[Len(ops) + 1] = "(" THEN 1 ELSE 0
    <3>1. PICK k \in Nat \ {0} : k = Len(ops) + 1 /\ k - 1 = Len(ops)
      BY <2>1
    <3>2. Cardinality(Places(more, k, "(")) =
              Cardinality(Places(more, k - 1, "(")) + IF more[k] = "(" THEN 1 ELSE 0
      BY PlacesCount
    <3> QED
      BY <3>1, <3>2
  <2> QED
    BY <2>1, <2>2, <2>3, Zenon DEF Opens, more
<1>3. ASSUME NEW keep \in 0 .. Len(ops), \A k \in keep + 1 .. Len(ops) : ops[k] # "("
      PROVE  Opens(ops) = Opens(SubSeq(ops, 1, keep))
  <2>1. /\ Len(SubSeq(ops, 1, keep)) = keep
        /\ \A k \in 1 .. keep : SubSeq(ops, 1, keep)[k] = ops[k]
    OBVIOUS
  <2>2. Places(SubSeq(ops, 1, keep), keep, "(") = Places(ops, Len(ops), "(")
    BY <1>3, <2>1 DEF Places
  <2> QED
    BY <2>1, <2>2, Zenon DEF Opens
<1>4. ASSUME NEW k \in 1 .. Len(ops), ops[k] = "("
      PROVE  Opens(SubSeq(ops, 1, k)) = Opens(SubSeq(ops, 1, k - 1)) + 1
  <2>1. /\ Len(SubSeq(ops, 1, k)) = k /\ Len(SubSeq(ops, 1, k - 1)) = k - 1
        /\ SubSeq(ops, 1, k)[k] = ops[k] /\ k \in Nat \ {0}
        /\ \A j \in 1 .. k - 1 : SubSeq(ops, 1, k)[j] = SubSeq(ops, 1, k - 1)[j]
    OBVIOUS
  <2> DEFINE a == SubSeq(ops, 1, k)
             b == SubSeq(ops, 1, k - 1)
  <2>2. /\ Len(a) = k /\ Len(b) = k - 1 /\ a[k] = "(" /\ k \in Nat \ {0}
        /\ \A j \in 1 .. k - 1 : a[j] = b[j]
    BY <1>4, <2>1
  <2> HIDE DEF a, b
  <2>3. Places(a, k - 1, "(") = Places(b, k - 1, "(")
    BY <2>2 DEF Places
  <2>4. Cardinality(Places(a, k, "(")) = Cardinality(Places(a, k - 1, "(")) + 1
    BY <2>2, PlacesCount
  <2>5. Opens(a) = Opens(b) + 1
    BY <2>2, <2>3, <2>4, Zenon DEF Opens
  <2> QED
    BY <2>5 DEF a, b
<1> QED
  BY <1>1, <1>2, <1>3, <1>4

(* What a key does to the parentheses on the stack. *)
LEMMA OpensScanned ==
    ASSUME NEW s \in Scans, ~ s.popsEmpty, NEW key \in Keys, NEW e, e = Calc!Scan(s, key)
    PROVE  /\ Opens(s.ops) \in Nat
           /\ key # "(" /\ key # ")" => ~ e.popsEmpty /\ Opens(e.ops) = Opens(s.ops)
           /\ key = "(" => ~ e.popsEmpty /\ Opens(e.ops) = Opens(s.ops) + 1
           /\ key = ")" => IF e.popsEmpty THEN Opens(s.ops) = 0
                           ELSE Opens(s.ops) = Opens(e.ops) + 1
<1>1. s \in RPN /\ s.ops \in Seq(Ops) /\ s.popsEmpty = FALSE /\ Len(s.ops) \in Nat
  BY DEF Scans, RPN
<1>2. Opens(s.ops) \in Nat
  BY <1>1, OpensOf
<1>3. CASE Calc!IsDigit(key)
  <2>1. e = Calc!ScanDigit(s, key)
    BY <1>1, <1>3, ScanIs
  <2>2. DigitScanned(s, key, e)
    BY <1>3, <2>1, ScanDigitIs
  <2>3. key # "(" /\ key # ")"
    BY <1>3, KeyKinds DEF Ops
  <2> QED
    BY <1>1, <1>2, <2>2, <2>3 DEF DigitScanned
<1>4. CASE key \in Calc!Operators
  <2> DEFINE keep == Calc!Stay(s.ops, Calc!Weaker(key))
  <2>1. keep \in 0 .. Len(s.ops) /\ \A k \in keep + 1 .. Len(s.ops) : s.ops[k] \notin Calc!Weaker(key)
    BY <1>1, StayIs
  <2>2. e = Calc!ScanOperator(Calc!AfterNumber(s), key)
    BY <1>1, <1>4, ScanIs
  <2>3. e.ops = Append(SubSeq(s.ops, 1, keep), key) /\ e.popsEmpty = s.popsEmpty
    BY <1>1, <1>4, <2>2, ScanOperatorIs
  <2> HIDE DEF keep
  <2>4. "(" \in Calc!Weaker(key) /\ key \in Ops /\ key # "(" /\ key # ")"
    BY <1>4 DEF Calc!Weaker, Calc!Precedence, Calc!Operators, Ops
  <2>5. Opens(s.ops) = Opens(SubSeq(s.ops, 1, keep))
    BY <1>1, <2>1, <2>4, OpensOf
  <2>6. SubSeq(s.ops, 1, keep) \in Seq(Ops)
    BY <1>1, <2>1
  <2>7. Opens(Append(SubSeq(s.ops, 1, keep), key)) = Opens(SubSeq(s.ops, 1, keep)) + 0
    BY <2>4, <2>6, OpensOf
  <2> QED
    BY <1>1, <1>2, <2>3, <2>4, <2>5, <2>7
<1>5. CASE key = "("
  <2>1. e = [Calc!AfterNumber(s) EXCEPT !.ops = Append(s.ops, "(")]
    BY <1>1, <1>5, ScanIs
  <2>2. /\ e.ops = Append(s.ops, "(") /\ e.popsEmpty = s.popsEmpty
    BY <1>1, <2>1 DEF Calc!AfterNumber, RPN
  <2>3. Opens(Append(s.ops, "(")) = Opens(s.ops) + 1
    BY <1>1, OpensOf DEF Ops
  <2> QED
    BY <1>1, <1>2, <1>5, <2>2, <2>3
<1>6. CASE key = ")"
  <2> DEFINE open == Calc!Stay(s.ops, {"("})
  <2>1. /\ open \in 0 .. Len(s.ops) /\ \A k \in open + 1 .. Len(s.ops) : s.ops[k] # "("
        /\ open # 0 => s.ops[open] = "("
    BY <1>1, StayIs
  <2>2. e = Calc!ScanClose(Calc!AfterNumber(s))
    BY <1>1, <1>6, ScanIs
  <2>3. /\ open = 0 => e.popsEmpty
        /\ open # 0 => e.popsEmpty = s.popsEmpty /\ e.ops = SubSeq(s.ops, 1, open - 1)
    BY <1>1, <2>2, ScanCloseIs
  <2> HIDE DEF open
  <2>4. Opens(s.ops) = Opens(SubSeq(s.ops, 1, open))
    BY <1>1, <2>1, OpensOf
  <2>5. ASSUME open = 0 PROVE Opens(s.ops) = 0
    <3>1. SubSeq(s.ops, 1, 0) = <<>> /\ Len(<<>>) = 0
      BY <1>1
    <3>2. Opens(<<>>) = 0
      BY <3>1, PlacesCount DEF Opens
    <3> QED
      BY <2>4, <2>5, <3>1, <3>2
  <2>6. ASSUME open # 0 PROVE Opens(s.ops) = Opens(e.ops) + 1
    <3>1. open \in 1 .. Len(s.ops) /\ s.ops[open] = "("
      BY <1>1, <2>1, <2>6
    <3>2. Opens(SubSeq(s.ops, 1, open)) = Opens(SubSeq(s.ops, 1, open - 1)) + 1
      BY <1>1, <3>1, OpensOf
    <3> QED
      BY <2>3, <2>4, <2>6, <3>2
  <2> QED
    BY <1>1, <1>2, <1>6, <2>3, <2>5, <2>6
<1> QED
  BY <1>3, <1>4, <1>5, <1>6, KeyKinds

(* The stack of operators runs empty only for a parenthesis too many. *)
LEMMA PopsEmptyUnbalanced ==
    ASSUME NEW f \in Seq(Keys), Calc!InfixToRPN(f).popsEmpty
    PROVE  \E n \in 1 .. Len(f) : Calc!Count(f, n, ")") > Calc!Count(f, n, "(")
<1>1. PICK scan : Scanning(scan, f) /\ Calc!Scanned(f) = scan[Len(f)]
  BY ScannedIs
<1> DEFINE m == Len(f)
           Bad == \E n \in 1 .. m : Calc!Count(f, n, ")") > Calc!Count(f, n, "(")
           Good(n) == /\ ~ scan[n].popsEmpty
                      /\ Opens(scan[n].ops) + Calc!Count(f, n, ")") = Calc!Count(f, n, "(")
           T == {n \in 0 .. m : Good(n) \/ Bad}
<1>2. m \in Nat
  OBVIOUS
<1>3. ASSUME NEW n \in 0 .. m, NEW key
      PROVE  Calc!Count(f, n, key) \in Nat
  <2>1. n \in Nat
    BY <1>2
  <2> QED
    BY <2>1, CountIs, PlacesCount
<1>4. ASSUME NEW n \in 1 .. m, NEW key
      PROVE  Calc!Count(f, n, key) = Calc!Count(f, n - 1, key) + IF f[n] = key THEN 1 ELSE 0
  <2>1. n \in Nat \ {0}
    BY <1>2
  <2> QED
    BY <2>1, CountIs, PlacesCount
<1>5. ASSUME NEW n \in 1 .. m
      PROVE  scan[n] = Calc!Scan(scan[n - 1], f[n]) /\ scan[n - 1] \in Scans /\ f[n] \in Keys
  <2>1. n - 1 \in 0 .. m
    BY <1>2
  <2> QED
    BY <1>1, <2>1 DEF Scanning
<1> HIDE DEF m
<1>6. 0 \in T
  <2>1. ~ scan[0].popsEmpty /\ scan[0].ops = <<>>
    BY <1>1 DEF Scanning, Calc!Unscanned
  <2>2. Len(<<>>) = 0
    OBVIOUS
  <2>3. Opens(<<>>) = 0 /\ Calc!Count(f, 0, ")") = 0 /\ Calc!Count(f, 0, "(") = 0
    BY <2>2, CountIs, PlacesCount DEF Opens
  <2>4. Good(0)
    BY <2>1, <2>3
  <2> QED
    BY <1>2, <2>4
<1>7. ASSUME NEW n \in 1 .. m, n - 1 \in T PROVE n \in T
  <2>1. n \in 0 .. m /\ n - 1 \in 0 .. m
    BY <1>2
  <2>2. CASE Bad
    <3> HIDE DEF Bad, Good
    <3> QED
      BY <2>1, <2>2
  <2>3. CASE Good(n - 1)
    <3>1. PICK s, e, key : s = scan[n - 1] /\ e = scan[n] /\ key = f[n]
      OBVIOUS
    <3>2. s \in Scans /\ key \in Keys /\ e = Calc!Scan(s, key) /\ ~ s.popsEmpty
      BY <1>5, <2>3, <3>1
    <3>3. /\ Opens(s.ops) \in Nat
          /\ key # "(" /\ key # ")" => ~ e.popsEmpty /\ Opens(e.ops) = Opens(s.ops)
          /\ key = "(" => ~ e.popsEmpty /\ Opens(e.ops) = Opens(s.ops) + 1
          /\ key = ")" => IF e.popsEmpty THEN Opens(s.ops) = 0
                          ELSE Opens(s.ops) = Opens(e.ops) + 1
      BY <3>2, OpensScanned
    <3>4. PICK a, b, c, d : /\ a = Calc!Count(f, n - 1, "(") /\ b = Calc!Count(f, n - 1, ")")
                            /\ c = Calc!Count(f, n, "(") /\ d = Calc!Count(f, n, ")")
      OBVIOUS
    <3>5. /\ a \in Nat /\ b \in Nat /\ c \in Nat /\ d \in Nat
          /\ c = a + (IF key = "(" THEN 1 ELSE 0) /\ d = b + (IF key = ")" THEN 1 ELSE 0)
      BY <1>3, <1>4, <2>1, <3>1, <3>4
    <3>6. Opens(s.ops) + b = a
      BY <2>3, <3>1, <3>4
    <3>7. d > c => Bad
      BY <3>4
    <3>8. ~ e.popsEmpty /\ Opens(e.ops) + d = c => Good(n)
      BY <3>1, <3>4
    <3> HIDE DEF Good, Bad
    <3>9. key = "(" \/ key = ")" \/ (key # "(" /\ key # ")")
      OBVIOUS
    <3>10. CASE key = "("
      BY <2>1, <3>3, <3>5, <3>6, <3>8, <3>10
    <3>11. CASE key = ")" /\ e.popsEmpty
      BY <2>1, <3>3, <3>5, <3>6, <3>7, <3>11
    <3>12. CASE key = ")" /\ ~ e.popsEmpty
      <4>1. e.ops \in Seq(Ops)
        BY <3>2, ScanType DEF Scans, RPN
      <4>2. Opens(e.ops) \in Nat
        BY <4>1, OpensOf
      <4> QED
        BY <2>1, <3>3, <3>5, <3>6, <3>8, <3>12, <4>2
    <3>13. CASE key # "(" /\ key # ")"
      BY <2>1, <3>3, <3>5, <3>6, <3>8, <3>13
    <3> QED
      BY <3>10, <3>11, <3>12, <3>13
  <2> QED
    BY <1>7, <2>2, <2>3
<1>8. Good(m) \/ Bad
  <2>1. 0 .. m \subseteq T
    <3> HIDE DEF T
    <3> QED
      BY <1>2, <1>6, <1>7, UpTo
  <2>2. m \in 0 .. m
    BY <1>2
  <2> HIDE DEF Good, Bad
  <2> QED
    BY <2>1, <2>2
<1>9. scan[m].popsEmpty
  <2>1. scan[m] \in RPN
    BY <1>1, <1>2 DEF Scanning, Scans, m
  <2>2. PICK e : e = scan[m]
    OBVIOUS
  <2>3. e \in RPN /\ Calc!InfixToRPN(f) = Calc!Unstack(e, 0) /\ 0 \in 0 .. Len(e.ops)
    BY <1>1, <2>1, <2>2 DEF Calc!InfixToRPN, RPN, m
  <2>4. Calc!InfixToRPN(f).popsEmpty = e.popsEmpty
    BY <2>3, UnstackType
  <2> QED
    BY <2>2, <2>4
<1> QED
  BY <1>8, <1>9 DEF m

LEMMA ResultType ==
    ASSUME NEW f \in Seq(Keys)
    PROVE  /\ Calc!InfixToRPN(f).popsEmpty \in BOOLEAN
           /\ Calc!EvaluateRPN(Calc!InfixToRPN(f).out) \in Fractions
<1>1. PICK e : e \in RPN /\ Calc!Scanned(f) = e
  <2>1. PICK scan : Scanning(scan, f) /\ Calc!Scanned(f) = scan[Len(f)]
    BY ScannedIs
  <2> QED
    BY <2>1 DEF Scanning, Scans
<1>2. Calc!InfixToRPN(f) = Calc!Unstack(e, 0) /\ 0 \in 0 .. Len(e.ops)
  BY <1>1 DEF Calc!InfixToRPN, RPN
<1>3. Calc!InfixToRPN(f) \in RPN
  BY <1>1, <1>2, UnstackType
<1>4. PICK out : out = Calc!InfixToRPN(f).out /\ out \in Seq(Tokens)
  BY <1>3 DEF RPN
<1>5. Calc!EvaluateRPN(out) \in Fractions
  <2>1. PICK end : end = Calc!Evaluated(out) /\ end \in Evals
    BY <1>4, EvaluatedType
  <2>2. end.values \in Seq(Fractions) /\ Calc!Zero \in Fractions
    BY <2>1 DEF Evals, Fractions, Calc!Zero
  <2>3. end.values # <<>> => end.values[Len(end.values)] \in Fractions
    <3> HIDE DEF Fractions
    <3> QED
      BY <2>2
  <2>4. Calc!EvaluateRPN(out) = IF end.gaveUp \/ end.values = <<>> THEN Calc!Zero
                                ELSE end.values[Len(end.values)]
    BY <2>1 DEF Calc!EvaluateRPN
  <2> QED
    BY <2>2, <2>3, <2>4
<1> QED
  BY <1>3, <1>4, <1>5 DEF RPN

-----------------------------------------------------------------------------
(* The calculator: its type, and its two properties, are inductive. *)
CalcInv == Calc!CalculatorTypeOK /\ Calc!ResultIsTheValue /\ Calc!CrashesOnlyUnbalanced

LEMMA CalcInit == ASSUME Calc!Init PROVE CalcInv
<1>1. formula \in Seq(Keys) /\ Len(formula) = 0 /\ result = NoResult /\ crashed = FALSE
      /\ newInput = TRUE
  BY DEF Calc!Init
<1>2. MaxKeys \in Nat /\ 0 <= MaxKeys
  BY InstanceParameters DEF Calc!CalculatorParameters
<1>3. Calc!CalculatorTypeOK
  BY <1>1, <1>2 DEF Calc!CalculatorTypeOK
<1> QED
  BY <1>1, <1>3, Zenon DEF CalcInv, Calc!ResultIsTheValue, Calc!CrashesOnlyUnbalanced

LEMMA CalcKey ==
    ASSUME CalcInv, NEW key \in Keys, Calc!PressKey(key)
    PROVE  CalcInv'
<1>1. /\ formula' = IF newInput THEN <<key>> ELSE Append(formula, key)
      /\ (newInput \/ Len(formula) < MaxKeys) /\ newInput' = FALSE
      /\ result' = NoResult /\ crashed' = FALSE
      /\ formula \in Seq(Keys) /\ Len(formula) \in Nat /\ Len(formula) <= MaxKeys
  BY DEF Calc!PressKey, CalcInv, Calc!CalculatorTypeOK
<1>2. MaxKeys \in Nat \ {0}
  BY InstanceParameters DEF Calc!CalculatorParameters
<1>3. formula' \in Seq(Keys) /\ Len(formula') <= MaxKeys
  BY <1>1, <1>2 DEF Calc!PressKey
<1> QED
  BY <1>1, <1>3 DEF CalcInv, Calc!CalculatorTypeOK, Calc!ResultIsTheValue,
                    Calc!CrashesOnlyUnbalanced

LEMMA CalcEquals == ASSUME CalcInv, Calc!PressEquals PROVE CalcInv'
<1> DEFINE rpn == Calc!InfixToRPN(formula)
           value == Calc!EvaluateRPN(rpn.out)
<1>1. /\ formula' = formula /\ newInput' = TRUE /\ crashed' = rpn.popsEmpty
      /\ result' = IF rpn.popsEmpty \/ (newInput /\ formula # <<>>) THEN NoResult ELSE value
  BY DEF Calc!PressEquals
<1>2. formula \in Seq(Keys) /\ Len(formula) <= MaxKeys
  BY DEF CalcInv, Calc!CalculatorTypeOK
<1>3. rpn.popsEmpty \in BOOLEAN /\ value \in Fractions
  BY <1>2, ResultType
<1>4. ASSUME NEW v \in Calc!Values(formula) PROVE value = v
  BY <1>2, <1>4, Parsed
<1>5. rpn.popsEmpty =>
          \E n \in 1 .. Len(formula) : Calc!Count(formula, n, ")") > Calc!Count(formula, n, "(")
  BY <1>2, PopsEmptyUnbalanced
<1> HIDE DEF rpn, value
<1>6. Calc!CalculatorTypeOK'
  <2>1. result' = NoResult \/ DOMAIN result' = {1, 2}
    <3>1. \A x \in Fractions : DOMAIN x = {1, 2}
      BY DEF Fractions
    <3> QED
      BY <1>1, <1>3, <3>1
  <2> QED
    BY <1>1, <1>2, <1>3, <2>1 DEF Calc!CalculatorTypeOK
<1>7. Calc!ResultIsTheValue'
  <2>1. ASSUME result' # NoResult, NEW v \in Calc!Values(formula)
        PROVE  Calc!SameNumber(result', v)
    <3>1. result' = v
      BY <1>1, <1>4, <2>1
    <3> QED
      BY <3>1, Zenon DEF Calc!SameNumber
  <2>2. Calc!Values(formula)' = Calc!Values(formula')
    OBVIOUS
  <2> QED
    BY <1>1, <2>1, Zenon DEF Calc!ResultIsTheValue
<1>8. Calc!CrashesOnlyUnbalanced'
  BY <1>1, <1>5, Zenon DEF Calc!CrashesOnlyUnbalanced
<1> QED
  BY <1>6, <1>7, <1>8 DEF CalcInv

LEMMA CalcClear == ASSUME CalcInv, Calc!PressClear PROVE CalcInv'
<1>1. formula' \in Seq(Keys) /\ Len(formula') = 0 /\ result' = NoResult /\ crashed' = FALSE
      /\ newInput' = TRUE
  BY DEF Calc!PressClear, CalcInv, Calc!CalculatorTypeOK
<1>2. MaxKeys \in Nat /\ 0 <= MaxKeys
  BY InstanceParameters DEF Calc!CalculatorParameters
<1>3. Calc!CalculatorTypeOK'
  BY <1>1, <1>2 DEF Calc!CalculatorTypeOK
<1> QED
  BY <1>1, <1>3, Zenon DEF CalcInv, Calc!ResultIsTheValue, Calc!CrashesOnlyUnbalanced

LEMMA CalcStep == ASSUME CalcInv, [Calc!Next]_calcVars PROVE CalcInv'
<1>1. CASE UNCHANGED calcVars
  <2>1. formula' = formula /\ newInput' = newInput /\ result' = result /\ crashed' = crashed
    BY <1>1 DEF calcVars
  <2> QED
    BY <2>1, Zenon DEF CalcInv, Calc!CalculatorTypeOK, Calc!ResultIsTheValue,
                       Calc!CrashesOnlyUnbalanced
<1>2. CASE Calc!Next
  BY <1>2, CalcKey, CalcEquals, CalcClear DEF Calc!Next
<1> QED
  BY <1>1, <1>2

-----------------------------------------------------------------------------
(* What is left of the parts: the behaviours of Wifi, of the calculator, and the types. *)
LEMMA PartsAreWifi == PartsSpec => Spec
<1>1. PartsInit => Init
  BY DEF PartsInit
<1>2. [PartsNext]_allVars => [Next]_vars
  BY DEF PartsNext, Rest, allVars
<1> QED
  BY <1>1, <1>2, PTL DEF PartsSpec, Spec

LEMMA PartsCalculate == PartsSpec => []CalcInv
<1>1. PartsInit => CalcInv
  BY CalcInit DEF PartsInit
<1>2. CalcInv /\ [PartsNext]_allVars => CalcInv'
  <2>1. [PartsNext]_allVars => [Calc!Next]_calcVars
    BY DEF PartsNext, Rest, allVars
  <2> QED
    BY <2>1, CalcStep
<1> QED
  BY <1>1, <1>2, PTL DEF PartsSpec

(* An answer of a GPS receiver that is reported was sent, as far as the reader looks
   at it, and one that was sent is missed only right behind the beginning of another
   (getAck(), getACKCas()), for any bytes that are sent and any text of frame
   errors; the calculator answers with the value of its formula: infixToRPN() and
   evaluateRPN() compute, by way of two stacks, what the grammar says, for every
   formula, and only a parenthesis too many makes them take from an empty stack. *)
THEOREM AnswersStayReal == PartsSpec => []AnswersAreReal
<1>1. /\ Ack!NoAnswerMadeUp /\ Ack!NoAnswerMissed /\ CalcInv
      => AnswersAreReal
  BY DEF CalcInv, AnswersAreReal
<1> QED
  BY <1>1, AnswersAreSent, PartsCalculate, PTL

LEMMA ConfTyped == ConfInv /\ faults \in 0 .. MaxFaults => Conf!GpsInitTypeOK
<1> SUFFICES ASSUME ConfInv, faults \in 0 .. MaxFaults PROVE Conf!GpsInitTypeOK
  OBVIOUS
<1>1. Conf!Save \in Nat /\ Conf!Save > 0 /\ Conf!Commands = 1 .. Conf!Save
  <2>1. SavesLast(Conf!Script[ublox])
    BY SaveIsLast DEF ConfInv, ConfTypes
  <2> QED
    BY <2>1, Facts DEF ConfInv, SavesLast, Conf!Commands, Conf!Save
<1>2. command \in 1 .. Conf!Save /\ Written \subseteq 1 .. Conf!Save
  BY <1>1 DEF ConfInv, ConfTypes, Written
<1>3. Conf!ToSet(toReceiver) \subseteq Conf!Commands
  BY <1>1, <1>2 DEF ConfInv, ConfTypes, InOrder, Conf!ToSet
<1>4. \A n \in DOMAIN toDriver : toDriver[n].for \in Conf!Commands
  <2>1. DOMAIN toDriver = 1 .. Len(toDriver)
    BY DEF ConfInv, ConfTypes
  <2>2. \A n \in 1 .. Len(toDriver) : toDriver[n].for \in Written
    BY DEF ConfInv, InOrder
  <2> QED
    BY <1>1, <1>2, <2>1, <2>2
<1>5. applied \subseteq Conf!Commands
  BY <1>1, <1>2 DEF ConfInv, InOrder
<1>6. Len(results) = IF initPc = "done" THEN Conf!Save ELSE command - 1
  BY DEF ConfInv, ConfTypes
<1> QED
  BY <1>1, <1>2, <1>3, <1>4, <1>5, <1>6 DEF ConfInv, ConfTypes, Conf!GpsInitTypeOK

LEMMA ConfKeepsTypes == Conf!Spec => []Conf!GpsInitTypeOK
<1> DEFINE Inv == ConfInv /\ faults \in 0 .. MaxFaults
<1>1. Conf!Init => Inv
  BY InitInv, StoreParameters DEF Conf!Init
<1>2. ConfInv /\ [Conf!Next]_(Conf!vars) => ConfInv'
  BY TypesKept, OrderKept, AnswersKept, LateKept DEF ConfInv
<1>3. ASSUME faults \in 0 .. MaxFaults, [Conf!Next]_(Conf!vars)
      PROVE  (faults \in 0 .. MaxFaults)'
  <2>1. ASSUME NEW is, Conf!Fault(is) PROVE faults' \in 0 .. MaxFaults
    BY <1>3, <2>1, StoreParameters DEF Conf!Fault
  <2>2. faults' = faults \/ \E is : Conf!Fault(is)
    BY <1>3 DEF Conf!Next, Conf!vars, Conf!CarryOut, Conf!LoseCommand, Conf!Flush,
       Conf!Write, Conf!GetAck, Conf!GetFrameErrors, Conf!AckTimeout, Conf!NextCommand
  <2> QED
    BY <1>3, <2>1, <2>2
<1>4. Inv => Conf!GpsInitTypeOK
  BY ConfTyped
<1> QED
  BY <1>1, <1>2, <1>3, <1>4, PTL DEF Conf!Spec

(* The variables of every part keep their types. *)
THEOREM TypesStayOK == PartsSpec => []TypesOK
<1>1. PartsSpec => []TypeOK
  BY PartsAreWifi, TypeCorrect, PTL
<1>2. PartsSpec => []Gui1!TypeOK
  <2>1. GP!TypeOK => Gui1!TypeOK
    BY DEF GP!TypeOK, Gui1!TypeOK, GP!Locks, Gui1!Locks, GP!Threads, Gui1!Threads,
           GP!Free, Gui1!Free, GP!Shown, Gui1!Shown, GP!NoApp, Gui1!NoApp
  <2> QED
    BY <2>1, SameGuiParameters, PartsAreGui, GP!TypeCorrect, PTL
<1>3. PartsSpec => []Ack!AckFramesTypeOK
  <2>1. AckInv => Ack!AckFramesTypeOK
    BY DEF AckInv
  <2> QED
    BY <2>1, PartsAreAck, AckInvHolds, PTL
<1>4. PartsSpec => []Calc!CalculatorTypeOK
  <2>1. CalcInv => Calc!CalculatorTypeOK
    BY DEF CalcInv
  <2> QED
    BY <2>1, PartsCalculate, PTL
<1>5. PartsSpec => []Mtx!MutexTypeOK
  BY InstanceParameters, PartsAreMutex, MutexTypeCorrect, PTL
<1>6. PartsSpec => []Store!ObjectFileTypeOK
  BY StoreSafe, PartsAreStore, StoreInvHolds, PTL
<1>7. PartsSpec => []Heard!SatellitesTypeOK
  <2>1. HeardInv => Heard!SatellitesTypeOK
    BY DEF HeardInv
  <2> QED
    BY <2>1, PartsAreHeard, HeardInvHolds, PTL
<1>9. PartsSpec => [](Timer!AppTimerTypeOK /\ Browser!FileBrowserTypeOK)
  <2>1. TimerInv /\ BrowserTypes /\ BrowserInv
          => Timer!AppTimerTypeOK /\ Browser!FileBrowserTypeOK
    BY TimerSafe, BrowserSafe
  <2> QED
    BY <2>1, TimerAndBrowserKeep, PTL
<1>8. /\ TypeOK /\ Gui1!TypeOK /\ Ack!AckFramesTypeOK /\ Timer!AppTimerTypeOK
      /\ Browser!FileBrowserTypeOK /\ Calc!CalculatorTypeOK /\ Conf!GpsInitTypeOK
      /\ Mtx!MutexTypeOK /\ Store!ObjectFileTypeOK /\ Heard!SatellitesTypeOK
      => TypesOK
  BY DEF TypesOK
<1> QED
  BY <1>1, <1>2, <1>3, <1>4, <1>5, <1>6, <1>7, <1>8, <1>9, PartsAreConf, ConfKeepsTypes, PTL
=============================================================================
