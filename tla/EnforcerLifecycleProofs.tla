----------------------- MODULE EnforcerLifecycleProofs -----------------------
(***************************************************************************)
(* What TLAPS proves of the lifecycle, for any number of calling threads   *)
(* and of workers.                                                         *)
(***************************************************************************)
EXTENDS EnforcerLifecycle, TLAPS

(***************************************************************************)
(* Every variable keeps its type.                                          *)
(***************************************************************************)
LEMMA TypeStep == TypeOK /\ [Next]_vars => TypeOK'
<1> SUFFICES ASSUME TypeOK, [Next]_vars
             PROVE  TypeOK'
    OBVIOUS
<1> USE NullAssumption DEF TypeOK, LivePcs, WorkerPcs, CallerPcs
<1>1. ASSUME NEW c \in Callers, Call(c)
      PROVE  TypeOK'
  <2>1. CASE StartUnconfigured(c)
      BY <2>1 DEF StartUnconfigured, Refused
  <2>2. CASE StartRefused(c)
      BY <2>2 DEF StartRefused, Refused
  <2>3. CASE StartSpawnFails(c)
      BY <2>3 DEF StartSpawnFails, Refused
  <2>4. ASSUME NEW t \in Threads, StartLaunches(c, t)
        PROVE  TypeOK'
      BY <2>4 DEF StartLaunches
  <2>5. CASE StopNothingToStop(c)
      BY <2>5 DEF StopNothingToStop, ClearFlags
  <2>6. CASE StopAsked(c)
      BY <2>6 DEF StopAsked, StopFindsWorker, Live
  <2>7. CASE DestroyNothingToStop(c)
      BY <2>7 DEF DestroyNothingToStop, ClearFlags
  <2>8. CASE DestroyAsked(c)
      BY <2>8 DEF DestroyAsked, StopFindsWorker, Live
  <2> QED
      BY <1>1, <2>1, <2>2, <2>3, <2>4, <2>5, <2>6, <2>7, <2>8 DEF Call
<1>2. ASSUME NEW c \in Callers, Proceed(c)
      PROVE  TypeOK'
  <2>1. CASE StoreStop(c)
      BY <2>1 DEF StoreStop
  <2>2. CASE NotifyWorker(c)
      BY <2>2 DEF NotifyWorker, Awakened
  <2>3. CASE WaitSatisfied(c)
      BY <2>3 DEF WaitSatisfied, TakeHandle
  <2>4. CASE WaitBlocks(c)
      BY <2>4 DEF WaitBlocks
  <2>5. CASE Joined(c)
    <3>1. wpc' \in [Threads -> WorkerPcs]
      <4>1. CASE grabbed[c] = NoThread
          BY <2>5, <4>1 DEF Joined
      <4>2. CASE grabbed[c] # NoThread
          BY <2>5, <4>2 DEF Joined
      <4> QED
          BY <4>1, <4>2
    <3>2. destroyed' \in BOOLEAN /\ answer' \in [Callers -> {"none", "true", "false"}]
        BY <2>5 DEF Joined
    <3>3. cpc' \in [Callers -> CallerPcs] /\ grabbed' \in [Callers -> Threads \cup {NoThread}]
        BY <2>5 DEF Joined
    <3> QED
        BY <2>5, <3>1, <3>2, <3>3 DEF Joined
  <2>6. CASE DestroyTakes(c)
      BY <2>6 DEF DestroyTakes, TakeHandle
  <2> QED
      BY <1>2, <2>1, <2>2, <2>3, <2>4, <2>5, <2>6 DEF Proceed
<1>3. ASSUME NEW c \in Callers, Lapse(c)
      PROVE  TypeOK'
  <2>1. CASE WaitWakesSpuriously(c)
      BY <2>1 DEF WaitWakesSpuriously
  <2>2. CASE TimeoutFindsExit(c)
      BY <2>2 DEF TimeoutFindsExit, TakeHandle
  <2>3. CASE StopTimesOut(c)
      BY <2>3 DEF StopTimesOut, Refused
  <2> QED
      BY <1>3, <2>1, <2>2, <2>3 DEF Lapse
<1>4. ASSUME NEW t \in Threads, Work(t) \/ ScanAborts(t) \/ WorkerWakesSpuriously(t)
      PROVE  TypeOK'
  <2>1. CASE NotifyCallers(t)
      BY <2>1 DEF NotifyCallers, Moves
  <2>2. CASE ClearRunning(t) \/ ReportExit(t)
      BY <2>2 DEF ClearRunning, ReportExit, Moves
  <2>3. CASE LoopTest(t) \/ ScanReturns(t) \/ WaitTest(t) \/ FallAsleep(t)
               \/ IntervalExpires(t) \/ ScanAborts(t) \/ WorkerWakesSpuriously(t)
      BY <2>3 DEF LoopTest, ScanReturns, WaitTest, FallAsleep, IntervalExpires,
                  ScanAborts, WorkerWakesSpuriously, Step, Moves
  <2> QED
      BY <1>4, <2>1, <2>2, <2>3 DEF Work
<1>5. CASE UNCHANGED vars
    BY <1>5 DEF vars
<1> QED
    BY <1>1, <1>2, <1>3, <1>4, <1>5 DEF Next

\* Type correctness of the lifecycle, in every reachable state.
THEOREM TypeCorrect == Spec => []TypeOK
<1>1. Init => TypeOK
    BY DEF Init, TypeOK, WorkerPcs, LivePcs, CallerPcs
<1> QED
    BY <1>1, TypeStep, PTL DEF Spec

-----------------------------------------------------------------------------
(***************************************************************************)
(* The inductive invariant.                                                *)
(***************************************************************************)

\* A worker still in its loop is the one in worker_, or the one the
\* destructor took while it insists: then worker_ is empty.
LEMMA LiveIsOwned ==
    ASSUME TypeOK, LifecycleInv, NEW t \in Live
    PROVE  \/ handle = t
           \/ handle = NoThread /\ \E c \in Callers : destroying = c /\ grabbed[c] = t
<1>1. t \in Threads /\ t \in Unjoined
    BY DEF Live, LivePcs, Unjoined
<1>2. CASE handle # t
  <2>1. PICK c \in Callers : grabbed[c] = t
      BY <1>1, <1>2 DEF LifecycleInv, NoThreadLost, Owns
  <2>2. cpc[c] = "joining" /\ destroying = c
      BY <2>1, <1>1, NullAssumption DEF LifecycleInv, GrabbedIsLeaving
  <2> QED
      BY <2>1, <2>2 DEF LifecycleInv, DestructorAlone
<1> QED
    BY <1>2

\* At most one worker follows from who owns which thread.
LEMMA InvImpliesOneWorker == TypeOK /\ LifecycleInv => AtMostOneWorker
<1> SUFFICES ASSUME TypeOK, LifecycleInv, NEW t \in Live, NEW u \in Live
             PROVE  t = u
    BY DEF AtMostOneWorker
<1>1. t \in Threads /\ u \in Threads
    BY DEF Live
<1>2. CASE handle = t \/ handle = u
    BY <1>1, <1>2, LiveIsOwned, NullAssumption
<1>3. CASE handle # t /\ handle # u
  <2>1. PICK c \in Callers : destroying = c /\ grabbed[c] = t
      BY <1>3, LiveIsOwned
  <2>2. PICK d \in Callers : destroying = d /\ grabbed[d] = u
      BY <1>3, LiveIsOwned
  <2> QED
      BY <2>1, <2>2
<1> QED
    BY <1>2, <1>3

\* While worker_ is empty and nobody destroys the object, nobody works.
LEMMA NoHandleNoWorker ==
    ASSUME TypeOK, LifecycleInv, handle = NoThread, destroying = NoCaller
    PROVE  Live = {}
<1>1. ASSUME NEW t \in Live PROVE FALSE
  <2>1. t \in Threads
      BY DEF Live
  <2> QED
      BY <2>1, LiveIsOwned, NullAssumption
<1> QED
    BY <1>1

LEMMA InvInit == Init => LifecycleInv
BY NullAssumption
   DEF Init, LifecycleInv, NoThreadLost, ExitedFlagTruthful, RunningFlagTruthful,
       HandleIsUnjoined, GrabbedIsLeaving, DestructorAlone, OwedHaveLeft,
       Unjoined, Live, LivePcs, Owns

LEMMA InvStep == TypeOK /\ LifecycleInv /\ [Next]_vars => LifecycleInv'
<1> SUFFICES ASSUME TypeOK, LifecycleInv, [Next]_vars
             PROVE  LifecycleInv'
    OBVIOUS
<1> USE NullAssumption
<1> USE DEF TypeOK, LifecycleInv, NoThreadLost, ExitedFlagTruthful,
            RunningFlagTruthful, HandleIsUnjoined, GrabbedIsLeaving,
            DestructorAlone, OwedHaveLeft, Unjoined, Live, LivePcs, Owns
<1>1. ASSUME NEW c \in Callers, Call(c)
      PROVE  LifecycleInv'
  <2>1. CASE StartUnconfigured(c)
      BY <2>1 DEF StartUnconfigured, Refused
  <2>2. CASE StartRefused(c)
      BY <2>2 DEF StartRefused, Refused
  <2>3. CASE StartSpawnFails(c)
      BY <2>3, NoHandleNoWorker DEF StartSpawnFails, Refused, MayLaunch, MayCall
  <2>4. ASSUME NEW t \in Threads, StartLaunches(c, t)
        PROVE  LifecycleInv'
      BY <2>4, NoHandleNoWorker DEF StartLaunches, MayLaunch, MayCall
  <2>5. CASE StopNothingToStop(c)
      BY <2>5, NoHandleNoWorker DEF StopNothingToStop, ClearFlags, MayCall
  <2>6. CASE StopAsked(c)
      BY <2>6 DEF StopAsked, StopFindsWorker, MayCall
  <2>7. CASE DestroyNothingToStop(c)
      BY <2>7, NoHandleNoWorker DEF DestroyNothingToStop, ClearFlags, MayDestroy, MayCall
  <2>8. CASE DestroyAsked(c)
      BY <2>8 DEF DestroyAsked, StopFindsWorker, MayDestroy, MayCall
  <2> QED
      BY <1>1, <2>1, <2>2, <2>3, <2>4, <2>5, <2>6, <2>7, <2>8 DEF Call
<1>2. ASSUME NEW c \in Callers, Proceed(c)
      PROVE  LifecycleInv'
  <2>1. CASE StoreStop(c)
      BY <2>1 DEF StoreStop
  <2>2. CASE NotifyWorker(c)
      BY <2>2 DEF NotifyWorker, Awakened
  <2>3. CASE WaitSatisfied(c)
      BY <2>3 DEF WaitSatisfied, TakeHandle
  <2>4. CASE WaitBlocks(c)
      BY <2>4 DEF WaitBlocks
  <2>5. CASE Joined(c)
      BY <2>5 DEF Joined
  <2>6. CASE DestroyTakes(c)
      BY <2>6 DEF DestroyTakes, TakeHandle
  <2> QED
      BY <1>2, <2>1, <2>2, <2>3, <2>4, <2>5, <2>6 DEF Proceed
<1>3. ASSUME NEW c \in Callers, Lapse(c)
      PROVE  LifecycleInv'
  <2>1. CASE WaitWakesSpuriously(c)
      BY <2>1 DEF WaitWakesSpuriously
  <2>2. CASE TimeoutFindsExit(c)
      BY <2>2 DEF TimeoutFindsExit, TakeHandle
  <2>3. CASE StopTimesOut(c)
      BY <2>3 DEF StopTimesOut, Refused
  <2> QED
      BY <1>3, <2>1, <2>2, <2>3 DEF Lapse
<1>4. ASSUME NEW t \in Threads, Work(t) \/ ScanAborts(t) \/ WorkerWakesSpuriously(t)
      PROVE  LifecycleInv'
  <2>1. CASE NotifyCallers(t)
      BY <2>1 DEF NotifyCallers, Moves
  <2>2. CASE ClearRunning(t)
      BY <2>2, InvImpliesOneWorker DEF ClearRunning, Moves, AtMostOneWorker
  <2>3. CASE ReportExit(t)
      BY <2>3, InvImpliesOneWorker DEF ReportExit, Moves, AtMostOneWorker
  <2>4. CASE LoopTest(t) \/ ScanReturns(t) \/ WaitTest(t) \/ FallAsleep(t)
               \/ IntervalExpires(t) \/ ScanAborts(t) \/ WorkerWakesSpuriously(t)
      BY <2>4 DEF LoopTest, ScanReturns, WaitTest, FallAsleep, IntervalExpires,
                  ScanAborts, WorkerWakesSpuriously, Step, Moves
  <2> QED
      BY <1>4, <2>1, <2>2, <2>3, <2>4 DEF Work
<1>5. CASE UNCHANGED vars
    BY <1>5 DEF vars
<1> QED
    BY <1>1, <1>2, <1>3, <1>4, <1>5 DEF Next

(***************************************************************************)
(* How a call begins.                                                      *)
(***************************************************************************)
LEMMA CallBegins ==
    ASSUME TypeOK, LifecycleInv, NEW c \in Callers
    PROVE  /\ StopNothingToStop(c) => Live' = {} /\ UNCHANGED <<destroying, destroyed>>
           /\ StopAsked(c) => /\ cpc'[c] # "idle" /\ Live' \subseteq owed'[c]
                              /\ UNCHANGED <<destroying, destroyed>>
           /\ DestroyNothingToStop(c) \/ DestroyAsked(c) =>
                  Live' \subseteq Live /\ (destroyed => destroyed')
           /\ \A t \in Threads : StartLaunches(c, t) \/ StartSpawnFails(c) =>
                  UNCHANGED <<destroying, destroyed>>
<1>1. StopNothingToStop(c) => Live' = {} /\ UNCHANGED <<destroying, destroyed>>
  <2> SUFFICES ASSUME StopNothingToStop(c)
               PROVE  Live' = {} /\ UNCHANGED <<destroying, destroyed>>
      OBVIOUS
  <2>1. Live = {}
      BY NoHandleNoWorker DEF StopNothingToStop, MayCall
  <2> QED
      BY <2>1 DEF StopNothingToStop, Live
<1>2. StopAsked(c) => /\ cpc'[c] # "idle" /\ Live' \subseteq owed'[c]
                      /\ UNCHANGED <<destroying, destroyed>>
    BY DEF StopAsked, StopFindsWorker, TypeOK, Live
<1>3. DestroyNothingToStop(c) \/ DestroyAsked(c) =>
          Live' \subseteq Live /\ (destroyed => destroyed')
    BY DEF DestroyNothingToStop, DestroyAsked, StopFindsWorker, Live
<1>4. \A t \in Threads : StartLaunches(c, t) \/ StartSpawnFails(c) =>
          UNCHANGED <<destroying, destroyed>>
    BY DEF StartLaunches, StartSpawnFails
<1> QED
    BY <1>1, <1>2, <1>3, <1>4

(***************************************************************************)
(* What a call in progress does, and what a worker does by itself, to a    *)
(* caller who is to get an answer: only a start makes a worker live, and   *)
(* the answer true comes when those that were found have left.             *)
(***************************************************************************)
LEMMA CallInProgress ==
    ASSUME TypeOK, LifecycleInv, NEW c \in Callers, Proceed(c) \/ Lapse(c)
    PROVE  /\ cpc[c] # "idle" /\ UNCHANGED <<owed, destroying, configured>>
           /\ Live' \subseteq Live /\ (destroyed => destroyed')
           /\ (/\ Live \subseteq owed[c] /\ destroying # c
               /\ cpc'[c] = "idle" /\ answer'[c] = "true") => Live' = {}
<1> USE DEF TypeOK, Live, LivePcs
<1>1. CASE StoreStop(c)
    BY <1>1 DEF StoreStop
<1>2. CASE NotifyWorker(c)
    BY <1>2 DEF NotifyWorker, Awakened
<1>3. CASE WaitSatisfied(c) \/ TimeoutFindsExit(c) \/ DestroyTakes(c)
    BY <1>3 DEF WaitSatisfied, TimeoutFindsExit, DestroyTakes, TakeHandle
<1>4. CASE WaitBlocks(c) \/ WaitWakesSpuriously(c)
    BY <1>4 DEF WaitBlocks, WaitWakesSpuriously
<1>5. CASE StopTimesOut(c)
    BY <1>5 DEF StopTimesOut, Refused
<1>6. CASE Joined(c)
  <2>1. Live' \subseteq Live
      BY <1>6 DEF Joined
  <2>2. destroying # c => owed[c] \cap Live = {}
      BY <1>6 DEF Joined, LifecycleInv, OwedHaveLeft
  <2>3. cpc[c] # "idle" /\ UNCHANGED <<owed, destroying, configured>> /\ (destroyed => destroyed')
      BY <1>6 DEF Joined
  <2> HIDE DEF Live
  <2> QED
      BY <2>1, <2>2, <2>3
<1> QED
    BY <1>1, <1>2, <1>3, <1>4, <1>5, <1>6 DEF Proceed, Lapse

LEMMA WorkerByItself ==
    ASSUME TypeOK, NEW t \in Threads,
           Work(t) \/ ScanAborts(t) \/ WorkerWakesSpuriously(t)
    PROVE  /\ UNCHANGED <<owed, destroying, destroyed, configured, answer>>
           /\ Live' \subseteq Live
           /\ \A c \in Callers : cpc'[c] = "idle" <=> cpc[c] = "idle"
<1> USE DEF TypeOK, Live, LivePcs
<1>1. CASE NotifyCallers(t)
    BY <1>1 DEF NotifyCallers, Moves
<1>2. CASE ClearRunning(t) \/ ReportExit(t)
    BY <1>2 DEF ClearRunning, ReportExit, Moves
<1>3. CASE LoopTest(t) \/ ScanReturns(t) \/ WaitTest(t) \/ FallAsleep(t)
             \/ IntervalExpires(t) \/ ScanAborts(t) \/ WorkerWakesSpuriously(t)
    BY <1>3 DEF LoopTest, ScanReturns, WaitTest, FallAsleep, IntervalExpires,
                ScanAborts, WorkerWakesSpuriously, Step, Moves
<1> QED
    BY <1>1, <1>2, <1>3 DEF Work

-----------------------------------------------------------------------------
(***************************************************************************)
(* The theorems that rest on it.                                           *)
(***************************************************************************)

\* The inductive invariant holds for any number of callers and workers: every
\* thread has one owner and the two flags tell the truth.
THEOREM LifecycleInvariant == Spec => []LifecycleInv
<1> QED
    BY InvInit, InvStep, TypeCorrect, PTL DEF Spec

\* At most one thread is inside scan_loop, whatever the callers do.
THEOREM OneWorker == Spec => []AtMostOneWorker
<1> QED
    BY InvImpliesOneWorker, TypeCorrect, LifecycleInvariant, PTL

\* No std::thread is lost or owned twice.
THEOREM NoTerminate == Spec => []NoThreadLost
<1>1. LifecycleInv => NoThreadLost
    BY DEF LifecycleInv
<1> QED
    BY <1>1, LifecycleInvariant, PTL

\* start() clears no request that a worker has still to obey.
THEOREM RequestsAreKept == Spec => RequestOutlivesWorker
<1>1. TypeOK /\ LifecycleInv /\ [Next]_vars
         => [stopRequested /\ ~stopRequested' => Live = {}]_vars
  <2> SUFFICES ASSUME TypeOK, LifecycleInv, Next, stopRequested, ~stopRequested'
               PROVE  Live = {}
      BY DEF vars
  <2>1. ASSUME NEW c \in Callers, Call(c)
        PROVE  MayLaunch(c)
      BY <2>1 DEF Call, StartUnconfigured, StartRefused, StartSpawnFails,
                  StartLaunches, StopNothingToStop, StopAsked, StopFindsWorker,
                  DestroyNothingToStop, DestroyAsked, ClearFlags
  <2>2. ASSUME NEW c \in Callers, Proceed(c) \/ Lapse(c)
        PROVE  FALSE
      BY <2>2 DEF Proceed, Lapse, StoreStop, NotifyWorker, WaitSatisfied,
                  WaitBlocks, Joined, DestroyTakes, TakeHandle,
                  WaitWakesSpuriously, TimeoutFindsExit, StopTimesOut
  <2>3. ASSUME NEW t \in Threads, Work(t) \/ ScanAborts(t) \/ WorkerWakesSpuriously(t)
        PROVE  FALSE
      BY <2>3 DEF Work, LoopTest, ScanReturns, WaitTest, FallAsleep,
                  IntervalExpires, ScanAborts, WorkerWakesSpuriously,
                  ClearRunning, ReportExit, NotifyCallers, Step, Moves
  <2>4. ~(destroyed /\ UNCHANGED vars)
      BY DEF vars
  <2> QED
      BY <2>1, <2>2, <2>3, <2>4, NoHandleNoWorker DEF Next, MayLaunch, MayCall
<1> QED
    BY <1>1, TypeCorrect, LifecycleInvariant, PTL DEF Spec, RequestOutlivesWorker

-----------------------------------------------------------------------------
(***************************************************************************)
(* The handshake implements EnforcerService.                               *)
(***************************************************************************)
Touching == {t \in Threads : wpc[t] \notin {"unborn", "finished", "joined"}}

Pending == {c \in Callers : cpc[c] # "idle"}

LEMMA ServiceInit == Init => Service!Init
BY DEF Init, Service!Init, Live, LivePcs

LEMMA ServiceStep ==
    TypeOK /\ LifecycleInv /\ [Next]_vars => [Service!Next]_(Service!svars)
<1> SUFFICES ASSUME TypeOK, LifecycleInv, [Next]_vars
             PROVE  Service!Next \/ UNCHANGED Service!svars
    OBVIOUS
<1> USE NullAssumption DEF TypeOK
<1>1. ASSUME NEW c \in Callers, Call(c)
      PROVE  Service!Next \/ UNCHANGED Service!svars
  <2>1. CASE StartUnconfigured(c) \/ StartRefused(c) \/ StartSpawnFails(c)
    <3>1. Service!Refuse(c)
        BY <2>1 DEF StartUnconfigured, StartRefused, StartSpawnFails, MayLaunch,
             MayCall, Refused, LifecycleInv, DestructorAlone, Service!Refuse, Live
    <3> QED
        BY <3>1 DEF Service!Next
  <2>2. ASSUME NEW t \in Threads, StartLaunches(c, t)
        PROVE  Service!Next
    <3>1. Live = {} /\ ~destroyed
        BY <2>2, NoHandleNoWorker
           DEF StartLaunches, MayLaunch, MayCall, LifecycleInv, DestructorAlone
    <3>2. Live' = {t} /\ Touching' = Touching \cup {t} /\ t \notin Touching
        BY <2>2, <3>1 DEF StartLaunches, Live, LivePcs, Touching
    <3>3. Service!Launch(c, t)
        BY <2>2, <3>1, <3>2
           DEF StartLaunches, MayLaunch, MayCall, Service!Launch, Touching
    <3> QED
        BY <3>3 DEF Service!Next
  <2>3. CASE StopNothingToStop(c)
    <3>1. Service!NothingToStop(c)
        BY <2>3, NoHandleNoWorker
           DEF StopNothingToStop, ClearFlags, MayCall, LifecycleInv,
               DestructorAlone, Service!NothingToStop, Live
    <3> QED
        BY <3>1 DEF Service!Next
  <2>4. CASE StopAsked(c) \/ DestroyAsked(c)
    <3>1. Service!Ask(c)
        BY <2>4 DEF StopAsked, DestroyAsked, StopFindsWorker, MayDestroy, MayCall,
                    LifecycleInv, DestructorAlone, Service!Ask, Live
    <3> QED
        BY <3>1 DEF Service!Next
  <2>5. CASE DestroyNothingToStop(c)
    <3>1. \A d \in Callers : grabbed[d] = NoThread
        BY <2>5 DEF DestroyNothingToStop, MayDestroy, LifecycleInv, GrabbedIsLeaving
    <3>2. Unjoined = {}
        BY <2>5, <3>1 DEF DestroyNothingToStop, LifecycleInv, NoThreadLost, Owns, Unjoined
    <3>3. Service!Destroyed(c)
        BY <2>5, <3>2 DEF DestroyNothingToStop, MayDestroy, Service!Destroyed,
                          Unjoined, Live
    <3> QED
        BY <3>3 DEF Service!Next
  <2> QED
      BY <1>1, <2>1, <2>2, <2>3, <2>4, <2>5 DEF Call
<1>2. ASSUME NEW c \in Callers, Joined(c)
      PROVE  Service!Next
  <2>1. Live' = Live /\ Touching' = Touching
      BY <1>2 DEF Joined, Live, LivePcs, Touching
  <2>2. CASE destroying = c
    <3>1. \A d \in Callers : d # c => cpc[d] = "idle" /\ grabbed[d] = NoThread
        BY <2>2 DEF LifecycleInv, DestructorAlone, GrabbedIsLeaving
    <3>2. \A t \in Unjoined : grabbed[c] = t
        BY <1>2, <2>2, <3>1 DEF Joined, LifecycleInv, DestructorAlone,
                                NoThreadLost, Owns, Unjoined
    <3>3. Touching = {}
        BY <1>2, <3>2 DEF Joined, Unjoined, Touching
    <3>4. Service!Destroyed(c)
        BY <1>2, <2>1, <2>2, <3>1, <3>3 DEF Joined, Service!Destroyed, Touching
    <3> QED
        BY <3>4 DEF Service!Next
  <2>3. CASE destroying # c
    <3>1. Service!Stopped(c)
        BY <1>2, <2>1, <2>3 DEF Joined, LifecycleInv, OwedHaveLeft,
                                Service!Stopped, Touching
    <3> QED
        BY <3>1 DEF Service!Next
  <2> QED
      BY <2>2, <2>3
<1>3. ASSUME NEW c \in Callers, StopTimesOut(c)
      PROVE  Service!Next \/ UNCHANGED Service!svars
  <2>1. CASE destroying = c
      BY <1>3, <2>1 DEF StopTimesOut, Service!svars, Live
  <2>2. CASE destroying # c
    <3>1. Service!TimedOut(c)
        BY <1>3, <2>2 DEF StopTimesOut, Refused, Service!TimedOut, Live
    <3> QED
        BY <3>1 DEF Service!Next
  <2> QED
      BY <2>1, <2>2
<1>4. ASSUME NEW c \in Callers,
             \/ StoreStop(c) \/ NotifyWorker(c) \/ WaitSatisfied(c) \/ WaitBlocks(c)
             \/ DestroyTakes(c) \/ WaitWakesSpuriously(c) \/ TimeoutFindsExit(c)
      PROVE  UNCHANGED Service!svars
  <2>1. Live' = Live /\ Touching' = Touching
      BY <1>4 DEF StoreStop, NotifyWorker, Awakened, WaitSatisfied, WaitBlocks,
             DestroyTakes, TakeHandle, WaitWakesSpuriously, TimeoutFindsExit,
             Live, LivePcs, Touching
  <2>2. Pending' = Pending
      BY <1>4 DEF StoreStop, NotifyWorker, WaitSatisfied, WaitBlocks,
             DestroyTakes, TakeHandle, WaitWakesSpuriously, TimeoutFindsExit,
             CallerPcs, Pending
  <2>3. UNCHANGED <<owed, answer, destroyed>>
      BY <1>4 DEF StoreStop, NotifyWorker, WaitSatisfied, WaitBlocks,
             DestroyTakes, TakeHandle, WaitWakesSpuriously, TimeoutFindsExit
  <2> QED
      BY <2>1, <2>2, <2>3 DEF Service!svars, Touching, Pending
<1>5. ASSUME NEW t \in Threads, Work(t) \/ ScanAborts(t) \/ WorkerWakesSpuriously(t)
      PROVE  Service!Next \/ UNCHANGED Service!svars
  <2>1. CASE ReportExit(t)
    <3>1. Service!Leave(t)
        BY <2>1 DEF ReportExit, Moves, Service!Leave, Live, LivePcs
    <3> QED
        BY <3>1 DEF Service!Next
  <2>2. CASE NotifyCallers(t)
    <3>1. Service!Return(t)
        BY <2>2 DEF NotifyCallers, Moves, Service!Return, Live, LivePcs
    <3> QED
        BY <3>1 DEF Service!Next
  <2>3. CASE LoopTest(t) \/ ScanReturns(t) \/ WaitTest(t) \/ FallAsleep(t)
               \/ IntervalExpires(t) \/ ScanAborts(t) \/ WorkerWakesSpuriously(t)
               \/ ClearRunning(t)
    <3>1. Live' = Live /\ Touching' = Touching
        BY <2>3 DEF LoopTest, ScanReturns, WaitTest, FallAsleep, IntervalExpires,
                    ScanAborts, WorkerWakesSpuriously, ClearRunning, Step, Moves,
                    Live, LivePcs, Touching
    <3>2. UNCHANGED <<cpc, owed, answer, destroyed>>
        BY <2>3 DEF LoopTest, ScanReturns, WaitTest, FallAsleep, IntervalExpires,
                    ScanAborts, WorkerWakesSpuriously, ClearRunning, Step, Moves
    <3> QED
        BY <3>1, <3>2 DEF Service!svars, Touching
  <2> QED
      BY <1>5, <2>1, <2>2, <2>3 DEF Work
<1>6. CASE UNCHANGED vars
    BY <1>6 DEF vars, Service!svars, Live
<1> QED
    BY <1>1, <1>2, <1>3, <1>4, <1>5, <1>6 DEF Next, Proceed, Lapse

\* start(), stop() and the destructor keep the promise of the class interface.
THEOREM Implementation == Spec => KeepsPromise
<1> QED
    BY ServiceInit, ServiceStep, TypeCorrect, LifecycleInvariant, PTL
       DEF Spec, KeepsPromise, Service!Spec
==============================================================================
