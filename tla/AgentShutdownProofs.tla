------------------------- MODULE AgentShutdownProofs -------------------------
(***************************************************************************)
(* The end of the agent, for any signals: main() uses the two enforcers as *)
(* their lifecycle allows, so what is proved of it holds of both, and with *)
(* it what main() may say of the workers.                                  *)
(***************************************************************************)
EXTENDS AgentShutdown, TLAPS

\* P and F again, with the lemmas about them.
PL == INSTANCE EnforcerLifecycleProofs WITH
    Callers <- {Main}, Threads <- {PThread},
    configured <- pConfigured, running <- pRunning,
    stopRequested <- pStopRequested, workerExited <- pWorkerExited,
    handle <- pHandle, wpc <- pWpc, cpc <- pCpc, grabbed <- pGrabbed,
    destroying <- pDestroying, destroyed <- pDestroyed, owed <- pOwed,
    answer <- pAnswer

FL == INSTANCE EnforcerLifecycleProofs WITH
    Callers <- {Main}, Threads <- {FThread},
    configured <- fConfigured, running <- fRunning,
    stopRequested <- fStopRequested, workerExited <- fWorkerExited,
    handle <- fHandle, wpc <- fWpc, cpc <- fCpc, grabbed <- fGrabbed,
    destroying <- fDestroying, destroyed <- fDestroyed, owed <- fOwed,
    answer <- fAnswer

(***************************************************************************)
(* The inductive invariant.                                                *)
(***************************************************************************)
\* The destructors have not begun.
BeforeDestruction ==
    {"boot", "startP", "startF", "run", "nap", "stopF", "stoppingF", "stopP",
     "stoppingP", "destroyF"}

AfterStop == {"destroyF", "destroyingF", "destroyingP", "exited"}

\* During stop(): every live worker is one that the call found; once it has
\* returned true there is none.
Answering(live, cpc, owed, answer) ==
    /\ cpc # "idle" => live \subseteq owed
    /\ cpc = "idle" /\ answer = "true" => live = {}

AgentInv ==
    /\ mpc \in BeforeDestruction => pDestroying = NoCaller /\ fDestroying = NoCaller
    /\ mpc = "stoppingF" => Answering(FL!Live, fCpc[Main], fOwed[Main], fAnswer[Main])
    /\ mpc = "stoppingP" => Answering(PL!Live, pCpc[Main], pOwed[Main], pAnswer[Main])
    /\ fStopped => FL!Live = {} /\ mpc \in {"stopP", "stoppingP"} \cup AfterStop
    /\ stopped => PL!Live = {} /\ FL!Live = {} /\ mpc \in AfterStop
    /\ mpc \in {"destroyingP", "exited"} => fDestroyed
    /\ mpc = "exited" => pDestroyed

-----------------------------------------------------------------------------
(***************************************************************************)
(* The actions of AgentShutdown are actions of the instances.              *)
(***************************************************************************)
LEMMA PInstance ==
    /\ P!Init => PL!Init
    /\ P!StartLaunches(Main, PThread) => PL!StartLaunches(Main, PThread)
    /\ P!StartSpawnFails(Main) => PL!StartSpawnFails(Main)
    /\ P!StopNothingToStop(Main) => PL!StopNothingToStop(Main)
    /\ P!StopAsked(Main) => PL!StopAsked(Main)
    /\ P!DestroyNothingToStop(Main) => PL!DestroyNothingToStop(Main)
    /\ P!DestroyAsked(Main) => PL!DestroyAsked(Main)
    /\ P!Proceed(Main) => PL!Proceed(Main)
    /\ P!Lapse(Main) => PL!Lapse(Main)
    /\ P!Work(PThread) => PL!Work(PThread)
    /\ P!ScanAborts(PThread) => PL!ScanAborts(PThread)
    /\ P!WorkerWakesSpuriously(PThread) => PL!WorkerWakesSpuriously(PThread)
<1>1. P!Init => PL!Init
    BY DEF P!Init, PL!Init
<1>2. P!StartLaunches(Main, PThread) => PL!StartLaunches(Main, PThread)
    BY DEF P!StartLaunches, PL!StartLaunches, P!MayLaunch, PL!MayLaunch,
        P!MayCall, PL!MayCall
<1>3. P!StartSpawnFails(Main) => PL!StartSpawnFails(Main)
    BY DEF P!StartSpawnFails, PL!StartSpawnFails, P!MayLaunch, PL!MayLaunch,
        P!MayCall, PL!MayCall, P!Refused, PL!Refused
<1>4. P!StopNothingToStop(Main) => PL!StopNothingToStop(Main)
    BY DEF P!StopNothingToStop, PL!StopNothingToStop, P!MayCall, PL!MayCall,
        P!ClearFlags, PL!ClearFlags
<1>5. P!StopAsked(Main) => PL!StopAsked(Main)
    BY DEF P!StopAsked, PL!StopAsked, P!MayCall, PL!MayCall, P!StopFindsWorker,
        PL!StopFindsWorker, P!Live, PL!Live, P!LivePcs, PL!LivePcs
<1>6. P!DestroyNothingToStop(Main) => PL!DestroyNothingToStop(Main)
    BY DEF P!DestroyNothingToStop, PL!DestroyNothingToStop, P!MayDestroy,
        PL!MayDestroy, P!MayCall, PL!MayCall, P!ClearFlags, PL!ClearFlags
<1>7. P!DestroyAsked(Main) => PL!DestroyAsked(Main)
    BY DEF P!DestroyAsked, PL!DestroyAsked, P!MayDestroy, PL!MayDestroy,
        P!MayCall, PL!MayCall, P!StopFindsWorker, PL!StopFindsWorker,
        P!Live, PL!Live, P!LivePcs, PL!LivePcs
<1>8. P!Proceed(Main) => PL!Proceed(Main)
    BY DEF P!Proceed, PL!Proceed, P!StoreStop, PL!StoreStop, P!NotifyWorker,
        PL!NotifyWorker, P!Awakened, PL!Awakened, P!WaitSatisfied,
        PL!WaitSatisfied, P!WaitBlocks, PL!WaitBlocks, P!Joined, PL!Joined,
        P!DestroyTakes, PL!DestroyTakes, P!TakeHandle, PL!TakeHandle
<1>9. P!Lapse(Main) => PL!Lapse(Main)
    BY DEF P!Lapse, PL!Lapse, P!WaitWakesSpuriously, PL!WaitWakesSpuriously,
        P!TimeoutFindsExit, PL!TimeoutFindsExit, P!StopTimesOut,
        PL!StopTimesOut, P!TakeHandle, PL!TakeHandle, P!Refused, PL!Refused
<1>10. P!Work(PThread) => PL!Work(PThread)
    BY DEF P!Work, PL!Work, P!LoopTest, PL!LoopTest, P!ScanReturns,
        PL!ScanReturns, P!WaitTest, PL!WaitTest, P!FallAsleep,
        PL!FallAsleep, P!IntervalExpires, PL!IntervalExpires,
        P!ClearRunning, PL!ClearRunning, P!ReportExit, PL!ReportExit,
        P!NotifyCallers, PL!NotifyCallers, P!Step, PL!Step, P!Moves,
        PL!Moves
<1>11. P!ScanAborts(PThread) => PL!ScanAborts(PThread)
    BY DEF P!ScanAborts, PL!ScanAborts, P!Step, PL!Step, P!Moves, PL!Moves
<1>12. P!WorkerWakesSpuriously(PThread) => PL!WorkerWakesSpuriously(PThread)
    BY DEF P!WorkerWakesSpuriously, PL!WorkerWakesSpuriously, P!Step, PL!Step,
        P!Moves, PL!Moves
<1> QED
    BY <1>1, <1>2, <1>3, <1>4, <1>5, <1>6, <1>7, <1>8, <1>9, <1>10, <1>11, <1>12

LEMMA FInstance ==
    /\ F!Init => FL!Init
    /\ F!StartLaunches(Main, FThread) => FL!StartLaunches(Main, FThread)
    /\ F!StartSpawnFails(Main) => FL!StartSpawnFails(Main)
    /\ F!StopNothingToStop(Main) => FL!StopNothingToStop(Main)
    /\ F!StopAsked(Main) => FL!StopAsked(Main)
    /\ F!DestroyNothingToStop(Main) => FL!DestroyNothingToStop(Main)
    /\ F!DestroyAsked(Main) => FL!DestroyAsked(Main)
    /\ F!Proceed(Main) => FL!Proceed(Main)
    /\ F!Lapse(Main) => FL!Lapse(Main)
    /\ F!Work(FThread) => FL!Work(FThread)
    /\ F!ScanAborts(FThread) => FL!ScanAborts(FThread)
    /\ F!WorkerWakesSpuriously(FThread) => FL!WorkerWakesSpuriously(FThread)
<1>1. F!Init => FL!Init
    BY DEF F!Init, FL!Init
<1>2. F!StartLaunches(Main, FThread) => FL!StartLaunches(Main, FThread)
    BY DEF F!StartLaunches, FL!StartLaunches, F!MayLaunch, FL!MayLaunch,
        F!MayCall, FL!MayCall
<1>3. F!StartSpawnFails(Main) => FL!StartSpawnFails(Main)
    BY DEF F!StartSpawnFails, FL!StartSpawnFails, F!MayLaunch, FL!MayLaunch,
        F!MayCall, FL!MayCall, F!Refused, FL!Refused
<1>4. F!StopNothingToStop(Main) => FL!StopNothingToStop(Main)
    BY DEF F!StopNothingToStop, FL!StopNothingToStop, F!MayCall, FL!MayCall,
        F!ClearFlags, FL!ClearFlags
<1>5. F!StopAsked(Main) => FL!StopAsked(Main)
    BY DEF F!StopAsked, FL!StopAsked, F!MayCall, FL!MayCall, F!StopFindsWorker,
        FL!StopFindsWorker, F!Live, FL!Live, F!LivePcs, FL!LivePcs
<1>6. F!DestroyNothingToStop(Main) => FL!DestroyNothingToStop(Main)
    BY DEF F!DestroyNothingToStop, FL!DestroyNothingToStop, F!MayDestroy,
        FL!MayDestroy, F!MayCall, FL!MayCall, F!ClearFlags, FL!ClearFlags
<1>7. F!DestroyAsked(Main) => FL!DestroyAsked(Main)
    BY DEF F!DestroyAsked, FL!DestroyAsked, F!MayDestroy, FL!MayDestroy,
        F!MayCall, FL!MayCall, F!StopFindsWorker, FL!StopFindsWorker,
        F!Live, FL!Live, F!LivePcs, FL!LivePcs
<1>8. F!Proceed(Main) => FL!Proceed(Main)
    BY DEF F!Proceed, FL!Proceed, F!StoreStop, FL!StoreStop, F!NotifyWorker,
        FL!NotifyWorker, F!Awakened, FL!Awakened, F!WaitSatisfied,
        FL!WaitSatisfied, F!WaitBlocks, FL!WaitBlocks, F!Joined, FL!Joined,
        F!DestroyTakes, FL!DestroyTakes, F!TakeHandle, FL!TakeHandle
<1>9. F!Lapse(Main) => FL!Lapse(Main)
    BY DEF F!Lapse, FL!Lapse, F!WaitWakesSpuriously, FL!WaitWakesSpuriously,
        F!TimeoutFindsExit, FL!TimeoutFindsExit, F!StopTimesOut,
        FL!StopTimesOut, F!TakeHandle, FL!TakeHandle, F!Refused, FL!Refused
<1>10. F!Work(FThread) => FL!Work(FThread)
    BY DEF F!Work, FL!Work, F!LoopTest, FL!LoopTest, F!ScanReturns,
        FL!ScanReturns, F!WaitTest, FL!WaitTest, F!FallAsleep,
        FL!FallAsleep, F!IntervalExpires, FL!IntervalExpires,
        F!ClearRunning, FL!ClearRunning, F!ReportExit, FL!ReportExit,
        F!NotifyCallers, FL!NotifyCallers, F!Step, FL!Step, F!Moves,
        FL!Moves
<1>11. F!ScanAborts(FThread) => FL!ScanAborts(FThread)
    BY DEF F!ScanAborts, FL!ScanAborts, F!Step, FL!Step, F!Moves, FL!Moves
<1>12. F!WorkerWakesSpuriously(FThread) => FL!WorkerWakesSpuriously(FThread)
    BY DEF F!WorkerWakesSpuriously, FL!WorkerWakesSpuriously, F!Step, FL!Step,
        F!Moves, FL!Moves
<1> QED
    BY <1>1, <1>2, <1>3, <1>4, <1>5, <1>6, <1>7, <1>8, <1>9, <1>10, <1>11, <1>12

\* The agent does to P nothing but what the lifecycle allows.
LEMMA PStep == [Next]_vars => [PL!Next]_(PL!vars)
<1> SUFFICES ASSUME [Next]_vars
             PROVE  PL!Next \/ UNCHANGED PL!vars
    OBVIOUS
<1>1. ASSUME UNCHANGED pvars
      PROVE  UNCHANGED PL!vars
    BY <1>1 DEF pvars, PL!vars
<1>2. CASE StartP \/ StopP \/ DestroyP
    BY <1>2, PInstance DEF StartP, StopP, DestroyP, PL!Next, PL!Call
<1>3. CASE ProceedP \/ LapseP
    BY <1>3, PInstance DEF ProceedP, LapseP, PL!Next
<1>4. CASE WorkP \/ StumbleP
    BY <1>4, PInstance DEF WorkP, StumbleP, PL!Next
<1>5. CASE UNCHANGED pvars
    BY <1>1, <1>5
<1> QED
    BY <1>2, <1>3, <1>4, <1>5
    DEF Next, MainSteps, Deliver, Store, InstallSignalHandlers, RunSleeps, NapOver,
        RunEnds, StoppedF, StoppedP, Exit, Ended, vars,
        StartF, StopF, DestroyF, ProceedF, LapseF, WorkF, StumbleF

\* The agent does to F nothing but what the lifecycle allows.
LEMMA FStep == [Next]_vars => [FL!Next]_(FL!vars)
<1> SUFFICES ASSUME [Next]_vars
             PROVE  FL!Next \/ UNCHANGED FL!vars
    OBVIOUS
<1>1. ASSUME UNCHANGED fvars
      PROVE  UNCHANGED FL!vars
    BY <1>1 DEF fvars, FL!vars
<1>2. CASE StartF \/ StopF \/ DestroyF
    BY <1>2, FInstance DEF StartF, StopF, DestroyF, FL!Next, FL!Call
<1>3. CASE ProceedF \/ LapseF
    BY <1>3, FInstance DEF ProceedF, LapseF, FL!Next
<1>4. CASE WorkF \/ StumbleF
    BY <1>4, FInstance DEF WorkF, StumbleF, FL!Next
<1>5. CASE UNCHANGED fvars
    BY <1>1, <1>5
<1> QED
    BY <1>2, <1>3, <1>4, <1>5
    DEF Next, MainSteps, Deliver, Store, InstallSignalHandlers, RunSleeps, NapOver,
        RunEnds, StoppedF, StoppedP, Exit, Ended, vars,
        StartP, StopP, DestroyP, ProceedP, LapseP, WorkP, StumbleP

(***************************************************************************)
(* Each enforcer lives the life that EnforcerLifecycle describes           *)
(* (EnforcementCoordinator and main): nobody calls one that is being       *)
(* destroyed, and what is proved of the lifecycle holds of both.           *)
(***************************************************************************)
THEOREM EnforcersWellUsed == Spec => PL!Spec /\ FL!Spec
<1>1. Init => PL!Init /\ FL!Init
    BY PInstance, FInstance DEF Init
<1> QED
    BY <1>1, PStep, FStep, PTL DEF Spec, PL!Spec, FL!Spec

LEMMA EnforcersInvariant ==
    Spec => [](PL!TypeOK /\ PL!LifecycleInv /\ FL!TypeOK /\ FL!LifecycleInv)
<1>1. PL!Spec => []PL!TypeOK
    BY ThreadAssumption, PL!TypeCorrect
<1>2. PL!Spec => []PL!LifecycleInv
    BY ThreadAssumption, PL!LifecycleInvariant
<1>3. FL!Spec => []FL!TypeOK
    BY ThreadAssumption, FL!TypeCorrect
<1>4. FL!Spec => []FL!LifecycleInv
    BY ThreadAssumption, FL!LifecycleInvariant
<1> QED
    BY <1>1, <1>2, <1>3, <1>4, EnforcersWellUsed, PTL

(***************************************************************************)
(* And each keeps, inside the agent, the promise of its class interface:   *)
(* a stop() that answers true has seen the workers it found go, and a      *)
(* destroyed enforcer has none.                                            *)
(***************************************************************************)
THEOREM EnforcersKeepPromise == Spec => PL!KeepsPromise /\ FL!KeepsPromise
<1>1. PL!Spec => PL!KeepsPromise
    BY ThreadAssumption, PL!Implementation
<1>2. FL!Spec => FL!KeepsPromise
    BY ThreadAssumption, FL!Implementation
<1> QED
    BY <1>1, <1>2, EnforcersWellUsed, PTL

-----------------------------------------------------------------------------
(***************************************************************************)
(* The answers of main().                                                  *)
(***************************************************************************)
\* What a step of P does to what main() knows of it.
LEMMA PCalls ==
    ASSUME PL!TypeOK, PL!LifecycleInv
    PROVE  /\ StartP => UNCHANGED <<pDestroying, pDestroyed>>
           /\ StopP => /\ Answering(PL!Live, pCpc[Main], pOwed[Main], pAnswer[Main])'
                       /\ UNCHANGED <<pDestroying, pDestroyed>>
           /\ DestroyP => PL!Live' \subseteq PL!Live /\ (pDestroyed => pDestroyed')
           /\ ProceedP \/ LapseP =>
                  /\ PL!Live' \subseteq PL!Live /\ (pDestroyed => pDestroyed')
                  /\ UNCHANGED pDestroying
                  /\ /\ pDestroying = NoCaller
                     /\ Answering(PL!Live, pCpc[Main], pOwed[Main], pAnswer[Main])
                     => Answering(PL!Live, pCpc[Main], pOwed[Main], pAnswer[Main])'
           /\ WorkP \/ StumbleP =>
                  /\ PL!Live' \subseteq PL!Live
                  /\ UNCHANGED <<pDestroying, pDestroyed>>
                  /\ Answering(PL!Live, pCpc[Main], pOwed[Main], pAnswer[Main])
                     => Answering(PL!Live, pCpc[Main], pOwed[Main], pAnswer[Main])'
           /\ UNCHANGED pvars =>
                  PL!Live' = PL!Live /\ UNCHANGED <<pDestroying, pDestroyed, pCpc, pOwed, pAnswer>>
<1> DEFINE Answered == Answering(PL!Live, pCpc[Main], pOwed[Main], pAnswer[Main])
<1>1. /\ PL!StopNothingToStop(Main) => PL!Live' = {} /\ UNCHANGED <<pDestroying, pDestroyed>>
      /\ PL!StopAsked(Main) => /\ pCpc'[Main] # "idle" /\ PL!Live' \subseteq pOwed'[Main]
                               /\ UNCHANGED <<pDestroying, pDestroyed>>
      /\ PL!DestroyNothingToStop(Main) \/ PL!DestroyAsked(Main) =>
             PL!Live' \subseteq PL!Live /\ (pDestroyed => pDestroyed')
      /\ PL!StartLaunches(Main, PThread) \/ PL!StartSpawnFails(Main) =>
             UNCHANGED <<pDestroying, pDestroyed>>
    BY ThreadAssumption, PL!CallBegins
<1>2. StartP => UNCHANGED <<pDestroying, pDestroyed>>
    BY <1>1, PInstance DEF StartP
<1>3. StopP => Answered' /\ UNCHANGED <<pDestroying, pDestroyed>>
    BY <1>1, PInstance DEF StopP, Answering
<1>4. DestroyP => PL!Live' \subseteq PL!Live /\ (pDestroyed => pDestroyed')
    BY <1>1, PInstance DEF DestroyP
<1>5. ProceedP \/ LapseP =>
          /\ PL!Live' \subseteq PL!Live /\ (pDestroyed => pDestroyed')
          /\ UNCHANGED pDestroying
          /\ pDestroying = NoCaller /\ Answered => Answered'
  <2> SUFFICES ASSUME ProceedP \/ LapseP
               PROVE  /\ PL!Live' \subseteq PL!Live /\ (pDestroyed => pDestroyed')
                      /\ UNCHANGED pDestroying
                      /\ pDestroying = NoCaller /\ Answered => Answered'
      OBVIOUS
  <2>1. PL!Proceed(Main) \/ PL!Lapse(Main)
      BY PInstance DEF ProceedP, LapseP
  <2>2. /\ pCpc[Main] # "idle" /\ UNCHANGED <<pOwed, pDestroying, pConfigured>>
        /\ PL!Live' \subseteq PL!Live /\ (pDestroyed => pDestroyed')
        /\ (/\ PL!Live \subseteq pOwed[Main] /\ pDestroying # Main
            /\ pCpc'[Main] = "idle" /\ pAnswer'[Main] = "true") => PL!Live' = {}
      BY <2>1, ThreadAssumption, PL!CallInProgress
  <2> QED
      BY <2>2, ThreadAssumption DEF Answering
<1>6. WorkP \/ StumbleP =>
          /\ PL!Live' \subseteq PL!Live
          /\ UNCHANGED <<pDestroying, pDestroyed>>
          /\ Answered => Answered'
  <2> SUFFICES ASSUME WorkP \/ StumbleP
               PROVE  /\ PL!Live' \subseteq PL!Live
                      /\ UNCHANGED <<pDestroying, pDestroyed>>
                      /\ Answered => Answered'
      OBVIOUS
  <2>1. PL!Work(PThread) \/ PL!ScanAborts(PThread) \/ PL!WorkerWakesSpuriously(PThread)
      BY PInstance DEF WorkP, StumbleP
  <2>2. /\ UNCHANGED <<pOwed, pDestroying, pDestroyed, pConfigured, pAnswer>>
        /\ PL!Live' \subseteq PL!Live
        /\ pCpc'[Main] = "idle" <=> pCpc[Main] = "idle"
      BY <2>1, ThreadAssumption, PL!WorkerByItself
  <2> QED
      BY <2>2 DEF Answering
<1>7. UNCHANGED pvars =>
          PL!Live' = PL!Live /\ UNCHANGED <<pDestroying, pDestroyed, pCpc, pOwed, pAnswer>>
    BY DEF pvars, PL!Live, PL!LivePcs
<1> QED
    BY <1>2, <1>3, <1>4, <1>5, <1>6, <1>7

\* What a step of F does to what main() knows of it.
LEMMA FCalls ==
    ASSUME FL!TypeOK, FL!LifecycleInv
    PROVE  /\ StartF => UNCHANGED <<fDestroying, fDestroyed>>
           /\ StopF => /\ Answering(FL!Live, fCpc[Main], fOwed[Main], fAnswer[Main])'
                       /\ UNCHANGED <<fDestroying, fDestroyed>>
           /\ DestroyF => FL!Live' \subseteq FL!Live /\ (fDestroyed => fDestroyed')
           /\ ProceedF \/ LapseF =>
                  /\ FL!Live' \subseteq FL!Live /\ (fDestroyed => fDestroyed')
                  /\ UNCHANGED fDestroying
                  /\ /\ fDestroying = NoCaller
                     /\ Answering(FL!Live, fCpc[Main], fOwed[Main], fAnswer[Main])
                     => Answering(FL!Live, fCpc[Main], fOwed[Main], fAnswer[Main])'
           /\ WorkF \/ StumbleF =>
                  /\ FL!Live' \subseteq FL!Live
                  /\ UNCHANGED <<fDestroying, fDestroyed>>
                  /\ Answering(FL!Live, fCpc[Main], fOwed[Main], fAnswer[Main])
                     => Answering(FL!Live, fCpc[Main], fOwed[Main], fAnswer[Main])'
           /\ UNCHANGED fvars =>
                  FL!Live' = FL!Live /\ UNCHANGED <<fDestroying, fDestroyed, fCpc, fOwed, fAnswer>>
<1> DEFINE Answered == Answering(FL!Live, fCpc[Main], fOwed[Main], fAnswer[Main])
<1>1. /\ FL!StopNothingToStop(Main) => FL!Live' = {} /\ UNCHANGED <<fDestroying, fDestroyed>>
      /\ FL!StopAsked(Main) => /\ fCpc'[Main] # "idle" /\ FL!Live' \subseteq fOwed'[Main]
                               /\ UNCHANGED <<fDestroying, fDestroyed>>
      /\ FL!DestroyNothingToStop(Main) \/ FL!DestroyAsked(Main) =>
             FL!Live' \subseteq FL!Live /\ (fDestroyed => fDestroyed')
      /\ FL!StartLaunches(Main, FThread) \/ FL!StartSpawnFails(Main) =>
             UNCHANGED <<fDestroying, fDestroyed>>
    BY ThreadAssumption, FL!CallBegins
<1>2. StartF => UNCHANGED <<fDestroying, fDestroyed>>
    BY <1>1, FInstance DEF StartF
<1>3. StopF => Answered' /\ UNCHANGED <<fDestroying, fDestroyed>>
    BY <1>1, FInstance DEF StopF, Answering
<1>4. DestroyF => FL!Live' \subseteq FL!Live /\ (fDestroyed => fDestroyed')
    BY <1>1, FInstance DEF DestroyF
<1>5. ProceedF \/ LapseF =>
          /\ FL!Live' \subseteq FL!Live /\ (fDestroyed => fDestroyed')
          /\ UNCHANGED fDestroying
          /\ fDestroying = NoCaller /\ Answered => Answered'
  <2> SUFFICES ASSUME ProceedF \/ LapseF
               PROVE  /\ FL!Live' \subseteq FL!Live /\ (fDestroyed => fDestroyed')
                      /\ UNCHANGED fDestroying
                      /\ fDestroying = NoCaller /\ Answered => Answered'
      OBVIOUS
  <2>1. FL!Proceed(Main) \/ FL!Lapse(Main)
      BY FInstance DEF ProceedF, LapseF
  <2>2. /\ fCpc[Main] # "idle" /\ UNCHANGED <<fOwed, fDestroying, fConfigured>>
        /\ FL!Live' \subseteq FL!Live /\ (fDestroyed => fDestroyed')
        /\ (/\ FL!Live \subseteq fOwed[Main] /\ fDestroying # Main
            /\ fCpc'[Main] = "idle" /\ fAnswer'[Main] = "true") => FL!Live' = {}
      BY <2>1, ThreadAssumption, FL!CallInProgress
  <2> QED
      BY <2>2, ThreadAssumption DEF Answering
<1>6. WorkF \/ StumbleF =>
          /\ FL!Live' \subseteq FL!Live
          /\ UNCHANGED <<fDestroying, fDestroyed>>
          /\ Answered => Answered'
  <2> SUFFICES ASSUME WorkF \/ StumbleF
               PROVE  /\ FL!Live' \subseteq FL!Live
                      /\ UNCHANGED <<fDestroying, fDestroyed>>
                      /\ Answered => Answered'
      OBVIOUS
  <2>1. FL!Work(FThread) \/ FL!ScanAborts(FThread) \/ FL!WorkerWakesSpuriously(FThread)
      BY FInstance DEF WorkF, StumbleF
  <2>2. /\ UNCHANGED <<fOwed, fDestroying, fDestroyed, fConfigured, fAnswer>>
        /\ FL!Live' \subseteq FL!Live
        /\ fCpc'[Main] = "idle" <=> fCpc[Main] = "idle"
      BY <2>1, ThreadAssumption, FL!WorkerByItself
  <2> QED
      BY <2>2 DEF Answering
<1>7. UNCHANGED fvars =>
          FL!Live' = FL!Live /\ UNCHANGED <<fDestroying, fDestroyed, fCpc, fOwed, fAnswer>>
    BY DEF fvars, FL!Live, FL!LivePcs
<1> QED
    BY <1>2, <1>3, <1>4, <1>5, <1>6, <1>7

LEMMA AgentStep ==
    /\ PL!TypeOK /\ PL!LifecycleInv /\ FL!TypeOK /\ FL!LifecycleInv
    /\ AgentInv /\ [Next]_vars
    => AgentInv'
<1> SUFFICES ASSUME PL!TypeOK, PL!LifecycleInv, FL!TypeOK, FL!LifecycleInv,
                    AgentInv, [Next]_vars
             PROVE  AgentInv'
    OBVIOUS
<1> USE PCalls, FCalls DEF AgentInv, BeforeDestruction, AfterStop, Goes, answers
<1>1. ASSUME NEW s \in Signals, Deliver(s)
      PROVE  AgentInv'
    BY <1>1 DEF Deliver
<1>2. CASE Store
    BY <1>2 DEF Store
<1>3. CASE InstallSignalHandlers
    BY <1>3 DEF InstallSignalHandlers
<1>4. CASE StartP
    BY <1>4 DEF StartP
<1>5. CASE StartF
    BY <1>5 DEF StartF
<1>6. CASE RunSleeps
    BY <1>6 DEF RunSleeps
<1>7. CASE NapOver
    BY <1>7 DEF NapOver
<1>8. CASE RunEnds
    BY <1>8 DEF RunEnds
<1>9. CASE StopF
    BY <1>9 DEF StopF
<1>10. CASE StoppedF
    BY <1>10 DEF StoppedF, Answering
<1>11. CASE StopP
    BY <1>11 DEF StopP
<1>12. CASE StoppedP
    BY <1>12 DEF StoppedP, BothStopped, Answering
<1>13. CASE DestroyF
    BY <1>13 DEF DestroyF
<1>14. CASE DestroyP
    BY <1>14 DEF DestroyP
<1>15. CASE Exit
    BY <1>15 DEF Exit
<1>16. CASE ProceedP \/ LapseP
    BY <1>16 DEF ProceedP, LapseP
<1>17. CASE ProceedF \/ LapseF
    BY <1>17 DEF ProceedF, LapseF
<1>18. CASE WorkP \/ StumbleP
    BY <1>18 DEF WorkP, StumbleP
<1>19. CASE WorkF \/ StumbleF
    BY <1>19 DEF WorkF, StumbleF
<1>20. CASE UNCHANGED vars
    BY <1>20 DEF vars
<1> QED
    BY <1>1, <1>2, <1>3, <1>4, <1>5, <1>6, <1>7, <1>8, <1>9, <1>10, <1>11,
       <1>12, <1>13, <1>14, <1>15, <1>16, <1>17, <1>18, <1>19, <1>20
    DEF Next, MainSteps, Ended

LEMMA AgentInvariant ==
    Spec => [](PL!LifecycleInv /\ FL!LifecycleInv /\ AgentInv)
<1>1. Init => AgentInv
    BY PInstance, FInstance
    DEF Init, AgentInv, BeforeDestruction, AfterStop, PL!Init, FL!Init
<1> QED
    BY <1>1, EnforcersInvariant, AgentStep, PTL DEF Spec

(***************************************************************************)
(* When main() returns every worker has been joined, and the filesystem    *)
(* enforcer's before the process enforcer is destroyed                     *)
(* (EnforcementCoordinator, main).                                         *)
(***************************************************************************)
THEOREM NoWorkerLeft == Spec => []NoWorkerOutlivesMain
<1>1. PL!LifecycleInv /\ FL!LifecycleInv /\ AgentInv => NoWorkerOutlivesMain
    BY DEF AgentInv, NoWorkerOutlivesMain, PL!LifecycleInv, PL!DestructorAlone,
           FL!LifecycleInv, FL!DestructorAlone, PL!Unjoined, FL!Unjoined,
           P!Unjoined, F!Unjoined
<1> QED
    BY <1>1, AgentInvariant, PTL

(***************************************************************************)
(* coordinator.stop() answers true only when neither worker is in its loop *)
(* any more (EnforcementCoordinator::stop).                                *)
(***************************************************************************)
THEOREM StopTellsTruth == Spec => []StopAnswerTrue
<1>1. AgentInv => StopAnswerTrue
    BY DEF AgentInv, StopAnswerTrue, P!Live, F!Live, P!LivePcs, F!LivePcs,
           PL!Live, FL!Live, PL!LivePcs, FL!LivePcs
<1> QED
    BY <1>1, AgentInvariant, PTL
==============================================================================
