---------------------------- MODULE AgentShutdown ----------------------------
(***************************************************************************)
(* The life of the agent: main(), the signal handler, the loop of          *)
(* Agent::run, and the EnforcementCoordinator, whose two enforcers are two *)
(* instances of EnforcerLifecycle with main() as their only caller.        *)
(*                                                                         *)
(* P is the process enforcer and F the filesystem enforcer: both have the  *)
(* same start, stop and destructor.  The members of an object are          *)
(* destroyed in the reverse order of their declaration, F first.           *)
(*                                                                         *)
(* A signal may arrive at any moment on any thread.  The two stores of its *)
(* handler are relaxed, so that main() can see them in either order.       *)
(***************************************************************************)
CONSTANTS Signals,   \* the signals install_signal_handlers handles
          NoSignal,  \* g_last_signal_ = 0
          Main,      \* the thread of main()
          PThread, FThread,  \* the workers of the two enforcers
          NoThread, NoCaller

ASSUME SignalAssumption == NoSignal \notin Signals

ASSUME ThreadAssumption ==
    NoThread \notin {PThread, FThread} /\ NoCaller # Main

VARIABLES
    mpc,                \* where main() is
    shutdownRequested,  \* g_shutdown_requested_
    lastSignal,         \* g_last_signal_
    stores,             \* stores of the handler that main() cannot see yet
    delivered,          \* bound and history: the signals that have arrived
    fStopped,           \* filesystem_stopped
    stopped             \* what coordinator.stop() returned

VARIABLES pConfigured, pRunning, pStopRequested, pWorkerExited, pHandle, pWpc,
          pCpc, pGrabbed, pDestroying, pDestroyed, pOwed, pAnswer

VARIABLES fConfigured, fRunning, fStopRequested, fWorkerExited, fHandle, fWpc,
          fCpc, fGrabbed, fDestroying, fDestroyed, fOwed, fAnswer

P == INSTANCE EnforcerLifecycle WITH
    Callers <- {Main}, Threads <- {PThread},
    configured <- pConfigured, running <- pRunning,
    stopRequested <- pStopRequested, workerExited <- pWorkerExited,
    handle <- pHandle, wpc <- pWpc, cpc <- pCpc, grabbed <- pGrabbed,
    destroying <- pDestroying, destroyed <- pDestroyed, owed <- pOwed,
    answer <- pAnswer

F == INSTANCE EnforcerLifecycle WITH
    Callers <- {Main}, Threads <- {FThread},
    configured <- fConfigured, running <- fRunning,
    stopRequested <- fStopRequested, workerExited <- fWorkerExited,
    handle <- fHandle, wpc <- fWpc, cpc <- fCpc, grabbed <- fGrabbed,
    destroying <- fDestroying, destroyed <- fDestroyed, owed <- fOwed,
    answer <- fAnswer

signals == <<shutdownRequested, lastSignal, stores, delivered>>
answers == <<fStopped, stopped>>
pvars == <<pConfigured, pRunning, pStopRequested, pWorkerExited, pHandle, pWpc,
           pCpc, pGrabbed, pDestroying, pDestroyed, pOwed, pAnswer>>
fvars == <<fConfigured, fRunning, fStopRequested, fWorkerExited, fHandle, fWpc,
           fCpc, fGrabbed, fDestroying, fDestroyed, fOwed, fAnswer>>
vars == <<mpc, signals, answers, pvars, fvars>>

\* Both constructors get the configuration, which exists.
Init ==
    /\ mpc = "boot"
    /\ shutdownRequested = FALSE
    /\ lastSignal = NoSignal
    /\ stores = {}
    /\ delivered = {}
    /\ fStopped = FALSE /\ stopped = FALSE
    /\ P!Init /\ pConfigured
    /\ F!Init /\ fConfigured

-----------------------------------------------------------------------------
(***************************************************************************)
(* Signals.                                                                *)
(***************************************************************************)
\* Mutant: the handler notes the signal and does not ask for the shutdown.
HandleSignalNotesOnly(s) == {<<"lastSignal", s>>}

HandleSignal(s) == {<<"lastSignal", s>>, <<"shutdownRequested", s>>}

\* Before install_signal_handlers() the default action ends the program.
Deliver(s) ==
    /\ mpc \notin {"exited", "killed"}
    /\ s \notin delivered
    /\ IF mpc = "boot"
       THEN mpc' = "killed" /\ UNCHANGED stores
       ELSE stores' = stores \cup HandleSignal(s) /\ UNCHANGED mpc
    /\ delivered' = delivered \cup {s}
    /\ UNCHANGED <<shutdownRequested, lastSignal, answers, pvars, fvars>>

\* One of the stores reaches main().
Store ==
    /\ \E w \in stores :
          /\ stores' = stores \ {w}
          /\ IF w[1] = "lastSignal"
             THEN lastSignal' = w[2] /\ UNCHANGED shutdownRequested
             ELSE shutdownRequested' = TRUE /\ UNCHANGED lastSignal
    /\ UNCHANGED <<mpc, delivered, answers, pvars, fvars>>

-----------------------------------------------------------------------------
(***************************************************************************)
(* main(), Agent::run and the coordinator.                                 *)
(***************************************************************************)
Goes(from, to) == mpc = from /\ mpc' = to

InstallSignalHandlers ==
    /\ Goes("boot", "startP")
    /\ UNCHANGED <<signals, answers, pvars, fvars>>

\* A failed start of one enforcer does not keep the other from starting.
StartP ==
    /\ Goes("startP", "startF")
    /\ P!StartLaunches(Main, PThread) \/ P!StartSpawnFails(Main)
    /\ UNCHANGED <<signals, answers, fvars>>

StartF ==
    /\ Goes("startF", "run")
    /\ F!StartLaunches(Main, FThread) \/ F!StartSpawnFails(Main)
    /\ UNCHANGED <<signals, answers, pvars>>

\* The loop of Agent::run; it sleeps for a second at the most.
RunSleeps ==
    /\ ~shutdownRequested
    /\ Goes("run", "nap")
    /\ UNCHANGED <<signals, answers, pvars, fvars>>

NapOver ==
    /\ Goes("nap", "run")
    /\ UNCHANGED <<signals, answers, pvars, fvars>>

RunEnds ==
    /\ shutdownRequested
    /\ Goes("run", "stopF")
    /\ UNCHANGED <<signals, answers, pvars, fvars>>

StopF ==
    /\ Goes("stopF", "stoppingF")
    /\ F!StopNothingToStop(Main) \/ F!StopAsked(Main)
    /\ UNCHANGED <<signals, answers, pvars>>

\* One that did not stop in time does not keep the other from being asked.
StoppedF ==
    /\ fCpc[Main] = "idle"
    /\ Goes("stoppingF", "stopP")
    /\ fStopped' = (fAnswer[Main] = "true")
    /\ UNCHANGED <<signals, stopped, pvars, fvars>>

StopP ==
    /\ Goes("stopP", "stoppingP")
    /\ P!StopNothingToStop(Main) \/ P!StopAsked(Main)
    /\ UNCHANGED <<signals, answers, fvars>>

\* Mutant: one enforcer that stopped is enough.
EitherStopped(pStopped) == fStopped \/ pStopped

BothStopped(pStopped) == fStopped /\ pStopped

StoppedP ==
    /\ pCpc[Main] = "idle"
    /\ Goes("stoppingP", "destroyF")
    /\ stopped' = BothStopped(pAnswer[Main] = "true")
    /\ UNCHANGED <<signals, fStopped, pvars, fvars>>

\* main() returns: the destructor of the coordinator.
DestroyF ==
    /\ Goes("destroyF", "destroyingF")
    /\ F!DestroyNothingToStop(Main) \/ F!DestroyAsked(Main)
    /\ UNCHANGED <<signals, answers, pvars>>

DestroyP ==
    /\ fDestroyed
    /\ Goes("destroyingF", "destroyingP")
    /\ P!DestroyNothingToStop(Main) \/ P!DestroyAsked(Main)
    /\ UNCHANGED <<signals, answers, fvars>>

Exit ==
    /\ pDestroyed
    /\ Goes("destroyingP", "exited")
    /\ UNCHANGED <<signals, answers, pvars, fvars>>

\* A call of main() to one of the enforcers runs on.
ProceedP == P!Proceed(Main) /\ UNCHANGED <<mpc, signals, answers, fvars>>

ProceedF == F!Proceed(Main) /\ UNCHANGED <<mpc, signals, answers, pvars>>

LapseP == P!Lapse(Main) /\ UNCHANGED <<mpc, signals, answers, fvars>>

LapseF == F!Lapse(Main) /\ UNCHANGED <<mpc, signals, answers, pvars>>

MainSteps ==
    \/ InstallSignalHandlers \/ StartP \/ StartF \/ RunSleeps \/ NapOver
    \/ RunEnds \/ StopF \/ StoppedF \/ StopP \/ StoppedP \/ DestroyF \/ DestroyP
    \/ Exit \/ ProceedP \/ ProceedF

-----------------------------------------------------------------------------
(***************************************************************************)
(* The two workers.                                                        *)
(***************************************************************************)
WorkP == P!Work(PThread) /\ UNCHANGED <<mpc, signals, answers, fvars>>

WorkF == F!Work(FThread) /\ UNCHANGED <<mpc, signals, answers, pvars>>

StumbleP ==
    /\ P!ScanAborts(PThread) \/ P!WorkerWakesSpuriously(PThread)
    /\ UNCHANGED <<mpc, signals, answers, fvars>>

StumbleF ==
    /\ F!ScanAborts(FThread) \/ F!WorkerWakesSpuriously(FThread)
    /\ UNCHANGED <<mpc, signals, answers, pvars>>

Ended == mpc \in {"exited", "killed"} /\ UNCHANGED vars

Next ==
    \/ \E s \in Signals : Deliver(s)
    \/ Store
    \/ MainSteps \/ LapseP \/ LapseF
    \/ WorkP \/ WorkF \/ StumbleP \/ StumbleF
    \/ Ended

Spec == Init /\ [][Next]_vars

\* The threads run, scans end, and a store becomes visible in finite time.
\* No timeout of stop() is taken for granted.
FairSpec ==
    /\ Spec
    /\ WF_vars(Store)
    /\ WF_vars(MainSteps)
    /\ WF_vars(WorkP)
    /\ WF_vars(WorkF)

-----------------------------------------------------------------------------
(***************************************************************************)
(* Properties.                                                             *)
(***************************************************************************)
\* When main() returns, every worker that was started, whether or not the
\* other enforcer started, whether it was stopped, timed out or had ended by
\* an exception, has been joined: none runs on in a destroyed object, and no
\* std::thread is destroyed joinable.
NoWorkerOutlivesMain ==
    /\ mpc = "exited" => P!Unjoined = {} /\ F!Unjoined = {}
    /\ fDestroyed => F!Unjoined = {}

\* When coordinator.stop() answers true, no worker is scanning any more: main()
\* does not log the end of an agent that still writes to the log.
StopAnswerTrue == stopped => P!Live = {} /\ F!Live = {}

\* A signal ends the program, whenever it arrives once the handlers are
\* installed (before the enforcers start, during the sleep, in the middle of
\* the stop), however many enforcers are running and even if the wake-up of a
\* worker is lost.
SignalEndsProgram == stores # {} ~> mpc = "exited"
==============================================================================
