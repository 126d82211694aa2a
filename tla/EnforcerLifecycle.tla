-------------------------- MODULE EnforcerLifecycle --------------------------
(***************************************************************************)
(* The start / stop / destroy handshake between the threads that own an    *)
(* enforcer and its scanning worker: ProcessEnforcer::start, stop,         *)
(* scan_loop and ~ProcessEnforcer.  FilesystemEnforcer has the same code   *)
(* around its own perform_scan.                                            *)
(*                                                                         *)
(* Granularity.  A block that holds lifecycle_mutex_ from its first to its *)
(* last statement is one action; a wait on a condition variable is split   *)
(* where it releases the mutex.  stop() stores its request and notifies    *)
(* outside any mutex, so these are two actions, and the worker's wait on   *)
(* wake_cv_ has a step of its own between the evaluation of its predicate  *)
(* and the moment it is really blocked: a notification that falls between  *)
(* the two wakes nobody.                                                   *)
(*                                                                         *)
(* Threads is the set of threads the operating system may create for this  *)
(* object; it is what bounds the number of restarts.  When every one has   *)
(* been used, starting fails the way std::thread's constructor does.       *)
(***************************************************************************)

CONSTANTS Callers,   \* threads that call start(), stop() and the destructor
          Threads,   \* worker threads that may be created
          NoThread,  \* a std::thread that is not joinable
          NoCaller

ASSUME NullAssumption == NoThread \notin Threads /\ NoCaller \notin Callers

VARIABLES
    configured,     \* config_ != nullptr, fixed by the constructor
    running,        \* running_
    stopRequested,  \* stop_requested_
    workerExited,   \* worker_exited_
    handle,         \* worker_
    wpc,            \* where each worker thread is
    cpc,            \* where each caller is in stop() or the destructor
    grabbed,        \* grabbed[c]: the local thread_to_join of c
    destroying,     \* the caller inside the destructor
    destroyed,      \* the destructor has returned
    owed,           \* history: the worker found by stop()'s first check
    answer          \* history: what the last call of each caller returned

vars == <<configured, running, stopRequested, workerExited, handle, wpc,
          cpc, grabbed, destroying, destroyed, owed, answer>>

LivePcs == {"loop", "scan", "arm", "park", "asleep", "closing", "exiting"}

WorkerPcs == LivePcs \cup {"unborn", "notify", "finished", "joined"}

CallerPcs == {"idle", "asked", "stored", "signalled", "waiting", "woken",
              "joining", "force", "forceStored", "forceSignalled"}

\* The workers that have not yet told the object they are leaving.
Live == {t \in Threads : wpc[t] \in LivePcs}

Init ==
    /\ configured \in BOOLEAN
    /\ running = FALSE
    /\ stopRequested = FALSE
    /\ workerExited = TRUE
    /\ handle = NoThread
    /\ wpc = [t \in Threads |-> "unborn"]
    /\ cpc = [c \in Callers |-> "idle"]
    /\ grabbed = [c \in Callers |-> NoThread]
    /\ destroying = NoCaller
    /\ destroyed = FALSE
    /\ owed = [c \in Callers |-> {}]
    /\ answer = [c \in Callers |-> "none"]

-----------------------------------------------------------------------------
(***************************************************************************)
(* start().  Calling a member function of an object that is being          *)
(* destroyed is not a legal C++ program, hence MayCall.                    *)
(***************************************************************************)
MayCall(c) == cpc[c] = "idle" /\ destroying = NoCaller

\* Mutant: the refusing branch runs off the end without its return statement.
RefusedNoReturn(c) == answer' = [answer EXCEPT ![c] = "garbage"]

Refused(c) == answer' = [answer EXCEPT ![c] = "false"]

StartUnconfigured(c) ==
    /\ MayCall(c)
    /\ ~configured
    /\ Refused(c)
    /\ UNCHANGED <<configured, running, stopRequested, workerExited, handle,
                   wpc, cpc, grabbed, destroying, destroyed, owed>>

\* Mutant: start() resets the request before it looks at worker_.
StartRefusedResets(c) ==
    /\ MayCall(c)
    /\ configured
    /\ handle # NoThread \/ running
    /\ Refused(c)
    /\ stopRequested' = FALSE
    /\ UNCHANGED <<configured, running, workerExited, handle, wpc, cpc,
                   grabbed, destroying, destroyed, owed>>

StartRefused(c) ==
    /\ MayCall(c)
    /\ configured
    /\ handle # NoThread \/ running
    /\ Refused(c)
    /\ UNCHANGED <<configured, running, stopRequested, workerExited, handle,
                   wpc, cpc, grabbed, destroying, destroyed, owed>>

\* Mutant: start() trusts running_ and does not ask whether worker_ is joinable.
MayLaunchUnjoined(c) == MayCall(c) /\ configured /\ ~running

MayLaunch(c) == MayCall(c) /\ configured /\ handle = NoThread /\ ~running

StartLaunches(c, t) ==
    /\ MayLaunch(c)
    /\ wpc[t] = "unborn"
    /\ stopRequested' = FALSE
    /\ workerExited' = FALSE
    /\ running' = TRUE
    /\ handle' = t
    /\ wpc' = [wpc EXCEPT ![t] = "loop"]
    /\ answer' = [answer EXCEPT ![c] = "true"]
    /\ UNCHANGED <<configured, cpc, grabbed, destroying, destroyed, owed>>

\* The constructor of std::thread throws; the flags are put back, but the
\* stop request that start() cleared is not.
StartSpawnFails(c) ==
    /\ MayLaunch(c)
    /\ stopRequested' = FALSE
    /\ workerExited' = TRUE
    /\ running' = FALSE
    /\ Refused(c)
    /\ UNCHANGED <<configured, handle, wpc, cpc, grabbed, destroying,
                   destroyed, owed>>

-----------------------------------------------------------------------------
(***************************************************************************)
(* stop(), called directly or by the destructor (destroying = c).          *)
(***************************************************************************)

\* The early return of stop() when worker_ is not joinable.
ClearFlags ==
    /\ running' = FALSE
    /\ stopRequested' = TRUE
    /\ workerExited' = TRUE

StopNothingToStop(c) ==
    /\ MayCall(c)
    /\ handle = NoThread
    /\ ClearFlags
    /\ owed' = [owed EXCEPT ![c] = {}]
    /\ answer' = [answer EXCEPT ![c] = "true"]
    /\ UNCHANGED <<configured, handle, wpc, cpc, grabbed, destroying,
                   destroyed>>

StopFindsWorker(c) ==
    /\ handle # NoThread
    /\ cpc' = [cpc EXCEPT ![c] = "asked"]
    /\ owed' = [owed EXCEPT ![c] = Live]
    /\ UNCHANGED <<configured, running, stopRequested, workerExited, handle,
                   wpc, grabbed, destroyed, answer>>

StopAsked(c) ==
    /\ MayCall(c)
    /\ StopFindsWorker(c)
    /\ UNCHANGED destroying

\* stop_requested_.store(true), first in stop(), again in the destructor.
StoreStop(c) ==
    /\ \/ cpc[c] = "asked" /\ cpc' = [cpc EXCEPT ![c] = "stored"]
       \/ cpc[c] = "force" /\ cpc' = [cpc EXCEPT ![c] = "forceStored"]
    /\ stopRequested' = TRUE
    /\ UNCHANGED <<configured, running, workerExited, handle, wpc, grabbed,
                   destroying, destroyed, owed, answer>>

\* wake_cv_.notify_all() reaches the workers blocked in their wait, only.
Awakened == [t \in Threads |-> IF wpc[t] = "asleep" THEN "arm" ELSE wpc[t]]

NotifyWorker(c) ==
    /\ \/ cpc[c] = "stored" /\ cpc' = [cpc EXCEPT ![c] = "signalled"]
       \/ cpc[c] = "forceStored" /\ cpc' = [cpc EXCEPT ![c] = "forceSignalled"]
    /\ wpc' = Awakened
    /\ UNCHANGED <<configured, running, stopRequested, workerExited, handle,
                   grabbed, destroying, destroyed, owed, answer>>

(***************************************************************************)
(* lifecycle_cv_.wait_for: its predicate, worker_exited_, is evaluated     *)
(* under the mutex on entry, after every wake-up and at the timeout.       *)
(***************************************************************************)
\* Mutant: the handle is joined in place instead of being moved out first.
TakeHandleInPlace(c) ==
    /\ grabbed' = [grabbed EXCEPT ![c] = handle]
    /\ cpc' = [cpc EXCEPT ![c] = "joining"]
    /\ UNCHANGED <<configured, running, stopRequested, workerExited, handle,
                   wpc, destroying, destroyed, owed, answer>>

TakeHandle(c) ==
    /\ grabbed' = [grabbed EXCEPT ![c] = handle]
    /\ handle' = NoThread
    /\ cpc' = [cpc EXCEPT ![c] = "joining"]
    /\ UNCHANGED <<configured, running, stopRequested, workerExited, wpc,
                   destroying, destroyed, owed, answer>>

WaitSatisfied(c) ==
    /\ cpc[c] \in {"signalled", "woken"}
    /\ workerExited
    /\ TakeHandle(c)

\* Mutant: a wait without its predicate blocks even when the worker has left.
WaitBlocksBlindly(c) ==
    /\ cpc[c] \in {"signalled", "woken"}
    /\ cpc' = [cpc EXCEPT ![c] = "waiting"]
    /\ UNCHANGED <<configured, running, stopRequested, workerExited, handle,
                   wpc, grabbed, destroying, destroyed, owed, answer>>

WaitBlocks(c) ==
    /\ cpc[c] \in {"signalled", "woken"}
    /\ ~workerExited
    /\ cpc' = [cpc EXCEPT ![c] = "waiting"]
    /\ UNCHANGED <<configured, running, stopRequested, workerExited, handle,
                   wpc, grabbed, destroying, destroyed, owed, answer>>

WaitWakesSpuriously(c) ==
    /\ cpc[c] = "waiting"
    /\ cpc' = [cpc EXCEPT ![c] = "woken"]
    /\ UNCHANGED <<configured, running, stopRequested, workerExited, handle,
                   wpc, grabbed, destroying, destroyed, owed, answer>>

TimeoutFindsExit(c) ==
    /\ cpc[c] = "waiting"
    /\ workerExited
    /\ TakeHandle(c)

\* stop() returns false; the destructor goes on and insists.
StopTimesOut(c) ==
    /\ cpc[c] = "waiting"
    /\ ~workerExited
    /\ IF destroying = c
       THEN /\ cpc' = [cpc EXCEPT ![c] = "force"]
            /\ UNCHANGED answer
       ELSE /\ cpc' = [cpc EXCEPT ![c] = "idle"]
            /\ Refused(c)
    /\ UNCHANGED <<configured, running, stopRequested, workerExited, handle,
                   wpc, grabbed, destroying, destroyed, owed>>

\* Mutant: the thread is detached instead of joined.
JoinedDetaches(c) ==
    /\ cpc[c] = "joining"
    /\ UNCHANGED wpc
    /\ grabbed' = [grabbed EXCEPT ![c] = NoThread]
    /\ cpc' = [cpc EXCEPT ![c] = "idle"]
    /\ IF destroying = c
       THEN destroyed' = TRUE /\ UNCHANGED answer
       ELSE answer' = [answer EXCEPT ![c] = "true"] /\ UNCHANGED destroyed
    /\ UNCHANGED <<configured, running, stopRequested, workerExited, handle,
                   destroying, owed>>

\* thread_to_join.join(), skipped when another caller took the handle first,
\* then the return of stop(), and of the destructor around it.
Joined(c) ==
    /\ cpc[c] = "joining"
    /\ \/ grabbed[c] = NoThread /\ UNCHANGED wpc
       \/ /\ grabbed[c] # NoThread
          /\ wpc[grabbed[c]] = "finished"
          /\ wpc' = [wpc EXCEPT ![grabbed[c]] = "joined"]
    /\ grabbed' = [grabbed EXCEPT ![c] = NoThread]
    /\ cpc' = [cpc EXCEPT ![c] = "idle"]
    /\ IF destroying = c
       THEN destroyed' = TRUE /\ UNCHANGED answer
       ELSE answer' = [answer EXCEPT ![c] = "true"] /\ UNCHANGED destroyed
    /\ UNCHANGED <<configured, running, stopRequested, workerExited, handle,
                   destroying, owed>>

-----------------------------------------------------------------------------
(***************************************************************************)
(* The destructor.  C++ allows it only when no other call is in progress.  *)
(***************************************************************************)
MayDestroy(c) == MayCall(c) /\ \A d \in Callers : cpc[d] = "idle"

DestroyNothingToStop(c) ==
    /\ MayDestroy(c)
    /\ handle = NoThread
    /\ ClearFlags
    /\ destroying' = c
    /\ destroyed' = TRUE
    /\ UNCHANGED <<configured, handle, wpc, cpc, grabbed, owed, answer>>

DestroyAsked(c) ==
    /\ MayDestroy(c)
    /\ StopFindsWorker(c)
    /\ destroying' = c

\* After a timed-out stop: move worker_ out whatever the worker is doing.
DestroyTakes(c) ==
    /\ cpc[c] = "forceSignalled"
    /\ TakeHandle(c)

-----------------------------------------------------------------------------
(***************************************************************************)
(* scan_loop(), the worker's thread function.                              *)
(***************************************************************************)
Moves(t, from, to) ==
    /\ wpc[t] = from
    /\ wpc' = [wpc EXCEPT ![t] = to]
    /\ UNCHANGED <<configured, handle, grabbed, destroying, destroyed, owed,
                   answer>>

Step(t, from, to) ==
    /\ Moves(t, from, to)
    /\ UNCHANGED <<running, stopRequested, workerExited, cpc>>

LoopTest(t) ==
    \/ stopRequested /\ Step(t, "loop", "closing")
    \/ ~stopRequested /\ Step(t, "loop", "scan")

ScanReturns(t) == Step(t, "scan", "arm")

\* perform_scan throws and the loop's try block ends.
ScanAborts(t) == Step(t, "scan", "closing")

\* wake_cv_.wait_for: the predicate, then the wait itself.
WaitTest(t) ==
    \/ stopRequested /\ Step(t, "arm", "loop")
    \/ ~stopRequested /\ Step(t, "arm", "park")

FallAsleep(t) == Step(t, "park", "asleep")

\* Mutant: the worker waits for a notification without a timeout.
IntervalNeverExpires(t) == FALSE /\ Step(t, "asleep", "loop")

IntervalExpires(t) == Step(t, "asleep", "loop")

WorkerWakesSpuriously(t) == Step(t, "asleep", "arm")

\* Mutant: the aborted worker forgets to clear running_.
ClearRunningForgets(t) ==
    /\ Moves(t, "closing", "exiting")
    /\ UNCHANGED <<running, stopRequested, workerExited, cpc>>

ClearRunning(t) ==
    /\ Moves(t, "closing", "exiting")
    /\ running' = FALSE
    /\ UNCHANGED <<stopRequested, workerExited, cpc>>

ReportExit(t) ==
    /\ Moves(t, "exiting", "notify")
    /\ workerExited' = TRUE
    /\ UNCHANGED <<running, stopRequested, cpc>>

\* Mutant: the worker leaves without notifying lifecycle_cv_.
NotifyCallersForgets(t) ==
    /\ Moves(t, "notify", "finished")
    /\ UNCHANGED <<running, stopRequested, workerExited, cpc>>

\* lifecycle_cv_.notify_all(), the last thing the thread function does.
NotifyCallers(t) ==
    /\ Moves(t, "notify", "finished")
    /\ cpc' = [c \in Callers |-> IF cpc[c] = "waiting" THEN "woken" ELSE cpc[c]]
    /\ UNCHANGED <<running, stopRequested, workerExited>>

-----------------------------------------------------------------------------
\* A call begins: nothing obliges the program to make one.
Call(c) ==
    \/ StartUnconfigured(c) \/ StartRefused(c) \/ StartSpawnFails(c)
    \/ \E t \in Threads : StartLaunches(c, t)
    \/ StopNothingToStop(c) \/ StopAsked(c)
    \/ DestroyNothingToStop(c) \/ DestroyAsked(c)

\* A call in progress runs on.
Proceed(c) ==
    \/ StoreStop(c) \/ NotifyWorker(c) \/ WaitSatisfied(c) \/ WaitBlocks(c)
    \/ Joined(c) \/ DestroyTakes(c)

\* The wait of a call ends early, or at its timeout.
Lapse(c) ==
    \/ WaitWakesSpuriously(c) \/ TimeoutFindsExit(c) \/ StopTimesOut(c)

\* What the worker does by itself, its timed wait included.
Work(t) ==
    \/ LoopTest(t) \/ ScanReturns(t) \/ WaitTest(t) \/ FallAsleep(t)
    \/ IntervalExpires(t) \/ ClearRunning(t) \/ ReportExit(t)
    \/ NotifyCallers(t)

Next ==
    \/ \E c \in Callers : Call(c) \/ Proceed(c) \/ Lapse(c)
    \/ \E t \in Threads : Work(t) \/ ScanAborts(t) \/ WorkerWakesSpuriously(t)
    \/ destroyed /\ UNCHANGED vars

Spec == Init /\ [][Next]_vars

\* Every started thread keeps running and a scan ends; timeouts of stop()
\* are not taken for granted.
FairSpec ==
    /\ Spec
    /\ \A c \in Callers : WF_vars(Proceed(c))
    /\ \A t \in Threads : WF_vars(Work(t))

-----------------------------------------------------------------------------
(***************************************************************************)
(* Properties.                                                             *)
(***************************************************************************)

\* The type of each variable; a call answers true, false or not yet.
TypeOK ==
    /\ configured \in BOOLEAN
    /\ running \in BOOLEAN
    /\ stopRequested \in BOOLEAN
    /\ workerExited \in BOOLEAN
    /\ handle \in Threads \cup {NoThread}
    /\ wpc \in [Threads -> WorkerPcs]
    /\ cpc \in [Callers -> CallerPcs]
    /\ grabbed \in [Callers -> Threads \cup {NoThread}]
    /\ destroying \in Callers \cup {NoCaller}
    /\ destroyed \in BOOLEAN
    /\ owed \in [Callers -> SUBSET Threads]
    /\ answer \in [Callers -> {"none", "true", "false"}]

\* At most one thread is ever inside scan_loop, whatever calls to start and
\* stop race, time out and are made again (start, process_enforcer.cpp:150).
AtMostOneWorker == \A t, u \in Live : t = u

Unjoined == {t \in Threads : wpc[t] \notin {"unborn", "joined"}}

Owns(c, t) == grabbed[c] = t

\* Every thread not yet joined is held by worker_ or by the local variable of
\* exactly one call about to join it: losing one, or holding one in two
\* places, ends the program in std::terminate or joins it twice.
NoThreadLost ==
    \A t \in Unjoined :
        \/ handle = t /\ \A c \in Callers : ~Owns(c, t)
        \/ handle # t /\ \E c \in Callers :
               /\ Owns(c, t)
               /\ \A d \in Callers : Owns(d, t) => d = c

\* worker_exited_ says whether a worker is inside scan_loop.
ExitedFlagTruthful == workerExited <=> Live = {}

\* running_ says whether a worker is inside scan_loop's try block: it can
\* never refuse a start() for good after the worker was joined.
RunningFlagTruthful == running <=> \E t \in Live : wpc[t] # "exiting"

HandleIsUnjoined == handle # NoThread => handle \in Unjoined

\* A call joins a worker that has left, unless it is the destructor's, which
\* insists; nobody else is in a call then, and worker_ is empty.
GrabbedIsLeaving ==
    \A c \in Callers : grabbed[c] # NoThread =>
        /\ cpc[c] = "joining"
        /\ grabbed[c] \in Unjoined
        /\ destroying # c => grabbed[c] \notin Live

DestructorAlone ==
    /\ \A c \in Callers : destroying # NoCaller /\ cpc[c] # "idle" => destroying = c
    /\ \A c \in Callers : destroying = c /\ cpc[c] = "joining" => handle = NoThread
    /\ \A c \in Callers : cpc[c] \in {"force", "forceStored", "forceSignalled"}
                            => destroying = c
    /\ destroyed => Unjoined = {} /\ \A c \in Callers : cpc[c] = "idle"
    /\ destroyed => destroying # NoCaller

\* A stop() about to answer true has seen the worker it found go.
OwedHaveLeft ==
    \A c \in Callers :
        /\ \A t \in owed[c] : wpc[t] # "unborn"
        /\ cpc[c] = "joining" /\ destroying # c => owed[c] \cap Live = {}

\* The inductive invariant behind the theorems: who owns which thread, and
\* what the two flags say of it, in every state of every interleaving.
LifecycleInv ==
    /\ NoThreadLost
    /\ ExitedFlagTruthful
    /\ RunningFlagTruthful
    /\ HandleIsUnjoined
    /\ GrabbedIsLeaving
    /\ DestructorAlone
    /\ OwedHaveLeft

\* start() never takes back a request that a worker has still to obey: the
\* flag is cleared only when nobody is inside scan_loop.
RequestOutlivesWorker ==
    [][stopRequested /\ ~stopRequested' => Live = {}]_vars

Service == INSTANCE EnforcerService WITH
    live <- Live,
    touching <- {t \in Threads : wpc[t] \notin {"unborn", "finished", "joined"}},
    pending <- {c \in Callers : cpc[c] # "idle"}

\* The handshake keeps the promise of the class interface.
KeepsPromise == Service!Spec

\* A worker that has been asked to stop leaves its loop, even when the
\* notification was lost (it is then found at the end of the interval).
WorkerHeedsStop ==
    \A t \in Threads : (t \in Live /\ stopRequested) ~> t \notin Live

\* The destructor returns: its unbounded join never waits for ever.
DestructorReturns ==
    \A c \in Callers : (destroying = c) ~> destroyed

\* A stop() returns even if its own timeout never fires: the exit of the
\* worker it found always reaches it, and only a worker started since, by
\* somebody else, can keep it waiting.
StopReturns ==
    \A c \in Callers :
        cpc[c] # "idle" ~> cpc[c] = "idle" \/ ~(Live \subseteq owed[c])

\* What process_enforcer.hpp:49 and process_enforcer.cpp:129 say of a
\* configured enforcer: start() is refused only while a worker is running.
StartRefusalMeansRunning ==
    [][\A c \in Callers : StartRefused(c) =>
          \E t \in Threads : wpc[t] \in LivePcs \cup {"notify"}]_vars
==============================================================================
