------------------------ MODULE FilesystemEventsProofs ------------------------
(***************************************************************************)
(* Safety of the volume and FSEvents handling, for any volumes, files and  *)
(* bounds: the types, the alerts on volumes, and what the enforcer knows   *)
(* when nothing is left to wake it.                                        *)
(***************************************************************************)
EXTENDS FilesystemEvents, TLAPS

-----------------------------------------------------------------------------
(***************************************************************************)
(* The inductive invariants.                                               *)
(***************************************************************************)
\* Whatever the next comparison can find new is a newcomer.  A listing may hold
\* any volume that moved while it was read, mounted or not, and may miss one that
\* was mounted meanwhile, or that it skips, and will be found new by the listing
\* after.
AlertsInv ==
    /\ mounts \cap moved \subseteq newcomers
    /\ knownInit => (mounts \cup moved) \ known \subseteq newcomers

\* A worker runs as long as there is a stream, and closes it.
StreamInv == stream => pc # "off"

\* The volumes root will be listed, without the resync: a notice of it is on
\* its way to the callback, or was queued for the next scan.
ListingDue == VolumesRoot \in notices \/ Top \in notices \/ volumesPending

\* The enforcer knows what is mounted, or is about to list it, except for what
\* the latest listing may have skipped.  A listing that missed a move leaves the
\* notice of that move behind it.
KnownInv ==
    /\ StreamInv
    /\ volumesPending => hasPending
    /\ pc # "listing" => moved = {}
    /\ stream /\ moved # {} => ListingDue
    /\ stream /\ pc \notin {"listing", "closing"} =>
           known \ blind = mounts \ blind \/ ListingDue

\* A change that was not reported was dropped, or is a notice, is queued, or
\* is in the hands of the worker.
ReportedInv ==
    /\ StreamInv
    /\ pendingPaths # {} => hasPending
    /\ pc \notin {"listing", "paths"} => drained = {}
    /\ ~stream => unreported = {}
    /\ pc # "closing" =>
           unreported \subseteq dropped \cup notices \cup pendingPaths \cup drained

-----------------------------------------------------------------------------
(***************************************************************************)
(* The types.                                                              *)
(***************************************************************************)
LEMMA TypeInit == Init => TypeOK
<1> SUFFICES ASSUME Init PROVE TypeOK
    OBVIOUS
<1>1. newcomers \subseteq Volumes /\ alerts \subseteq Volumes /\ blind \subseteq Volumes
    BY DEF Init
<1>2. /\ sinceResync \in Int /\ sinceResync <= ResyncAge
      /\ sinceStamp \in Int /\ sinceStamp <= ResyncAge
      /\ backSteps \in 0..MaxBackSteps
    BY BoundAssumption DEF Init
<1>3. /\ stream \in BOOLEAN /\ volumesPending \in BOOLEAN /\ hasPending \in BOOLEAN
      /\ stopRequested \in BOOLEAN /\ knownInit \in BOOLEAN /\ hasResync \in BOOLEAN
    BY DEF Init
<1>4. /\ allowed \subseteq Volumes /\ mounts \subseteq Volumes /\ known \subseteq Volumes
      /\ moved \subseteq Volumes
      /\ notices \subseteq Paths /\ pendingPaths \subseteq Paths /\ drained \subseteq Monitored
      /\ dropped \subseteq unreported /\ unreported \subseteq Monitored
      /\ pc \in {"off", "loop", "listing", "paths", "wait", "closing"}
    BY DEF Init
<1> QED
    BY <1>1, <1>2, <1>3, <1>4 DEF TypeOK

LEMMA TypeStep == TypeOK /\ [Next]_vars => TypeOK'
<1> SUFFICES ASSUME TypeOK, [Next]_vars
             PROVE  TypeOK'
    OBVIOUS
<1> USE InputAssumption, BoundAssumption DEF TypeOK, Paths, vars, world, queue,
    clock, memory
<1>1. ASSUME NEW v \in Volumes, Mount(v)
     PROVE  TypeOK'
    BY <1>1 DEF Mount, Notify, Noted
<1>2. ASSUME NEW v \in Volumes, Unmount(v)
     PROVE  TypeOK'
    BY <1>2 DEF Unmount, Notify, Noted
<1>3. ASSUME NEW f \in Files, ChangeFile(f)
     PROVE  TypeOK'
    BY <1>3 DEF ChangeFile, Notify
<1>4. ASSUME NEW n \in notices, Callback(n)
     PROVE  TypeOK'
    BY <1>4 DEF Callback, EnqueuePathEvent
<1>5. ASSUME NEW e \in BOOLEAN, Start(e)
     PROVE  TypeOK'
    BY <1>5 DEF Start
<1>6. CASE SetClockBack
    BY <1>6 DEF SetClockBack
<1>7. CASE RequestStop
    BY <1>7 DEF RequestStop
<1>8. CASE Tick
    BY <1>8 DEF Tick, Older
<1>9. CASE LeaveLoop
    BY <1>9 DEF LeaveLoop
<1>10. CASE ScanBegins
  <2>1. hasResync' \in BOOLEAN
      BY <1>10 DEF ScanBegins
  <2>2. /\ sinceResync' \in Int /\ sinceResync' <= ResyncAge
        /\ sinceStamp' \in Int /\ sinceStamp' <= ResyncAge
      BY <1>10 DEF ScanBegins
  <2>3. pc' \in {"listing", "paths"}
      BY <1>10 DEF ScanBegins
  <2> QED
      BY <1>10, <2>1, <2>2, <2>3 DEF ScanBegins, DrainPendingEvents
<1>11. CASE MonitorPathsFromEvents
    BY <1>11 DEF MonitorPathsFromEvents
<1>12. CASE Wake
    BY <1>12 DEF Wake
<1>13. CASE CloseStream
    BY <1>13 DEF CloseStream
<1>14. ASSUME NEW listed \in SUBSET Volumes, NEW skipped \in SUBSET Volumes,
             MonitorVolumes(listed, skipped)
     PROVE  TypeOK'
  <2>1. newcomers' \subseteq Volumes /\ alerts' \subseteq Volumes
      BY <1>14 DEF MonitorVolumes, NewMounts
  <2>2. /\ sinceResync' \in Int /\ sinceResync' <= ResyncAge
        /\ sinceStamp' \in Int /\ sinceStamp' <= ResyncAge
      BY <1>14 DEF MonitorVolumes, RestartResync, ListingOver
  <2>3. hasResync' \in BOOLEAN
      BY <1>14 DEF MonitorVolumes, RestartResync
  <2> QED
      BY <1>14, <2>1, <2>2, <2>3 DEF MonitorVolumes, ListingOver
<1>15. CASE ListFails
  <2>1. /\ sinceResync' \in Int /\ sinceResync' <= ResyncAge
        /\ sinceStamp' \in Int /\ sinceStamp' <= ResyncAge
      BY <1>15 DEF ListFails, RestartResync, ListingOver
  <2>3. hasResync' \in BOOLEAN
      BY <1>15 DEF ListFails, RestartResync
  <2> QED
      BY <1>15, <2>1, <2>3 DEF ListFails, ListingOver
<1>16. CASE ListThrows
    BY <1>16 DEF ListThrows
<1>17. CASE UNCHANGED vars
    BY <1>17
<1> QED
    BY <1>1, <1>2, <1>3, <1>4, <1>5, <1>6, <1>7, <1>8, <1>9, <1>10, <1>11,
       <1>12, <1>13, <1>14, <1>15, <1>16, <1>17
    DEF Next, Environment, Scan, ListSucceeds

(***************************************************************************)
(* Every variable stays in its type: a scan handles monitored paths only   *)
(* (monitor_paths_from_events).                                            *)
(***************************************************************************)
THEOREM EventsTypeCorrect == Spec => []TypeOK
    BY TypeInit, TypeStep, PTL DEF Spec

-----------------------------------------------------------------------------
(***************************************************************************)
(* The alerts on volumes.                                                  *)
(***************************************************************************)
LEMMA AlertsStep == TypeOK /\ AlertsInv /\ [Next]_vars => AlertsInv'
<1> SUFFICES ASSUME TypeOK, AlertsInv, [Next]_vars
             PROVE  AlertsInv'
    OBVIOUS
<1> USE DEF TypeOK, AlertsInv, vars, world, queue, clock, memory
<1>1. ASSUME NEW v \in Volumes, Mount(v)
     PROVE  AlertsInv'
    BY <1>1 DEF Mount, Noted
<1>2. ASSUME NEW v \in Volumes, Unmount(v)
     PROVE  AlertsInv'
    BY <1>2 DEF Unmount, Noted
<1>3. ASSUME NEW f \in Files, ChangeFile(f)
     PROVE  AlertsInv'
    BY <1>3 DEF ChangeFile
<1>4. ASSUME NEW n \in notices, Callback(n)
     PROVE  AlertsInv'
    BY <1>4 DEF Callback
<1>5. ASSUME NEW e \in BOOLEAN, Start(e)
     PROVE  AlertsInv'
    BY <1>5 DEF Start
<1>6. CASE SetClockBack
    BY <1>6 DEF SetClockBack
<1>7. CASE RequestStop
    BY <1>7 DEF RequestStop
<1>8. CASE Tick
    BY <1>8 DEF Tick
<1>9. CASE LeaveLoop
    BY <1>9 DEF LeaveLoop
<1>10. CASE ScanBegins
    BY <1>10 DEF ScanBegins
<1>11. CASE MonitorPathsFromEvents
    BY <1>11 DEF MonitorPathsFromEvents
<1>12. CASE Wake
    BY <1>12 DEF Wake
<1>13. CASE CloseStream
    BY <1>13 DEF CloseStream
<1>14. ASSUME NEW listed \in SUBSET Volumes, NEW skipped \in SUBSET Volumes,
             MonitorVolumes(listed, skipped)
     PROVE  AlertsInv'
    BY <1>14 DEF MonitorVolumes, Listing, ListingOver
<1>15. CASE ListFails
    BY <1>15 DEF ListFails, ListingOver
<1>16. CASE ListThrows
    BY <1>16 DEF ListThrows
<1>17. CASE UNCHANGED vars
    BY <1>17
<1> QED
    BY <1>1, <1>2, <1>3, <1>4, <1>5, <1>6, <1>7, <1>8, <1>9, <1>10, <1>11,
       <1>12, <1>13, <1>14, <1>15, <1>16, <1>17
    DEF Next, Environment, Scan, ListSucceeds

\* Only a comparison of listings reports, and what it finds new is a newcomer.
LEMMA AlertsAreOwed ==
    ASSUME TypeOK, AlertsInv, [Next]_vars, NEW v \in alerts' \ alerts
    PROVE  v \in newcomers \ allowed
<1> USE DEF vars, world, queue, clock, memory
<1>1. ASSUME NEW listed \in SUBSET Volumes, NEW skipped \in SUBSET Volumes,
             MonitorVolumes(listed, skipped)
      PROVE  v \in newcomers \ allowed
  <2>1. v \in listed /\ v \notin known /\ knownInit /\ v \notin allowed
      BY <1>1 DEF MonitorVolumes, NewMounts
  <2>2. v \in mounts \cup moved
      BY <1>1, <2>1 DEF MonitorVolumes, Listing
  <2> QED
      BY <2>1, <2>2 DEF AlertsInv
<1>2. CASE alerts' = {} \/ alerts' = alerts
    BY <1>2
<1>3. CASE Environment
    BY <1>2, <1>3 DEF Environment, Mount, Unmount, ChangeFile, SetClockBack, Start,
       RequestStop
<1>4. CASE Tick \/ \E n \in notices : Callback(n)
    BY <1>2, <1>4 DEF Tick, Callback
<1>5. CASE Scan
    BY <1>2, <1>5 DEF Scan, LeaveLoop, ScanBegins, MonitorPathsFromEvents, Wake,
       CloseStream
<1>6. CASE ListFails \/ ListThrows
    BY <1>2, <1>6 DEF ListFails, ListThrows
<1>7. CASE UNCHANGED vars
    BY <1>2, <1>7
<1> QED
    BY <1>1, <1>3, <1>4, <1>5, <1>6, <1>7 DEF Next, ListSucceeds

(***************************************************************************)
(* A volume is reported only if it was inserted since a listing last       *)
(* contained it, or a listing skipped it, and an allowed one never         *)
(* (monitor_volumes).                                                      *)
(***************************************************************************)
THEOREM AlertsAreInsertions == Spec => NoFalseAlert
<1>1. Init => AlertsInv
    BY DEF Init, AlertsInv
<1>2. TypeOK /\ AlertsInv /\ [Next]_vars
          => [\A v \in alerts' \ alerts : v \in newcomers \ allowed]_vars
    BY AlertsAreOwed
<1> QED
    BY <1>1, <1>2, EventsTypeCorrect, AlertsStep, PTL DEF Spec, NoFalseAlert

-----------------------------------------------------------------------------
(***************************************************************************)
(* What the enforcer knows of the volumes.                                 *)
(***************************************************************************)
LEMMA KnownStep == TypeOK /\ KnownInv /\ [Next]_vars => KnownInv'
<1> SUFFICES ASSUME TypeOK, KnownInv, [Next]_vars
             PROVE  KnownInv'
    OBVIOUS
<1> USE InputAssumption DEF TypeOK, KnownInv, StreamInv, ListingDue, vars,
    world, queue, clock, memory
<1>1. ASSUME NEW v \in Volumes, Mount(v)
     PROVE  KnownInv'
    BY <1>1 DEF Mount, Notify, Noted
<1>2. ASSUME NEW v \in Volumes, Unmount(v)
     PROVE  KnownInv'
    BY <1>2 DEF Unmount, Notify, Noted
<1>3. ASSUME NEW f \in Files, ChangeFile(f)
     PROVE  KnownInv'
    BY <1>3 DEF ChangeFile, Notify
<1>4. ASSUME NEW n \in notices, Callback(n)
     PROVE  KnownInv'
    BY <1>4 DEF Callback, EnqueuePathEvent
<1>5. ASSUME NEW e \in BOOLEAN, Start(e)
     PROVE  KnownInv'
    BY <1>5 DEF Start
<1>6. CASE SetClockBack
    BY <1>6 DEF SetClockBack
<1>7. CASE RequestStop
    BY <1>7 DEF RequestStop
<1>8. CASE Tick
    BY <1>8 DEF Tick
<1>9. CASE LeaveLoop
    BY <1>9 DEF LeaveLoop
<1>10. CASE ScanBegins
    BY <1>10 DEF ScanBegins, DrainPendingEvents, ShouldScanVolumes
<1>11. CASE MonitorPathsFromEvents
    BY <1>11 DEF MonitorPathsFromEvents
<1>12. CASE Wake
    BY <1>12 DEF Wake
<1>13. CASE CloseStream
    BY <1>13 DEF CloseStream
<1>14. ASSUME NEW listed \in SUBSET Volumes, NEW skipped \in SUBSET Volumes,
             MonitorVolumes(listed, skipped)
     PROVE  KnownInv'
    BY <1>14 DEF MonitorVolumes, Listing, ListingOver
<1>15. CASE ListFails
    BY <1>15 DEF ListFails, ListingOver
<1>16. CASE ListThrows
    BY <1>16 DEF ListThrows
<1>17. CASE UNCHANGED vars
    BY <1>17
<1> QED
    BY <1>1, <1>2, <1>3, <1>4, <1>5, <1>6, <1>7, <1>8, <1>9, <1>10, <1>11,
       <1>12, <1>13, <1>14, <1>15, <1>16, <1>17
    DEF Next, Environment, Scan, ListSucceeds

(***************************************************************************)
(* With the stream running and nothing left to wake the worker, the        *)
(* volumes remembered are the volumes mounted, but for those the latest    *)
(* listing skipped, and unless it failed or none was made since the start  *)
(* (enqueue_path_event, drain_pending_events, monitor_volumes).            *)
(***************************************************************************)
THEOREM QuietVolumes == Spec => []QuietMeansKnown
<1>1. Init => KnownInv
    BY DEF Init, KnownInv, StreamInv
<1>2. KnownInv => QuietMeansKnown
    BY DEF KnownInv, ListingDue, QuietMeansKnown, Quiet
<1> QED
    BY <1>1, <1>2, EventsTypeCorrect, KnownStep, PTL DEF Spec

-----------------------------------------------------------------------------
(***************************************************************************)
(* What the enforcer reports of the files.                                 *)
(***************************************************************************)
LEMMA ReportedStep == TypeOK /\ ReportedInv /\ [Next]_vars => ReportedInv'
<1> SUFFICES ASSUME TypeOK, ReportedInv, [Next]_vars
             PROVE  ReportedInv'
    OBVIOUS
<1> USE InputAssumption DEF TypeOK, ReportedInv, StreamInv, vars, world, queue,
    clock, memory
<1>1. ASSUME NEW v \in Volumes, Mount(v)
     PROVE  ReportedInv'
    BY <1>1 DEF Mount, Notify
<1>2. ASSUME NEW v \in Volumes, Unmount(v)
     PROVE  ReportedInv'
    BY <1>2 DEF Unmount, Notify
<1>3. ASSUME NEW f \in Files, ChangeFile(f)
     PROVE  ReportedInv'
    BY <1>3 DEF ChangeFile, Notify
<1>4. ASSUME NEW n \in notices, Callback(n)
     PROVE  ReportedInv'
    BY <1>4 DEF Callback, EnqueuePathEvent
<1>5. ASSUME NEW e \in BOOLEAN, Start(e)
     PROVE  ReportedInv'
    BY <1>5 DEF Start
<1>6. CASE SetClockBack
    BY <1>6 DEF SetClockBack
<1>7. CASE RequestStop
    BY <1>7 DEF RequestStop
<1>8. CASE Tick
    BY <1>8 DEF Tick
<1>9. CASE LeaveLoop
    BY <1>9 DEF LeaveLoop
<1>10. CASE ScanBegins
    BY <1>10 DEF ScanBegins, DrainPendingEvents
<1>11. CASE MonitorPathsFromEvents
    BY <1>11 DEF MonitorPathsFromEvents
<1>12. CASE Wake
    BY <1>12 DEF Wake
<1>13. CASE CloseStream
    BY <1>13 DEF CloseStream
<1>14. ASSUME NEW listed \in SUBSET Volumes, NEW skipped \in SUBSET Volumes,
             MonitorVolumes(listed, skipped)
     PROVE  ReportedInv'
    BY <1>14 DEF MonitorVolumes, ListingOver
<1>15. CASE ListFails
    BY <1>15 DEF ListFails, ListingOver
<1>16. CASE ListThrows
    BY <1>16 DEF ListThrows
<1>17. CASE UNCHANGED vars
    BY <1>17
<1> QED
    BY <1>1, <1>2, <1>3, <1>4, <1>5, <1>6, <1>7, <1>8, <1>9, <1>10, <1>11,
       <1>12, <1>13, <1>14, <1>15, <1>16, <1>17
    DEF Next, Environment, Scan, ListSucceeds

(***************************************************************************)
(* With the stream running and nothing left to wake the worker, every      *)
(* change of a monitored file was reported, unless the system dropped its  *)
(* notice (monitor_paths_from_events).                                     *)
(***************************************************************************)
THEOREM QuietFiles == Spec => []QuietMeansReported
<1>1. Init => ReportedInv
    BY DEF Init, ReportedInv, StreamInv
<1>2. ReportedInv => QuietMeansReported
    BY DEF ReportedInv, QuietMeansReported, Quiet
<1> QED
    BY <1>1, <1>2, EventsTypeCorrect, ReportedStep, PTL DEF Spec
===============================================================================
