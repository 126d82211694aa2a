--------------------------- MODULE FilesystemEvents ---------------------------
(***************************************************************************)
(* How the filesystem enforcer learns of new volumes and of changes to     *)
(* monitored files: the FSEvents callback, which fills a queue from a      *)
(* thread of its own; the scan, which drains the queue, lists the volumes  *)
(* root when an event or the periodic resync asks for it, and compares the *)
(* list with the one it remembers; and the stop of the stream.             *)
(*                                                                         *)
(* The operating system is part of the model: volumes come and go and      *)
(* files change at any moment, a notice of it is delivered later, alone or *)
(* merged in a "dropped events" notice, and a directory listing sees each  *)
(* entry at its own instant.  The handshake of start() and stop() is in    *)
(* EnforcerLifecycle; here a stop request and a new start are inputs.      *)
(***************************************************************************)
EXTENDS Integers, FiniteSets

CONSTANTS Volumes,      \* directories that may appear under volumes_root_
          Files,        \* paths outside volumes_root_
          Monitored,    \* the files inside a monitored root and not ignored
          VolumesRoot,  \* any path at or under volumes_root_
          Top,          \* the path of a "dropped events" notice
          ResyncAge,    \* kVolumeResyncInterval, in ticks of the clock
          MaxBackSteps  \* bound: times the wall clock is set back

ASSUME InputAssumption ==
    /\ Monitored \subseteq Files
    /\ {VolumesRoot, Top} \cap Files = {}
    /\ VolumesRoot # Top

ASSUME BoundAssumption ==
    ResyncAge \in Nat \ {0} /\ MaxBackSteps \in Nat

VARIABLES
    allowed,        \* the volumes is_mount_allowed accepts, fixed in Init
    mounts,         \* what is really mounted
    newcomers,      \* history: volumes inserted, or skipped by a listing, since
                    \*          they were last in a listing
    notices,        \* FSEvents notices on their way to the callback
    stream,         \* event_backend_ != nullptr
    pendingPaths,   \* pending_event_paths_, as a set: a scan drops duplicates
    volumesPending, \* volumes_event_pending_
    hasPending,     \* has_pending_events_
    stopRequested,  \* stop_requested_
    pc,             \* where the worker is
    drained,        \* the monitored ones of the paths the worker drained
    moved,          \* volumes that came or went during the listing
    known,          \* known_mounts_
    knownInit,      \* known_mounts_initialized_
    hasResync,      \* has_last_volume_resync_
    sinceResync,    \* clock - last_volume_resync_, up to ResyncAge
    sinceStamp,     \* clock - stats.timestamp, up to ResyncAge, until it is used
    backSteps,      \* bound counter of SetClockBack
    alerts,         \* the volumes the last scan reported as new
    blind,          \* history: volumes that the latest listing may have missed
    unreported,     \* history: monitored files changed under this stream
    dropped         \* history: those whose own notice was dropped

world == <<allowed, mounts, notices>>
queue == <<pendingPaths, volumesPending, hasPending>>
clock == <<sinceResync, sinceStamp, backSteps>>
memory == <<known, knownInit, hasResync, alerts, blind, newcomers>>
vars == <<world, queue, clock, memory, stream, stopRequested, pc, drained, moved,
          unreported, dropped>>

Paths == Files \cup {VolumesRoot, Top}

Init ==
    /\ allowed \in SUBSET Volumes
    /\ mounts \in SUBSET Volumes
    /\ newcomers = {}
    /\ notices = {}
    /\ stream = FALSE
    /\ pendingPaths = {} /\ volumesPending = FALSE /\ hasPending = FALSE
    /\ stopRequested = FALSE
    /\ pc = "off"
    /\ drained = {}
    /\ moved = {}
    /\ known = {} /\ knownInit = FALSE
    /\ hasResync = FALSE
    /\ sinceResync = 0 /\ sinceStamp = 0 /\ backSteps = 0
    /\ alerts = {}
    /\ blind = Volumes
    /\ unreported = {} /\ dropped = {}

-----------------------------------------------------------------------------
(***************************************************************************)
(* The operating system.                                                   *)
(***************************************************************************)

\* A running stream will hear of p, or of dropped events in its place.
Notify(p) ==
    IF stream THEN \E n \in {p, Top} : notices' = notices \cup {n}
              ELSE UNCHANGED notices

Noted(v) == moved' = IF pc = "listing" THEN moved \cup {v} ELSE moved

Mount(v) ==
    /\ v \notin mounts
    /\ mounts' = mounts \cup {v}
    /\ newcomers' = newcomers \cup {v}
    /\ Notify(VolumesRoot)
    /\ Noted(v)
    /\ UNCHANGED <<allowed, queue, clock, known, knownInit, hasResync, alerts, blind,
                   stream, stopRequested, pc, drained, unreported, dropped>>

Unmount(v) ==
    /\ v \in mounts
    /\ mounts' = mounts \ {v}
    /\ Notify(VolumesRoot)
    /\ Noted(v)
    /\ UNCHANGED <<allowed, queue, clock, memory, stream, stopRequested, pc,
                   drained, unreported, dropped>>

ChangeFile(f) ==
    /\ Notify(f)
    /\ IF stream /\ f \in Monitored
       THEN /\ unreported' = unreported \cup {f}
            /\ dropped' = IF f \in notices' THEN dropped \ {f} ELSE dropped \cup {f}
       ELSE UNCHANGED <<unreported, dropped>>
    /\ UNCHANGED <<allowed, mounts, queue, clock, memory, stream, stopRequested,
                   pc, drained, moved>>

Older(age) == IF age < ResyncAge THEN age + 1 ELSE age

Tick ==
    /\ sinceResync' = Older(sinceResync)
    /\ sinceStamp' = IF pc = "listing" THEN Older(sinceStamp) ELSE 0
    /\ UNCHANGED <<world, queue, backSteps, memory, stream, stopRequested, pc,
                   drained, moved, unreported, dropped>>

\* The times are read from the wall clock, which can be set back.
SetClockBack ==
    /\ backSteps < MaxBackSteps
    /\ backSteps' = backSteps + 1
    /\ sinceResync' = sinceResync - ResyncAge
    /\ sinceStamp' = IF pc = "listing" THEN sinceStamp - ResyncAge ELSE 0
    /\ UNCHANGED <<world, queue, memory, stream, stopRequested, pc, drained,
                   moved, unreported, dropped>>

-----------------------------------------------------------------------------
(***************************************************************************)
(* fsevents_callback and enqueue_path_event, on the dispatch queue.        *)
(***************************************************************************)
\* Mutant: the volume flag is assigned for the last path, not raised.
EnqueueAssignsFlag(p) ==
    /\ pendingPaths' = pendingPaths \cup {p}
    /\ volumesPending' = (p = VolumesRoot)
    /\ hasPending' = TRUE

\* Mutant: the worker is told of volume events only.
EnqueueTellsOfVolumes(p) ==
    /\ pendingPaths' = pendingPaths \cup {p}
    /\ volumesPending' = (volumesPending \/ p = VolumesRoot)
    /\ hasPending' = volumesPending'

EnqueuePathEvent(p) ==
    /\ pendingPaths' = pendingPaths \cup {p}
    /\ volumesPending' = (volumesPending \/ p = VolumesRoot)
    /\ hasPending' = TRUE

\* A notice of dropped events is enqueued under its own path, and then once
\* more under the volumes root, in a critical section of its own.
Callback(n) ==
    /\ n \in notices
    /\ EnqueuePathEvent(n)
    /\ notices' = (notices \ {n}) \cup (IF n = Top THEN {VolumesRoot} ELSE {})
    /\ UNCHANGED <<allowed, mounts, clock, memory, stream, stopRequested, pc,
                   drained, moved, unreported, dropped>>

-----------------------------------------------------------------------------
(***************************************************************************)
(* start() and stop(), as far as the scanning worker sees them.            *)
(***************************************************************************)
Start(enabled) ==
    /\ pc = "off"
    /\ pc' = "loop"
    /\ stream' = enabled
    /\ stopRequested' = FALSE
    /\ blind' = Volumes
    /\ UNCHANGED <<world, queue, clock, known, knownInit, hasResync, alerts, newcomers,
                   drained, moved, unreported, dropped>>

RequestStop ==
    /\ pc # "off"
    /\ stopRequested' = TRUE
    /\ UNCHANGED <<world, queue, clock, memory, stream, pc, drained, moved,
                   unreported, dropped>>

\* The loop has ended: stop_event_stream().  A callback that is running when
\* the stream is invalidated still holds some of the notices, and may enqueue
\* them after the queue was cleared, for the next worker to drain.
CloseStream ==
    /\ pc = "closing"
    /\ pc' = "off"
    /\ stream' = FALSE
    /\ IF stream
       THEN /\ notices' \in SUBSET notices
            /\ pendingPaths' = {} /\ volumesPending' = FALSE /\ hasPending' = FALSE
            /\ unreported' = {} /\ dropped' = {}
       ELSE UNCHANGED <<notices, queue, unreported, dropped>>
    /\ UNCHANGED <<allowed, mounts, clock, memory, stopRequested, drained, moved>>

-----------------------------------------------------------------------------
(***************************************************************************)
(* scan_loop and perform_scan.                                             *)
(***************************************************************************)
LeaveLoop ==
    /\ pc = "loop"
    /\ stopRequested
    /\ pc' = "closing"
    /\ UNCHANGED <<world, queue, clock, memory, stream, stopRequested, drained,
                   moved, unreported, dropped>>

\* Mutant: the drained paths are not filtered.
DrainUnfiltered ==
    /\ drained' = pendingPaths
    /\ pendingPaths' = {} /\ volumesPending' = FALSE /\ hasPending' = FALSE

DrainPendingEvents ==
    /\ drained' = pendingPaths \cap Monitored
    /\ pendingPaths' = {} /\ volumesPending' = FALSE /\ hasPending' = FALSE

\* Mutant: the two times are subtracted the wrong way round.
ResyncDueSwapped == hasResync /\ -sinceResync >= ResyncAge

ResyncDue == hasResync /\ sinceResync >= ResyncAge

ShouldScanVolumes == ~stream \/ ~knownInit \/ volumesPending \/ ResyncDue

\* The time stamp, the drained queue and the decision to list.  A listing may
\* read an entry at any instant from here on.  A scan that does not list
\* starts the resync interval if nothing has started it yet.
ScanBegins ==
    /\ pc = "loop"
    /\ ~stopRequested
    /\ DrainPendingEvents
    /\ pc' = IF ShouldScanVolumes THEN "listing" ELSE "paths"
    /\ hasResync' = (hasResync \/ ~ShouldScanVolumes)
    /\ sinceStamp' = 0
    /\ sinceResync' = IF hasResync' /\ ~hasResync THEN 0 ELSE sinceResync
    /\ alerts' = {}
    /\ UNCHANGED <<world, backSteps, known, knownInit, blind, newcomers, stream,
                   stopRequested, moved, unreported, dropped>>

\* After monitor_volumes, whatever it did; a scan by polling keeps no date.
RestartResync ==
    IF stream THEN hasResync' = TRUE /\ sinceResync' = sinceStamp
              ELSE UNCHANGED <<hasResync, sinceResync>>

ListingOver == pc' = "paths" /\ moved' = {} /\ sinceStamp' = 0

\* Mutant: the first listing is compared too, with nothing.
NewMountsNoBaseline(listed) == listed \ known

NewMounts(listed) == IF knownInit THEN listed \ known ELSE {}

\* list_directories, when it returns true.  Each entry was read at some instant:
\* one that came or went meanwhile may be listed or not.  An entry of which
\* is_directory() fails is skipped, and the listing succeeds without it.
Listing(listed, skipped) ==
    /\ skipped \subseteq mounts \cup moved
    /\ listed \cap skipped = {}
    /\ listed \ (moved \cup skipped) = mounts \ (moved \cup skipped)

\* monitor_volumes with the listing that was read.
MonitorVolumes(listed, skipped) ==
    /\ pc = "listing"
    /\ Listing(listed, skipped)
    /\ alerts' = NewMounts(listed) \ allowed
    /\ known' = listed
    /\ knownInit' = TRUE
    /\ newcomers' = (newcomers \ listed) \cup skipped
    /\ blind' = skipped
    /\ RestartResync
    /\ ListingOver
    /\ UNCHANGED <<world, queue, backSteps, stream, stopRequested, drained,
                   unreported, dropped>>

\* The directory cannot be opened.
ListFails ==
    /\ pc = "listing"
    /\ blind' = Volumes
    /\ RestartResync
    /\ ListingOver
    /\ UNCHANGED <<world, queue, backSteps, known, knownInit, alerts, newcomers,
                   stream, stopRequested, drained, unreported, dropped>>

\* Advancing the directory iterator throws: the exception ends the loop.
ListThrows ==
    /\ pc = "listing"
    /\ pc' = "closing"
    /\ moved' = {}
    /\ drained' = {}
    /\ sinceStamp' = 0
    /\ UNCHANGED <<world, queue, sinceResync, backSteps, memory, stream,
                   stopRequested, unreported, dropped>>

\* monitor_paths_from_events; without a stream PathPolling takes its place.
MonitorPathsFromEvents ==
    /\ pc = "paths"
    /\ unreported' = unreported \ drained
    /\ dropped' = dropped \ drained
    /\ drained' = {}
    /\ pc' = "wait"
    /\ UNCHANGED <<world, queue, clock, memory, stream, stopRequested, moved>>

\* The timed wait on wake_cv_ ends: notified, at its timeout or spuriously.
Wake ==
    /\ pc = "wait"
    /\ pc' = "loop"
    /\ UNCHANGED <<world, queue, clock, memory, stream, stopRequested, drained,
                   moved, unreported, dropped>>

-----------------------------------------------------------------------------
Environment ==
    \/ \E v \in Volumes : Mount(v) \/ Unmount(v)
    \/ \E f \in Files : ChangeFile(f)
    \/ SetClockBack
    \/ \E enabled \in BOOLEAN : Start(enabled)
    \/ RequestStop

Scan ==
    \/ LeaveLoop \/ ScanBegins \/ MonitorPathsFromEvents \/ Wake
    \/ CloseStream

ListSucceeds == \E listed, skipped \in SUBSET Volumes : MonitorVolumes(listed, skipped)

\* The listing reads v, if v is there.
Lists(v) ==
    \E listed \in SUBSET Volumes, skipped \in SUBSET (Volumes \ {v}) :
        MonitorVolumes(listed, skipped)

Next ==
    \/ Environment
    \/ Tick
    \/ \E n \in notices : Callback(n)
    \/ Scan \/ ListSucceeds \/ ListFails \/ ListThrows

Spec == Init /\ [][Next]_vars

\* The worker runs, time passes, and listing the volumes root neither fails nor
\* skips the same entry every time from some moment on.
FairSpec ==
    /\ Spec
    /\ WF_vars(Scan)
    /\ WF_vars(Tick)
    /\ \A v \in Volumes : SF_vars(Lists(v))

-----------------------------------------------------------------------------
(***************************************************************************)
(* Properties.                                                             *)
(***************************************************************************)
\* The types; a scan handles monitored paths only (monitor_paths_from_events),
\* and an unreported change was dropped or is on its way.
TypeOK ==
    /\ allowed \subseteq Volumes /\ mounts \subseteq Volumes /\ known \subseteq Volumes
    /\ moved \subseteq Volumes
    /\ newcomers \subseteq Volumes /\ alerts \subseteq Volumes /\ blind \subseteq Volumes
    /\ notices \subseteq Paths /\ pendingPaths \subseteq Paths /\ drained \subseteq Monitored
    /\ stream \in BOOLEAN /\ volumesPending \in BOOLEAN /\ hasPending \in BOOLEAN
    /\ stopRequested \in BOOLEAN /\ knownInit \in BOOLEAN /\ hasResync \in BOOLEAN
    /\ pc \in {"off", "loop", "listing", "paths", "wait", "closing"}
    /\ sinceResync \in Int /\ sinceResync <= ResyncAge
    /\ sinceStamp \in Int /\ sinceStamp <= ResyncAge
    /\ backSteps \in 0..MaxBackSteps
    /\ dropped \subseteq unreported /\ unreported \subseteq Monitored

\* A volume is reported only if it was inserted since a listing last contained
\* it, or a listing skipped it, and an allowed one never: events, resyncs, races
\* of a listing with what it lists, failed listings and restarts report no
\* volume again, and none that the first listing found (monitor_volumes).
NoFalseAlert == [][\A v \in alerts' \ alerts : v \in newcomers \ allowed]_vars

\* The worker is idle and no notice, queued or on its way, will call it.
Quiet == stream /\ pc = "wait" /\ notices = {} /\ ~hasPending

\* When everything is quiet, what the enforcer remembers is what is mounted: an
\* event consumed by drain_pending_events is always followed by a listing begun
\* after it.  Nothing is said of the volumes in blind: those the latest listing
\* skipped, and all of them after a listing that failed and, after a start with
\* known_mounts_ left over from an earlier worker, until there is a listing.
QuietMeansKnown == Quiet => known \ blind = mounts \ blind

\* When everything is quiet, each change to a monitored file has been
\* reported, unless the system dropped the notice of it.
QuietMeansReported == Quiet => unreported \subseteq dropped

\* What filesystem_enforcer.cpp:62-63 says of MustScanSubDirs: dropped events
\* require a full rescan, which would have found the file changed.
DroppedMeansRescanned == Quiet => unreported = {}

\* A volume that stays is found, whatever was dropped, failed, skipped now and
\* then or set back, as long as the enforcer runs.
MountIsFound ==
    \A v \in Volumes :
        (v \in mounts) ~> (v \in known \/ v \notin mounts \/ stopRequested \/ pc = "off")
==============================================================================
