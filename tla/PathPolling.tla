----------------------------- MODULE PathPolling -----------------------------
(***************************************************************************)
(* The fallback for a machine without FSEvents: monitor_paths_polling      *)
(* walks every monitored root, compares what it read with the snapshot of  *)
(* the previous scan and reports the differences.                          *)
(*                                                                         *)
(* Files change while a walk is under way, a root can fail to open, an     *)
(* entry can be unreadable, a walk can break off, and a stop request ends  *)
(* the scan between two roots.  A path that is not in a snapshot maps to   *)
(* Absent; the fingerprint of a file stands for its contents.              *)
(***************************************************************************)
EXTENDS Naturals, Sequences

CONSTANTS Paths,   \* what may lie below a monitored root, the roots included
          Prints,  \* fingerprints
          Absent,  \* no such path
          Roots,   \* load_monitored_paths(): a sequence of roots
          Below    \* Below[r]: the paths of the tree of root r

ASSUME RootAssumption ==
    /\ Absent \notin Prints
    /\ Roots \in Seq(DOMAIN Below)
    /\ \A r \in DOMAIN Below : Below[r] \subseteq Paths

VARIABLES
    disk,          \* what is really there
    stopRequested, \* stop_requested_
    pc,            \* "idle", "roots" (between roots), "walk" or "diff"
    next,          \* index of the root to open next
    todo,          \* the entries of the open root not visited yet
    current,       \* current_snapshot
    known,         \* known_path_snapshot_
    knownInit,     \* known_path_snapshot_initialized_
    events,        \* the events of the last scan
    read,          \* history: the paths whose state this scan has read
    readBefore,    \* history: the same of the scan that left known
    changed,       \* history: paths changed since this scan began
    changedBefore  \* history: the same since the scan that left known began

history == <<read, readBefore, changed, changedBefore>>
vars == <<disk, stopRequested, pc, next, todo, current, known, knownInit, events,
          history>>

NoSnapshot == [p \in Paths |-> Absent]

Init ==
    /\ disk \in [Paths -> Prints \cup {Absent}]
    /\ stopRequested = FALSE
    /\ pc = "idle"
    /\ next = 1
    /\ todo = {}
    /\ current = NoSnapshot
    /\ known = NoSnapshot
    /\ knownInit = FALSE
    /\ events = {}
    /\ read = {} /\ readBefore = {}
    /\ changed = {} /\ changedBefore = {}

\* Another program creates, changes or removes p.
Change(p, print) ==
    /\ disk[p] # print
    /\ disk' = [disk EXCEPT ![p] = print]
    /\ changed' = changed \cup {p}
    /\ changedBefore' = changedBefore \cup {p}
    /\ UNCHANGED <<stopRequested, pc, next, todo, current, known, knownInit,
                   events, read, readBefore>>

RequestStop ==
    /\ stopRequested' = TRUE
    /\ UNCHANGED <<disk, pc, next, todo, current, known, knownInit, events, history>>

\* start() again, after the worker of the previous start() has left: the
\* snapshot it remembers is still the one of its last scan.
Restart ==
    /\ pc = "idle"
    /\ stopRequested
    /\ stopRequested' = FALSE
    /\ UNCHANGED <<disk, pc, next, todo, current, known, knownInit, events, history>>

ScanBegins ==
    /\ pc = "idle"
    /\ ~stopRequested
    /\ pc' = "roots"
    /\ next' = 1
    /\ current' = NoSnapshot
    /\ read' = {}
    /\ changed' = {}
    /\ events' = {}
    /\ UNCHANGED <<disk, stopRequested, todo, known, knownInit, readBefore,
                   changedBefore>>

-----------------------------------------------------------------------------
(***************************************************************************)
(* The loop over the roots, and snapshot_tree.                             *)
(***************************************************************************)
AllRootsDone == next > Len(Roots)

\* The loop ends, or a stop request breaks it off.
RootsOver ==
    /\ pc = "roots"
    /\ AllRootsDone \/ stopRequested
    /\ pc' = "diff"
    /\ UNCHANGED <<disk, stopRequested, next, todo, current, known, knownInit,
                   events, history>>

MayOpen == pc = "roots" /\ ~AllRootsDone /\ ~stopRequested

OpenRoot ==
    /\ MayOpen
    /\ pc' = "walk"
    /\ todo' = Below[Roots[next]]
    /\ UNCHANGED <<disk, stopRequested, next, current, known, knownInit, events,
                   history>>

\* snapshot_tree returns false: the root is skipped, with a log line.
RootFails ==
    /\ MayOpen
    /\ next' = next + 1
    /\ UNCHANGED <<disk, stopRequested, pc, todo, current, known, knownInit,
                   events, history>>

\* One entry of the walk.  An earlier root that holds the path comes first.
ReadEntry(p) ==
    /\ pc = "walk"
    /\ p \in todo
    /\ todo' = todo \ {p}
    /\ current' = [current EXCEPT ![p] = IF @ = Absent THEN disk[p] ELSE @]
    /\ read' = read \cup {p}
    /\ UNCHANGED <<disk, stopRequested, pc, next, known, knownInit, events,
                   readBefore, changed, changedBefore>>

\* The entry is there but cannot be read: it is left out.
SkipEntry(p) ==
    /\ pc = "walk"
    /\ p \in todo
    /\ disk[p] # Absent
    /\ todo' = todo \ {p}
    /\ UNCHANGED <<disk, stopRequested, pc, next, current, known, knownInit,
                   events, history>>

\* increment(ec) fails and leaves the end iterator: the walk is over, and
\* snapshot_tree returns true with what it has.
WalkBreaksOff ==
    /\ pc = "walk"
    /\ todo # {}
    /\ todo' = {}
    /\ UNCHANGED <<disk, stopRequested, pc, next, current, known, knownInit,
                   events, history>>

RootDone ==
    /\ pc = "walk"
    /\ todo = {}
    /\ pc' = "roots"
    /\ next' = next + 1
    /\ UNCHANGED <<disk, stopRequested, todo, current, known, knownInit, events,
                   history>>

-----------------------------------------------------------------------------
(***************************************************************************)
(* The comparison.                                                         *)
(***************************************************************************)
Event(action, p) == [action |-> action, path |-> p]

Created(old, new) == {p \in Paths : new[p] # Absent /\ old[p] = Absent}

\* Mutant: the fingerprints are not compared.
ModifiedAlways(old, new) == {p \in Paths : new[p] # Absent /\ old[p] # Absent}

Modified(old, new) ==
    {p \in Paths : new[p] # Absent /\ old[p] # Absent /\ new[p] # old[p]}

\* Mutant: the second loop runs over the new snapshot as well.
DeletedFromNew(old, new) == {p \in Paths : new[p] = Absent /\ new[p] # Absent}

Deleted(old, new) == {p \in Paths : new[p] = Absent /\ old[p] # Absent}

\* Mutant: an event with an action that no consumer knows.
DifferenceMislabels(old, new) ==
    {Event("created", p) : p \in Created(old, new)}
      \cup {Event("modified", p) : p \in Modified(old, new)}
      \cup {Event("removed", p) : p \in Deleted(old, new)}

Difference(old, new) ==
    {Event("created", p) : p \in Created(old, new)}
      \cup {Event("modified", p) : p \in Modified(old, new)}
      \cup {Event("deleted", p) : p \in Deleted(old, new)}

\* Mutant: the snapshot of the first scan is kept for ever.
CompareKeepsFirst ==
    /\ pc = "diff"
    /\ events' = IF knownInit THEN Difference(known, current) ELSE {}
    /\ known' = IF knownInit THEN known ELSE current
    /\ knownInit' = TRUE
    /\ pc' = "idle"
    /\ readBefore' = read
    /\ changedBefore' = changed
    /\ UNCHANGED <<disk, stopRequested, next, todo, current, read, changed>>

\* The first snapshot is the baseline and reports nothing.
Compare ==
    /\ pc = "diff"
    /\ events' = IF knownInit THEN Difference(known, current) ELSE {}
    /\ known' = current
    /\ knownInit' = TRUE
    /\ pc' = "idle"
    /\ readBefore' = read
    /\ changedBefore' = changed
    /\ UNCHANGED <<disk, stopRequested, next, todo, current, read, changed>>

Scan ==
    \/ ScanBegins \/ RootsOver \/ OpenRoot \/ RootFails \/ RootDone
    \/ WalkBreaksOff \/ Compare
    \/ \E p \in Paths : ReadEntry(p) \/ SkipEntry(p)

Next ==
    \/ \E p \in Paths, print \in Prints \cup {Absent} : Change(p, print)
    \/ RequestStop \/ Restart
    \/ Scan

Spec == Init /\ [][Next]_vars

-----------------------------------------------------------------------------
(***************************************************************************)
(* Properties.                                                             *)
(***************************************************************************)
Snapshots == [Paths -> Prints \cup {Absent}]

Events == [action : {"created", "modified", "deleted"}, path : Paths]

\* The types; an event is "created", "modified" or "deleted".
TypeOK ==
    /\ disk \in Snapshots /\ current \in Snapshots /\ known \in Snapshots
    /\ stopRequested \in BOOLEAN /\ knownInit \in BOOLEAN
    /\ pc \in {"idle", "roots", "walk", "diff"}
    /\ next \in 1..(Len(Roots) + 1)
    /\ todo \subseteq Paths
    /\ events \subseteq Events
    /\ read \subseteq Paths /\ readBefore \subseteq Paths
    /\ changed \subseteq changedBefore /\ changedBefore \subseteq Paths

\* An event names a path that really changed since the previous scan began,
\* or one that this scan or the previous one failed to read.
EventsAreReal ==
    [][\A e \in events' \ events :
          \/ e.path \in changedBefore
          \/ e.path \notin read \cap readBefore]_vars

\* A path that this scan read and nobody changed meanwhile is reported just
\* when, and just as, its state differs from the remembered one.
ChangesAreReported ==
    [][Compare /\ knownInit =>
         \A p \in read \ changed :
             /\ Event("created", p) \in events' <=> known[p] = Absent /\ disk[p] # Absent
             /\ Event("deleted", p) \in events' <=> known[p] # Absent /\ disk[p] = Absent
             /\ Event("modified", p) \in events' <=>
                    known[p] # Absent /\ disk[p] # Absent /\ known[p] # disk[p]]_vars

\* Between scans the enforcer remembers each path as it is, except those the
\* last scan did not read or that changed after it began: a broken-off scan
\* or a restart never leaves a state that neither of the two explains.
MemoryIsExplained ==
    pc = "idle" /\ knownInit =>
        \A p \in readBefore \ changedBefore : known[p] = disk[p]

\* What filesystem_enforcer.cpp:99-105 says of the comparison of snapshots:
\* it detects deleted paths.  So a path reported as deleted was touched.
DeletedMeansTouched ==
    [][\A e \in events' \ events : e.action = "deleted" => e.path \in changedBefore]_vars
==============================================================================
