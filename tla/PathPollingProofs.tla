-------------------------- MODULE PathPollingProofs --------------------------
(***************************************************************************)
(* The comparison of snapshots, for any tree, roots and fingerprints: what *)
(* the enforcer remembers of a path and what it reports of it.             *)
(***************************************************************************)
EXTENDS PathPolling, TLAPS

(***************************************************************************)
(* The inductive invariant.                                                *)
(***************************************************************************)
\* The new snapshot holds each path as it is, once it was read, until another
\* program touches it, and nothing of a path that was not read.
SnapshotInv ==
    pc # "idle" =>
        /\ \A p \in read \ changed : current[p] = disk[p]
        /\ \A p \in Paths \ read : current[p] = Absent

\* The remembered one holds each path as it was when the scan that left it
\* read it; all that was touched since that scan began is in changedBefore,
\* during the next scan too.
MemoryInv ==
    knownInit => \A p \in readBefore \ changedBefore : known[p] = disk[p]

\* The index is that of an open root during the walk.
WalkInv == pc = "walk" => next <= Len(Roots)

-----------------------------------------------------------------------------
LEMMA RootTrees ==
    ASSUME NEW i \in 1..Len(Roots)
    PROVE  Len(Roots) \in Nat /\ Below[Roots[i]] \subseteq Paths
    BY RootAssumption

(***************************************************************************)
(* What the comparison reports is in the difference of the snapshots, as   *)
(* created, modified or deleted, and nothing else is.                      *)
(***************************************************************************)
LEMMA DifferenceMembers ==
    ASSUME NEW old, NEW new, NEW p
    PROVE  /\ Event("created", p) \in Difference(old, new) <=> p \in Created(old, new)
           /\ Event("modified", p) \in Difference(old, new) <=> p \in Modified(old, new)
           /\ Event("deleted", p) \in Difference(old, new) <=> p \in Deleted(old, new)
    BY DEF Difference, Event

LEMMA DifferenceDiffers ==
    ASSUME NEW old, NEW new, NEW e \in Difference(old, new)
    PROVE  e \in Events /\ old[e.path] # new[e.path]
    BY DEF Difference, Event, Events, Created, Modified, Deleted

LEMMA LenRoots == Len(Roots) \in Nat
    BY RootAssumption

-----------------------------------------------------------------------------
(***************************************************************************)
(* The types.                                                              *)
(***************************************************************************)
LEMMA TypeStep == TypeOK /\ WalkInv /\ [Next]_vars => TypeOK' /\ WalkInv'
<1> SUFFICES ASSUME TypeOK, WalkInv, [Next]_vars
             PROVE  TypeOK' /\ WalkInv'
    OBVIOUS
<1> USE LenRoots DEF TypeOK, WalkInv, Snapshots, NoSnapshot, AllRootsDone,
    MayOpen, vars, history
<1>1. ASSUME NEW p \in Paths, NEW print \in Prints \cup {Absent}, Change(p, print)
     PROVE  TypeOK' /\ WalkInv'
    BY <1>1 DEF Change
<1>2. CASE RequestStop
    BY <1>2 DEF RequestStop
<1>3. CASE Restart
    BY <1>3 DEF Restart
<1>4. CASE ScanBegins
    BY <1>4 DEF ScanBegins
<1>5. CASE RootsOver
    BY <1>5 DEF RootsOver
<1>6. CASE OpenRoot
  <2>1. next \in 1..Len(Roots)
      BY <1>6 DEF OpenRoot
  <2> QED
      BY <1>6, <2>1, RootTrees DEF OpenRoot
<1>7. CASE RootFails
    BY <1>7 DEF RootFails
<1>8. ASSUME NEW p \in Paths, ReadEntry(p)
     PROVE  TypeOK' /\ WalkInv'
    BY <1>8 DEF ReadEntry
<1>9. ASSUME NEW p \in Paths, SkipEntry(p)
     PROVE  TypeOK' /\ WalkInv'
    BY <1>9 DEF SkipEntry
<1>10. CASE WalkBreaksOff
    BY <1>10 DEF WalkBreaksOff
<1>11. CASE RootDone
    BY <1>11 DEF RootDone
<1>12. CASE Compare
  <2>1. events' \subseteq Events
      BY <1>12, DifferenceDiffers DEF Compare
  <2> QED
      BY <1>12, <2>1 DEF Compare
<1>13. CASE UNCHANGED vars
    BY <1>13
<1> QED
    BY <1>1, <1>2, <1>3, <1>4, <1>5, <1>6, <1>7, <1>8, <1>9, <1>10, <1>11, <1>12, <1>13
    DEF Next, Scan

(***************************************************************************)
(* Every variable stays in its type, and an event is a creation, a         *)
(* modification or a deletion (monitor_paths_polling, emit_path_event).    *)
(***************************************************************************)
THEOREM PollingTypeCorrect == Spec => []TypeOK
<1>1. Init => TypeOK /\ WalkInv
  <2> SUFFICES ASSUME Init PROVE TypeOK /\ WalkInv
      OBVIOUS
  <2>1. next \in 1..(Len(Roots) + 1)
      BY LenRoots DEF Init
  <2>2. disk \in Snapshots /\ current \in Snapshots /\ known \in Snapshots
      BY DEF Init, Snapshots, NoSnapshot
  <2> QED
      BY <2>1, <2>2 DEF Init, TypeOK, WalkInv
<1> QED
    BY <1>1, TypeStep, PTL DEF Spec

-----------------------------------------------------------------------------
(***************************************************************************)
(* The two snapshots.                                                      *)
(***************************************************************************)
PollingInv == SnapshotInv /\ MemoryInv

LEMMA PollingStep == TypeOK /\ PollingInv /\ [Next]_vars => PollingInv'
<1> SUFFICES ASSUME TypeOK, PollingInv, [Next]_vars
             PROVE  PollingInv'
    OBVIOUS
<1> USE DEF TypeOK, PollingInv, SnapshotInv, MemoryInv, Snapshots, NoSnapshot,
    vars, history
<1>1. ASSUME NEW p \in Paths, NEW print \in Prints \cup {Absent}, Change(p, print)
     PROVE  PollingInv'
    BY <1>1 DEF Change
<1>2. CASE RequestStop
    BY <1>2 DEF RequestStop
<1>3. CASE Restart
    BY <1>3 DEF Restart
<1>4. CASE ScanBegins
    BY <1>4 DEF ScanBegins
<1>5. CASE RootsOver
    BY <1>5 DEF RootsOver
<1>6. CASE OpenRoot
    BY <1>6 DEF OpenRoot, MayOpen
<1>7. CASE RootFails
    BY <1>7 DEF RootFails
<1>8. ASSUME NEW p \in Paths, ReadEntry(p)
     PROVE  PollingInv'
    BY <1>8 DEF ReadEntry
<1>9. ASSUME NEW p \in Paths, SkipEntry(p)
     PROVE  PollingInv'
    BY <1>9 DEF SkipEntry
<1>10. CASE WalkBreaksOff
    BY <1>10 DEF WalkBreaksOff
<1>11. CASE RootDone
    BY <1>11 DEF RootDone
<1>12. CASE Compare
    BY <1>12 DEF Compare
<1>13. CASE UNCHANGED vars
    BY <1>13
<1> QED
    BY <1>1, <1>2, <1>3, <1>4, <1>5, <1>6, <1>7, <1>8, <1>9, <1>10, <1>11, <1>12, <1>13
    DEF Next, Scan

LEMMA PollingInvariant == Spec => [](TypeOK /\ PollingInv)
<1>1. Init => PollingInv
    BY DEF Init, PollingInv, SnapshotInv, MemoryInv
<1> QED
    BY <1>1, PollingTypeCorrect, PollingStep, PTL DEF Spec

(***************************************************************************)
(* Between scans the enforcer remembers each path as it is, except those   *)
(* the last scan did not read or that changed after it began               *)
(* (known_path_snapshot_).                                                 *)
(***************************************************************************)
THEOREM MemoryCorrect == Spec => []MemoryIsExplained
<1>1. PollingInv => MemoryIsExplained
    BY DEF PollingInv, MemoryInv, MemoryIsExplained
<1> QED
    BY <1>1, PollingInvariant, PTL

-----------------------------------------------------------------------------
(***************************************************************************)
(* The reports.                                                            *)
(***************************************************************************)
\* Only the comparison reports.
LEMMA OnlyCompareReports ==
    ASSUME [Next]_vars, NEW e \in events' \ events
    PROVE  Compare /\ knownInit /\ e \in Difference(known, current)
<1>1. Compare
    BY DEF Next, Scan, Change, RequestStop, Restart, ScanBegins, RootsOver, OpenRoot,
           RootFails, ReadEntry, SkipEntry, WalkBreaksOff, RootDone, vars
<1> QED
    BY <1>1 DEF Compare

(***************************************************************************)
(* No phantom: an event is about a path that changed since the scan before *)
(* began, or that one of the two scans did not read.                       *)
(***************************************************************************)
THEOREM ReportsAreReal == Spec => EventsAreReal
<1> DEFINE Real(e) == \/ e.path \in changedBefore
                      \/ e.path \notin read \cap readBefore
<1>1. TypeOK /\ PollingInv /\ [Next]_vars => [\A e \in events' \ events : Real(e)]_vars
  <2> SUFFICES ASSUME TypeOK, PollingInv, [Next]_vars, NEW e \in events' \ events
               PROVE  Real(e)
      OBVIOUS
  <2>1. Compare /\ knownInit /\ e \in Difference(known, current)
      BY OnlyCompareReports
  <2>2. e \in Events /\ known[e.path] # current[e.path]
      BY <2>1, DifferenceDiffers
  <2>3. CASE e.path \in (read \cap readBefore) \ changedBefore
    <3>1. e.path \in read \ changed
        BY <2>3 DEF TypeOK
    <3>2. current[e.path] = disk[e.path] /\ known[e.path] = disk[e.path]
        BY <2>1, <2>3, <3>1 DEF PollingInv, SnapshotInv, MemoryInv, Compare
    <3> QED
        BY <2>2, <3>2
  <2> QED
      BY <2>3
<1> QED
    BY <1>1, PollingInvariant, PTL DEF Spec, EventsAreReal

(***************************************************************************)
(* No miss: a path that was read, and that nobody touched during the scan, *)
(* is reported exactly as it differs from what was remembered.             *)
(***************************************************************************)
THEOREM ReportsAreComplete == Spec => ChangesAreReported
<1> DEFINE Reported(p) ==
        /\ Event("created", p) \in events' <=> known[p] = Absent /\ disk[p] # Absent
        /\ Event("deleted", p) \in events' <=> known[p] # Absent /\ disk[p] = Absent
        /\ Event("modified", p) \in events' <=>
               known[p] # Absent /\ disk[p] # Absent /\ known[p] # disk[p]
<1>1. TypeOK /\ PollingInv /\ [Next]_vars =>
          [Compare /\ knownInit => \A p \in read \ changed : Reported(p)]_vars
  <2> SUFFICES ASSUME TypeOK, PollingInv, Compare, knownInit, NEW p \in read \ changed
               PROVE  Reported(p)
      OBVIOUS
  <2>1. p \in Paths /\ current[p] = disk[p]
      BY DEF TypeOK, PollingInv, SnapshotInv, Compare
  <2>2. events' = Difference(known, current)
      BY DEF Compare
  <2> QED
      BY <2>1, <2>2, DifferenceMembers DEF Created, Modified, Deleted
<1> QED
    BY <1>1, PollingInvariant, PTL DEF Spec, ChangesAreReported
==============================================================================
