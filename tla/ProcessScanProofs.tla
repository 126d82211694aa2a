-------------------------- MODULE ProcessScanProofs --------------------------
(***************************************************************************)
(* The scans of the process enforcer, for any processes, programs and      *)
(* policies: what the published statistics count, what a failed            *)
(* enumeration leads to, and which processes a scan reports.               *)
(***************************************************************************)
EXTENDS ProcessScan, FiniteSetTheorems, TLAPS

(***************************************************************************)
(* The inductive invariants.                                               *)
(***************************************************************************)
Enumerating == {"size", "fill", "libproc", "libfill"}

\* Until it has its list, a scan has counted and reported nothing.
FreshInv ==
    pc \notin {"inspect", "publish"} =>
        stats = NoStats /\ reported = {} /\ pids = {} /\ listing = "none"

AttemptInv == pc \notin {"libproc", "libfill"} => attempt < MaxAttempts

\* Each process was counted at most once, and none before its inspection.
CountInv ==
    /\ stats.checked + stats.denied <= Cardinality(Pids \ pids)
    /\ reported \cap pids = {}

ListInv == listing = "failed" => pc = "publish" /\ error # None

ScanInv == FreshInv /\ AttemptInv /\ CountInv /\ ListInv

\* What makes a report certain, or possible, under the policies in force.
Certain(g) == Readable(g) /\ \A q \in rules : Forbidden(q, g) /\ ~Exempt(q, g)

Possible(g) ==
    /\ Readable(g)
    /\ \E q \in rules : Forbidden(q, g)
    /\ \E q \in rules : ~Exempt(q, g)

\* A process that stayed still runs what it ran when the scan began, and the
\* two policies a scan reads from are among those in force during it.
StayInv ==
    /\ \A p \in Pids : stayed[p] # None => pc # "idle" /\ procs[p] = stayed[p]
    /\ pc # "idle" => policy \in rules /\ \E q \in rules : ignore = q.ignore

\* Of each process that stayed, once the list is there: it is reported only
\* with a reason, and if there is reason enough it is, or will be inspected.
JudgedInv ==
    pc \in {"inspect", "publish"} =>
        \A p \in Pids : stayed[p] # None =>
            /\ p \in reported => Possible(stayed[p])
            /\ listing = "whole" /\ p \notin pids /\ Certain(stayed[p]) => p \in reported

-----------------------------------------------------------------------------
(***************************************************************************)
(* The operators of the scan.                                              *)
(***************************************************************************)
\* The smallest of the listed numbers is one of them.  The library orders
\* finite sets by inclusion; the intervals from zero inherit the order of Nat.
LEMMA LeastIsListed ==
    ASSUME NEW S \in SUBSET Nat, S # {}
    PROVE  Least(S) \in S
<1> DEFINE T == {0..n : n \in S}
<1>1. T \subseteq FiniteSubsetsOf(Nat) /\ T # {}
  <2>1. \A n \in S : 0..n \in SUBSET Nat /\ IsFiniteSet(0..n)
      BY FS_Interval
  <2> QED
      BY <2>1 DEF FiniteSubsetsOf
<1>2. PICK p \in S : \A q \in S : <<0..q, 0..p>> \notin StrictSubsetOrdering(Nat)
  <2>1. \E x \in T : \A y \in T : <<y, x>> \notin StrictSubsetOrdering(Nat)
      BY <1>1, FS_StrictSubsetOrderingWellFounded, WFMin
  <2> QED
      BY <2>1
<1>3. ASSUME NEW q \in S, q < p
      PROVE  FALSE
  <2>1. 0..q \subseteq 0..p /\ p \in 0..p /\ p \notin 0..q
      BY <1>3
  <2>2. 0..q # 0..p /\ 0..q \in SUBSET Nat /\ 0..p \in SUBSET Nat
      BY <2>1
  <2>3. <<0..q, 0..p>> \in StrictSubsetOrdering(Nat)
      BY <2>1, <2>2 DEF StrictSubsetOrdering
  <2> QED
      BY <1>2, <2>3
<1>4. \A q \in S : p <= q
    BY <1>3
<1> QED
    BY <1>4 DEF Least

\* isProcessAllowed decides as its comments say.
LEMMA AllowedOrForbidden ==
    ASSUME NEW q, NEW g
    PROVE  IsProcessAllowed(q, g) <=> ~Forbidden(q, g)
    BY DEF IsProcessAllowed, Forbidden, Names

LEMMA Counting ==
    ASSUME NEW S \in SUBSET Pids, NEW p \in S
    PROVE  /\ Cardinality(Pids \ (S \ {p})) = Cardinality(Pids \ S) + 1
           /\ Cardinality(Pids \ S) \in Nat /\ Cardinality(Pids) \in Nat
           /\ Cardinality(Pids \ S) <= Cardinality(Pids)
<1>1. IsFiniteSet(Pids) /\ IsFiniteSet(Pids \ S)
    BY ScanAssumption, FS_Difference
<1>2. Pids \ (S \ {p}) = (Pids \ S) \cup {p}
    OBVIOUS
<1>3. Cardinality((Pids \ S) \cup {p}) = Cardinality(Pids \ S) + 1
    BY <1>1, FS_AddElement
<1> QED
    BY <1>1, <1>2, <1>3, FS_CardinalityType, FS_Subset

LEMMA PidsCount == Cardinality(Pids) \in Nat /\ Cardinality(Pids) >= 1
    BY ScanAssumption, FS_CardinalityType, FS_EmptySet

LEMMA RunningCount == Running \subseteq Pids /\ Cardinality(Running) \in Nat
<1>1. Running \in SUBSET Pids
    BY DEF Running
<1> QED
    BY <1>1, ScanAssumption, FS_Subset, FS_CardinalityType

(***************************************************************************)
(* A step of enumerate_all_pids goes on to the next call, or ends with a   *)
(* list: one that counts as whole holds all that runs, and one that could  *)
(* not be had is empty and comes with an error.                            *)
(***************************************************************************)
Hows == {"none", "whole", "cut", "nonsense", "failed"}

GoesOn ==
    /\ pc' \in Enumerating
    /\ attempt' \in 0..MaxAttempts /\ capacity' \in Nat /\ sysctlError' \in Codes
    /\ AttemptInv'
    /\ UNCHANGED <<error, pids, stats, listing>>

Ends ==
    \E list \in SUBSET Pids, code \in Codes, how \in Hows :
        /\ Enumerated(list, code, how)
        /\ how = "whole" => list = Running
        /\ how = "failed" => list = {} /\ code # None

LEMMA EnumerationStep ==
    ASSUME TypeOK, AttemptInv, AskSize \/ Fill \/ AskLibproc \/ FillLibproc
    PROVE  /\ pc \in Enumerating
           /\ UNCHANGED <<world, ignore, last, stayed, rules, reported>>
           /\ GoesOn \/ Ends
<1> USE ScanAssumption, RunningCount DEF Enumerating
<1>1. ASSUME NEW code \in Errors \cup {None}, LibprocListsNothing(code)
      PROVE  Ends
  <2>1. BothFailed(code) \in Codes \ {None}
      BY DEF BothFailed, TypeOK, Codes, Errors
  <2> QED
      BY <1>1, <2>1 DEF Ends, LibprocListsNothing, Hows
<1>2. ASSUME Enumerated({}, None, "nonsense")
      PROVE  Ends
    BY <1>2 DEF Ends, Hows, Codes
<1>3. ASSUME NEW code \in Errors, Falls(code)
      PROVE  GoesOn
    BY <1>3 DEF Falls, GoesOn, TypeOK, Codes, AttemptInv
<1>4. CASE AskSize
    BY <1>4, <1>2, <1>3 DEF AskSize, GoesOn, TypeOK, AttemptInv
<1>5. CASE Fill
  <2>1. ASSUME TooSmall
        PROVE  GoesOn
      BY <1>5, <2>1 DEF Fill, TooSmall, GoesOn, TypeOK, Codes, AttemptInv
  <2>2. ASSUME Enumerated(Entries(Running), None, "whole")
        PROVE  Ends
      BY <2>2 DEF Ends, Entries, Hows, Codes
  <2> QED
      BY <1>5, <2>1, <2>2, <1>2, <1>3 DEF Fill
<1>6. CASE AskLibproc
    BY <1>6, <1>1 DEF AskLibproc, GoesOn, TypeOK, AttemptInv
<1>7. CASE FillLibproc
  <2>1. ASSUME NEW list \in SUBSET Running,
               Enumerated(list, None, IF list = Running THEN "whole" ELSE "cut")
        PROVE  Ends
      BY <2>1 DEF Ends, Hows, Codes
  <2> QED
      BY <1>7, <2>1, <1>1 DEF FillLibproc
<1> QED
    BY <1>4, <1>5, <1>6, <1>7
(***************************************************************************)
(* What one inspection adds to the statistics.                             *)
(***************************************************************************)
LEMMA InspectStep ==
    ASSUME TypeOK, CountInv, Inspect
    PROVE  LET p == Least(pids)
           IN /\ p \in pids /\ pids' = pids \ {p} /\ stats' = Judged(p)
              /\ stats' \in Counts /\ stats'.violations <= stats'.checked
              /\ stats'.checked + stats'.denied <= Cardinality(Pids \ pids')
              /\ stats'.checked + stats'.denied <= Cardinality(Pids)
              /\ \/ stats'.violations = stats.violations /\ reported' = reported
                 \/ /\ stats'.violations = stats.violations + 1
                    /\ reported' = reported \cup {p} /\ p \notin reported
              /\ reported' \cap pids' = {}
<1> DEFINE p == Least(pids)
<1>1. p \in pids /\ p \in Pids
    BY ScanAssumption, LeastIsListed DEF TypeOK, Inspect
<1>2. pids' = pids \ {p} /\ stats' = Judged(p)
    BY DEF Inspect
<1>3. /\ stats \in Counts /\ stats.violations <= stats.checked
      /\ stats.checked + stats.denied <= Cardinality(Pids \ pids)
    BY DEF TypeOK, CountInv
<1>4. /\ stats' \in Counts /\ stats'.violations <= stats'.checked
      /\ stats'.checked + stats'.denied <= stats.checked + stats.denied + 1
      /\ stats'.violations \in {stats.violations, stats.violations + 1}
  <2>1. \/ stats' = stats
        \/ stats' = [stats EXCEPT !.denied = @ + 1]
        \/ stats' = [stats EXCEPT !.checked = @ + 1, !.violations = @ + 1]
        \/ stats' = [stats EXCEPT !.checked = @ + 1, !.violations = @]
    <3> HIDE DEF p
    <3>1. CASE procs[p] = None \/ PathOf[procs[p]] = Pathless
        BY <3>1, <1>2 DEF Judged
    <3>2. CASE procs[p] # None /\ PathOf[procs[p]] # Pathless
        BY <3>2, <1>2 DEF Judged
    <3> QED
        BY <3>1, <3>2
  <2>2. stats.checked \in Nat /\ stats.violations \in Nat /\ stats.denied \in Nat
      BY <1>3 DEF Counts
  <2>3. CASE stats' = stats
      BY <1>3, <2>2, <2>3
  <2>4. CASE stats' = [stats EXCEPT !.denied = @ + 1]
      BY <1>3, <2>2, <2>4 DEF Counts
  <2>5. ASSUME NEW v \in {stats.violations, stats.violations + 1},
               stats' = [stats EXCEPT !.checked = @ + 1, !.violations = v]
        PROVE  /\ stats' \in Counts /\ stats'.violations <= stats'.checked
               /\ stats'.checked + stats'.denied <= stats.checked + stats.denied + 1
               /\ stats'.violations \in {stats.violations, stats.violations + 1}
    <3>1. stats' \in Counts
      <4>1. v \in Nat /\ stats.checked + 1 \in Nat
          BY <2>2
      <4> QED
          BY <1>3, <2>5, <4>1 DEF Counts
    <3>2. /\ stats'.checked = stats.checked + 1
          /\ stats'.violations = v /\ stats'.denied = stats.denied
        BY <1>3, <2>5 DEF Counts
    <3> QED
        BY <1>3, <2>2, <3>1, <3>2
  <2> QED
      BY <2>1, <2>3, <2>4, <2>5
<1>5. /\ Cardinality(Pids \ pids') = Cardinality(Pids \ pids) + 1
      /\ Cardinality(Pids \ pids') <= Cardinality(Pids)
      /\ Cardinality(Pids \ pids) \in Nat /\ Cardinality(Pids) \in Nat
  <2>1. pids \in SUBSET Pids
      BY DEF TypeOK
  <2>2. IsFiniteSet(Pids) /\ Pids \ pids' \in SUBSET Pids
      BY ScanAssumption
  <2> QED
      BY <1>1, <1>2, <2>1, <2>2, Counting, FS_Subset
<1>6. /\ stats'.checked + stats'.denied <= Cardinality(Pids \ pids')
      /\ stats'.checked + stats'.denied <= Cardinality(Pids)
    BY <1>3, <1>4, <1>5 DEF Counts
<1>7. reported' = IF stats'.violations > stats.violations
                  THEN reported \cup {p} ELSE reported
    BY DEF Inspect
<1>8. stats.violations \in Nat /\ p \notin reported /\ reported \cap pids = {}
    BY <1>1, <1>3 DEF Counts, CountInv
<1> QED
    BY <1>1, <1>2, <1>4, <1>6, <1>7, <1>8

-----------------------------------------------------------------------------
(***************************************************************************)
(* The types and the counts.                                               *)
(***************************************************************************)
LEMMA TypeInit == Init => TypeOK
<1> SUFFICES ASSUME Init PROVE TypeOK
    OBVIOUS
<1>1. attempt \in 0..MaxAttempts /\ capacity \in Nat
    BY ScanAssumption DEF Init
<1>2. NoStats \in Counts /\ NoStats.violations = 0 /\ NoStats.checked = 0 /\ NoStats.denied = 0
    BY DEF NoStats, Counts
<1>3. stats.violations = Cardinality(reported)
    BY <1>2, FS_EmptySet DEF Init
<1>4. \A r \in {stats, last} :
          /\ r \in Counts
          /\ r.violations <= r.checked
          /\ r.checked + r.denied <= Cardinality(Pids)
    BY <1>2, PidsCount DEF Init
<1> QED
    BY <1>1, <1>3, <1>4 DEF Init, TypeOK, Codes

LEMMA TypeStep == TypeOK /\ ScanInv /\ [Next]_vars => TypeOK'
<1> SUFFICES ASSUME TypeOK, ScanInv, [Next]_vars
             PROVE  TypeOK'
    OBVIOUS
<1> USE DEF vars, world, enumeration, history
<1>0. NoStats \in Counts /\ NoStats.violations = 0 /\ NoStats.checked = 0 /\ NoStats.denied = 0
    BY DEF NoStats, Counts
<1>1. ASSUME NEW p \in Pids, NEW g \in Programs, Starts(p, g)
      PROVE  TypeOK'
    BY <1>1 DEF TypeOK, Starts
<1>2. ASSUME NEW p \in Pids, Exits(p)
      PROVE  TypeOK'
    BY <1>2 DEF TypeOK, Exits
<1>3. ASSUME NEW q \in Policies, Reload(q)
      PROVE  TypeOK'
    BY <1>3 DEF TypeOK, Reload
<1>4. CASE RequestStop
    BY <1>4 DEF TypeOK, RequestStop
<1>5. CASE ScanBegins
    BY <1>5, <1>0, PidsCount, FS_EmptySet DEF TypeOK, ScanBegins
<1>6. CASE AskSize \/ Fill \/ AskLibproc \/ FillLibproc
  <2>1. /\ pc \in Enumerating
        /\ UNCHANGED <<world, ignore, last, stayed, rules, reported>>
        /\ GoesOn \/ Ends
      BY <1>6, EnumerationStep DEF ScanInv
  <2>2. CASE GoesOn
      BY <2>1, <2>2 DEF TypeOK, GoesOn, Enumerating
  <2>3. CASE Ends
    <3>1. stats = NoStats /\ reported = {}
        BY <2>1 DEF ScanInv, FreshInv, Enumerating
    <3>2. PICK list \in SUBSET Pids, code \in Codes, how \in Hows : Enumerated(list, code, how)
        BY <2>3 DEF Ends
    <3>3. /\ stats' \in Counts /\ stats'.violations = 0 /\ stats'.checked = 0
          /\ stats'.denied \in {0, 1}
        BY <3>1, <3>2, <1>0 DEF Enumerated, NoStats, Counts
    <3>4. /\ stats'.violations <= stats'.checked
          /\ stats'.checked + stats'.denied <= Cardinality(Pids)
          /\ stats'.violations = Cardinality(reported')
        BY <2>1, <3>1, <3>3, PidsCount, FS_EmptySet
    <3>5. pc' \in {"inspect", "publish"} /\ attempt' \in 0..MaxAttempts /\ capacity' \in Nat
        BY <3>2, ScanAssumption DEF Enumerated
    <3> QED
        BY <2>1, <3>2, <3>3, <3>4, <3>5 DEF TypeOK, Enumerated, Hows, Codes
  <2> QED
      BY <2>1, <2>2, <2>3
<1>7. CASE Inspect
  <2>1. /\ stats' \in Counts /\ stats'.violations <= stats'.checked
        /\ stats'.checked + stats'.denied <= Cardinality(Pids)
      BY <1>7, InspectStep DEF ScanInv
  <2>2. stats'.violations = Cardinality(reported') /\ reported' \subseteq Pids
    <3>1. IsFiniteSet(reported)
        BY ScanAssumption, FS_Subset DEF TypeOK
    <3>2. Least(pids) \in Pids
        BY <1>7, InspectStep DEF ScanInv, TypeOK
    <3> QED
        BY <1>7, <3>1, <3>2, InspectStep, FS_AddElement DEF ScanInv, TypeOK
  <2> QED
      BY <1>7, <2>1, <2>2 DEF TypeOK, Inspect
<1>8. CASE InspectionOver
    BY <1>8 DEF TypeOK, InspectionOver
<1>9. CASE Publish
    BY <1>9, <1>0, PidsCount, FS_EmptySet DEF TypeOK, Publish, PublishScanStats, Codes
<1>10. CASE UNCHANGED vars
    BY <1>10 DEF TypeOK
<1> QED
    BY <1>1, <1>2, <1>3, <1>4, <1>5, <1>6, <1>7, <1>8, <1>9, <1>10
    DEF Next, Environment, Scan

LEMMA ScanStep == TypeOK /\ ScanInv /\ [Next]_vars => ScanInv'
<1> SUFFICES ASSUME TypeOK, ScanInv, [Next]_vars
             PROVE  ScanInv'
    OBVIOUS
<1> USE DEF vars, world, enumeration, history, ScanInv, FreshInv, AttemptInv,
    CountInv, ListInv
<1>0. /\ Pids \ {} = Pids
      /\ NoStats.checked = 0 /\ NoStats.denied = 0
    BY DEF NoStats
<1>1. ASSUME NEW p \in Pids, NEW g \in Programs, Starts(p, g)
      PROVE  ScanInv'
    BY <1>1 DEF Starts
<1>2. ASSUME NEW p \in Pids, Exits(p)
      PROVE  ScanInv'
    BY <1>2 DEF Exits
<1>3. ASSUME NEW q \in Policies, Reload(q)
      PROVE  ScanInv'
    BY <1>3 DEF Reload
<1>4. CASE RequestStop
    BY <1>4 DEF RequestStop
<1>5. CASE ScanBegins
    BY <1>5, <1>0, PidsCount DEF ScanBegins
<1>6. CASE AskSize \/ Fill \/ AskLibproc \/ FillLibproc
  <2>1. /\ pc \in Enumerating
        /\ UNCHANGED <<world, ignore, last, stayed, rules, reported>>
        /\ GoesOn \/ Ends
      BY <1>6, EnumerationStep
  <2>2. stats = NoStats /\ reported = {} /\ pids = {} /\ listing = "none"
      BY <2>1 DEF Enumerating
  <2>3. CASE GoesOn
      BY <2>1, <2>2, <2>3 DEF GoesOn, Enumerating
  <2>4. CASE Ends
    <3>1. PICK list \in SUBSET Pids, code \in Codes, how \in Hows :
              /\ Enumerated(list, code, how)
              /\ how = "failed" => list = {} /\ code # None
        BY <2>4 DEF Ends
    <3>2. stats'.checked + stats'.denied <= Cardinality(Pids \ pids')
      <4>1. CASE list = {}
          BY <2>2, <3>1, <4>1, <1>0, PidsCount DEF Enumerated, NoStats
      <4>2. CASE list # {}
        <5>1. stats' = NoStats /\ pids' = list
            BY <2>2, <3>1, <4>2 DEF Enumerated
        <5>2. Cardinality(Pids \ list) \in Nat
            BY ScanAssumption, FS_Difference, FS_CardinalityType
        <5> QED
            BY <5>1, <5>2, <1>0
      <4> QED
          BY <4>1, <4>2
    <3>3. FreshInv' /\ AttemptInv'
        BY <3>1, ScanAssumption DEF Enumerated
    <3>4. CountInv'
        BY <2>1, <2>2, <3>2
    <3>5. ListInv'
        BY <3>1 DEF Enumerated
    <3> QED
        BY <3>3, <3>4, <3>5
  <2> QED
      BY <2>1, <2>3, <2>4
<1>7. CASE Inspect
    BY <1>7, InspectStep DEF Inspect
<1>8. CASE InspectionOver
    BY <1>8 DEF InspectionOver
<1>9. CASE Publish
    BY <1>9, <1>0, PidsCount DEF Publish
<1>10. CASE UNCHANGED vars
    BY <1>10
<1> QED
    BY <1>1, <1>2, <1>3, <1>4, <1>5, <1>6, <1>7, <1>8, <1>9, <1>10
    DEF Next, Environment, Scan

LEMMA ScanInvariant == Spec => [](TypeOK /\ ScanInv)
<1>1. Init => ScanInv
    BY PidsCount, ScanAssumption
    DEF Init, ScanInv, FreshInv, AttemptInv, CountInv, ListInv, NoStats
<1> QED
    BY <1>1, TypeInit, TypeStep, ScanStep, PTL DEF Spec

(***************************************************************************)
(* The statistics, in the making and published, count each process once,   *)
(* and no more violations than processes checked (perform_scan,            *)
(* publish_scan_stats); the attempts at sysctl are bounded.                *)
(***************************************************************************)
THEOREM ScanTypeCorrect == Spec => []TypeOK
    BY ScanInvariant, PTL

(***************************************************************************)
(* Without a list from either interface, a scan goes to its end with an    *)
(* error, and inspects nothing (enumerate_all_pids, perform_scan).         *)
(***************************************************************************)
THEOREM FailedListIsAnError == Spec => []NoListIsAnError
<1>1. ScanInv => NoListIsAnError
    BY DEF ScanInv, ListInv, NoListIsAnError
<1> QED
    BY <1>1, ScanInvariant, PTL
-----------------------------------------------------------------------------
(***************************************************************************)
(* Which processes a scan reports.                                         *)
(***************************************************************************)
LEMMA StayStep == TypeOK /\ ScanInv /\ StayInv /\ [Next]_vars => StayInv'
<1> SUFFICES ASSUME TypeOK, ScanInv, StayInv, [Next]_vars
             PROVE  StayInv'
    OBVIOUS
<1> USE DEF TypeOK, StayInv, vars, world, enumeration, history
<1>1. ASSUME NEW p \in Pids, NEW g \in Programs, Starts(p, g)
      PROVE  StayInv'
    BY <1>1 DEF Starts
<1>2. ASSUME NEW p \in Pids, Exits(p)
      PROVE  StayInv'
  <2>1. \A r \in Pids : stayed'[r] # None =>
            stayed[r] # None /\ stayed'[r] = stayed[r] /\ procs'[r] = procs[r]
      BY <1>2 DEF Exits
  <2> QED
      BY <1>2, <2>1 DEF Exits
<1>3. ASSUME NEW q \in Policies, Reload(q)
      PROVE  StayInv'
    BY <1>3 DEF Reload
<1>4. CASE RequestStop
    BY <1>4 DEF RequestStop
<1>5. CASE ScanBegins
    BY <1>5 DEF ScanBegins
<1>6. CASE AskSize \/ Fill \/ AskLibproc \/ FillLibproc
  <2>1. /\ pc \in Enumerating
        /\ UNCHANGED <<world, ignore, stayed, rules>>
        /\ GoesOn \/ Ends
      BY <1>6, EnumerationStep DEF ScanInv
  <2>2. pc # "idle" /\ pc' # "idle"
      BY <2>1 DEF Enumerating, GoesOn, Ends, Enumerated
  <2> QED
      BY <2>1, <2>2
<1>7. CASE Inspect
    BY <1>7 DEF Inspect
<1>8. CASE InspectionOver
    BY <1>8 DEF InspectionOver
<1>9. CASE Publish
    BY <1>9 DEF Publish
<1>10. CASE UNCHANGED vars
    BY <1>10
<1> QED
    BY <1>1, <1>2, <1>3, <1>4, <1>5, <1>6, <1>7, <1>8, <1>9, <1>10
    DEF Next, Environment, Scan

\* The inspection of a process that stayed decides by the policy in force and
\* by the directories read when the scan began.
LEMMA InspectionDecides ==
    ASSUME TypeOK, ScanInv, StayInv, Inspect, stayed[Least(pids)] # None
    PROVE  LET p == Least(pids)
           IN /\ p \in reported' => Possible(stayed[p])
              /\ Certain(stayed[p]) => p \in reported'
<1> DEFINE p == Least(pids)
           g == stayed[p]
<1>1. /\ p \in pids /\ p \in Pids /\ stats' = Judged(p) /\ p \notin reported
      /\ stats.violations \in Nat
    BY InspectStep DEF ScanInv, CountInv, TypeOK, Counts
<1>2. procs[p] = g /\ g # None /\ policy \in rules
    BY <1>1 DEF StayInv
<1>3. PICK q \in rules : ignore = q.ignore
    BY <1>1, <1>2 DEF StayInv
<1>4. ShouldIgnoreProcess(g, ignore) <=> Exempt(q, g)
    BY <1>3 DEF ShouldIgnoreProcess, Exempt
<1>5. p \in reported' <=> stats'.violations > stats.violations
    BY <1>1 DEF Inspect
<1>6. stats'.violations > stats.violations <=>
          Readable(g) /\ ~Exempt(q, g) /\ Forbidden(policy, g)
  <2> HIDE DEF p, g
  <2>1. CASE ~Readable(g)
    <3>1. stats' = stats \/ stats' = [stats EXCEPT !.denied = @ + 1]
        BY <1>1, <1>2, <2>1 DEF Judged, Readable
    <3>2. stats'.violations = stats.violations
        BY <3>1 DEF TypeOK, Counts
    <3> QED
        BY <1>1, <2>1, <3>2
  <2>2. CASE Readable(g) /\ Exempt(q, g)
    <3>1. stats' = stats
        BY <1>1, <1>2, <1>4, <2>2 DEF Judged, Readable
    <3> QED
        BY <1>1, <2>2, <3>1
  <2>3. CASE Readable(g) /\ ~Exempt(q, g)
    <3>1. stats' = [stats EXCEPT !.checked = @ + 1,
                                 !.violations = IF IsProcessAllowed(policy, g)
                                                THEN @ ELSE @ + 1]
        BY <1>1, <1>2, <1>4, <2>3 DEF Judged, Readable
    <3>2. stats'.violations = IF IsProcessAllowed(policy, g)
                              THEN stats.violations ELSE stats.violations + 1
        BY <3>1 DEF TypeOK, Counts
    <3> QED
        BY <1>1, <2>3, <3>2, AllowedOrForbidden
  <2> QED
      BY <2>1, <2>2, <2>3
<1> QED
    BY <1>2, <1>3, <1>5, <1>6 DEF Possible, Certain

LEMMA JudgedStep ==
    TypeOK /\ ScanInv /\ StayInv /\ JudgedInv /\ [Next]_vars => JudgedInv'
<1> SUFFICES ASSUME TypeOK, ScanInv, StayInv, JudgedInv, [Next]_vars
             PROVE  JudgedInv'
    OBVIOUS
<1> USE DEF JudgedInv, vars, world, enumeration, history
<1>1. ASSUME NEW p \in Pids, NEW g \in Programs, Starts(p, g)
      PROVE  JudgedInv'
    BY <1>1 DEF Starts, Certain, Possible
<1>2. ASSUME NEW p \in Pids, Exits(p)
      PROVE  JudgedInv'
  <2>1. \A r \in Pids : stayed'[r] # None => stayed[r] # None /\ stayed'[r] = stayed[r]
      BY <1>2 DEF Exits, TypeOK
  <2> QED
      BY <1>2, <2>1 DEF Exits, Certain, Possible
<1>3. ASSUME NEW q \in Policies, Reload(q)
      PROVE  JudgedInv'
  <2>1. rules \subseteq rules'
      BY <1>3 DEF Reload
  <2>2. \A g : (Possible(g) => Possible(g)') /\ (Certain(g)' => Certain(g))
      BY <2>1 DEF Possible, Certain
  <2> QED
      BY <1>3, <2>2 DEF Reload
<1>4. CASE RequestStop
    BY <1>4 DEF RequestStop, Certain, Possible
<1>5. CASE ScanBegins
    BY <1>5 DEF ScanBegins
<1>6. CASE AskSize \/ Fill \/ AskLibproc \/ FillLibproc
  <2>1. /\ pc \in Enumerating
        /\ UNCHANGED <<world, ignore, stayed, rules, reported>>
        /\ GoesOn \/ Ends
      BY <1>6, EnumerationStep DEF ScanInv
  <2>2. CASE GoesOn
      BY <2>2 DEF GoesOn, Enumerating
  <2>3. CASE Ends
    <3>1. reported' = {}
        BY <2>1 DEF ScanInv, FreshInv, Enumerating
    <3>2. listing' = "whole" => pids' = Running
        BY <2>3 DEF Ends, Enumerated
    <3>3. \A p \in Pids : stayed[p] # None => p \in Running
        BY ScanAssumption DEF StayInv, Running
    <3> QED
        BY <2>1, <3>1, <3>2, <3>3
  <2> QED
      BY <2>1, <2>2, <2>3
<1>7. CASE Inspect
  <2> DEFINE p == Least(pids)
  <2>1. pids' = pids \ {p} /\ (reported' = reported \/ reported' = reported \cup {p})
      BY <1>7, InspectStep DEF ScanInv
  <2>2. UNCHANGED <<pc, listing, stayed, rules>> /\ pc = "inspect"
      BY <1>7 DEF Inspect
  <2>3. stayed[p] # None => /\ p \in reported' => Possible(stayed[p])
                            /\ Certain(stayed[p]) => p \in reported'
      BY <1>7, InspectionDecides
  <2> HIDE DEF p
  <2>4. \A g : Possible(g)' = Possible(g) /\ Certain(g)' = Certain(g)
      BY <2>2 DEF Possible, Certain
  <2> QED
      BY <2>1, <2>2, <2>3, <2>4
<1>8. CASE InspectionOver
    BY <1>8 DEF InspectionOver, Certain, Possible
<1>9. CASE Publish
    BY <1>9 DEF Publish
<1>10. CASE UNCHANGED vars
    BY <1>10 DEF Certain, Possible
<1> QED
    BY <1>1, <1>2, <1>3, <1>4, <1>5, <1>6, <1>7, <1>8, <1>9, <1>10
    DEF Next, Environment, Scan

(***************************************************************************)
(* A scan with a whole list, gone through to its end, reports whoever ran  *)
(* a forbidden program all along; no scan reports whoever ran nothing but  *)
(* an allowed or exempt one (perform_scan, isProcessAllowed).              *)
(***************************************************************************)
THEOREM ReportsAreJust == Spec => []StayersAreJudged
<1>1. Init => StayInv /\ JudgedInv
    BY DEF Init, StayInv, JudgedInv
<1>2. JudgedInv => StayersAreJudged
    BY DEF JudgedInv, StayersAreJudged, Certain, Possible
<1> QED
    BY <1>1, <1>2, ScanInvariant, StayStep, JudgedStep, PTL DEF Spec
==============================================================================
