----------------------------- MODULE ProcessScan -----------------------------
(***************************************************************************)
(* One scan of the process enforcer after another: perform_scan, the list  *)
(* of processes it asks of sysctl and then of libproc, the inspection of   *)
(* each process, and the statistics it publishes.                          *)
(*                                                                         *)
(* Meanwhile processes start and exit, numbers are reused, the policy is   *)
(* reloaded and the worker is asked to stop.  A process is inspected in    *)
(* one step: what the code reads of it and the policy it judges it by      *)
(* are both read once.  proc_name() decides nothing, since no              *)
(* entry of getSystemPathsToIgnore() is a bare name (normalize_path makes  *)
(* every entry absolute).                                                  *)
(***************************************************************************)
EXTENDS Integers, FiniteSets

CONSTANTS Pids,         \* process numbers
          Programs,     \* executables a process may run
          None,         \* no process has this number; no error
          PathOf,       \* the path of each program, case folded
          BaseOf,       \* its last component
          Denied,       \* PathOf a program whose path may not be read
          Pathless,     \* PathOf a program without an absolute path
          Inside,       \* pairs <<path, directory>>: has_directory_prefix
          Policies,     \* what reload() may put in force
          MaxAttempts,  \* kSysctlRetryCount
          Slack         \* entries the kernel adds to the size it estimates

ASSUME ScanAssumption ==
    /\ Pids \subseteq Nat \ {0} /\ IsFiniteSet(Pids) /\ Pids # {}
    /\ None \notin Programs \cup {"EPERM", "EIO", "ENOMEM"}
    /\ MaxAttempts \in Nat \ {0} /\ Slack \in Nat
    /\ Denied # Pathless

VARIABLES
    procs,         \* what each process number really runs
    policy,        \* the policy in force
    stopRequested, \* stop_requested_
    pc,            \* where the worker is
    attempt,       \* the attempts at sysctl that ended in ENOMEM
    capacity,      \* the size of the buffer, in entries
    sysctlError,   \* sysctl_error
    error,         \* enumerate_error
    ignore,        \* system_ignore_patterns
    pids,          \* the listed processes still to be inspected
    stats,         \* the statistics of this scan
    last,          \* last_scan_stats_
    listing,       \* history: how the list of this scan was obtained
    stayed,        \* history: what each process has run since the scan began
    rules,         \* history: the policies in force since the scan began
    reported       \* history: the processes this scan has reported

world == <<procs, policy, stopRequested>>
enumeration == <<attempt, capacity, sysctlError>>
history == <<listing, stayed, rules, reported>>
vars == <<world, enumeration, history, pc, error, ignore, pids, stats, last>>

Running == {p \in Pids : procs[p] # None}

NoStats == [checked |-> 0, violations |-> 0, denied |-> 0]

Init ==
    /\ procs \in [Pids -> Programs \cup {None}]
    /\ policy \in Policies
    /\ stopRequested = FALSE
    /\ pc = "idle"
    /\ attempt = 0 /\ capacity = 0 /\ sysctlError = None
    /\ error = None
    /\ ignore = {}
    /\ pids = {}
    /\ stats = NoStats /\ last = NoStats
    /\ listing = "none"
    /\ stayed = [p \in Pids |-> None]
    /\ rules = {}
    /\ reported = {}

-----------------------------------------------------------------------------
(***************************************************************************)
(* The machine around the scan.                                            *)
(***************************************************************************)
Starts(p, g) ==
    /\ procs[p] = None
    /\ procs' = [procs EXCEPT ![p] = g]
    /\ UNCHANGED <<policy, stopRequested, enumeration, history, pc, error,
                   ignore, pids, stats, last>>

Exits(p) ==
    /\ procs[p] # None
    /\ procs' = [procs EXCEPT ![p] = None]
    /\ stayed' = [stayed EXCEPT ![p] = None]
    /\ UNCHANGED <<policy, stopRequested, enumeration, listing, rules, reported,
                   pc, error, ignore, pids, stats, last>>

Reload(q) ==
    /\ policy # q
    /\ policy' = q
    /\ rules' = IF pc = "idle" THEN rules ELSE rules \cup {q}
    /\ UNCHANGED <<procs, stopRequested, enumeration, listing, stayed, reported,
                   pc, error, ignore, pids, stats, last>>

\* stop(), and a start() once the worker has left its loop.
RequestStop ==
    /\ ~stopRequested \/ pc = "idle"
    /\ stopRequested' = ~stopRequested
    /\ UNCHANGED <<procs, policy, enumeration, history, pc, error, ignore, pids,
                   stats, last>>

-----------------------------------------------------------------------------
(***************************************************************************)
(* enumerate_all_pids.                                                     *)
(***************************************************************************)
Errors == {"EPERM", "EIO"}

IsPermissionError(code) == code = "EPERM"

\* perform_scan reads the directories to ignore once, before the list.
ScanBegins ==
    /\ pc = "idle"
    /\ ~stopRequested
    /\ pc' = "size"
    /\ ignore' = policy.ignore
    /\ stats' = NoStats
    /\ stayed' = procs
    /\ rules' = {policy}
    /\ reported' = {}
    /\ UNCHANGED <<world, enumeration, error, pids, last, listing>>

\* enumerate_all_pids returns, and perform_scan looks at what it got.
Enumerated(list, code, how) ==
    /\ pids' = list
    /\ error' = code
    /\ listing' = how
    /\ attempt' = 0 /\ capacity' = 0 /\ sysctlError' = None
    /\ IF list = {} /\ code # None
       THEN /\ pc' = "publish"
            /\ stats' = [stats EXCEPT !.denied = IF IsPermissionError(code) THEN @ + 1 ELSE @]
       ELSE /\ pc' = "inspect"
            /\ UNCHANGED stats

Falls(code) ==
    /\ pc' = "libproc"
    /\ sysctlError' = code
    /\ UNCHANGED <<attempt, capacity, error, pids, stats, listing>>

\* The first call of an attempt: how many bytes would the list take?
AskSize ==
    /\ pc = "size"
    /\ \/ /\ pc' = "fill"
          /\ capacity' = Cardinality(Running) + Slack
          /\ UNCHANGED <<attempt, sysctlError, error, pids, stats, listing>>
       \/ Enumerated({}, None, "nonsense")
       \/ \E code \in Errors : Falls(code)
    /\ UNCHANGED <<world, ignore, last, stayed, rules, reported>>

\* Mutant: the loop asks again for as long as the answer is ENOMEM.
TooSmallForEver ==
    /\ sysctlError' = "ENOMEM"
    /\ pc' = "size"
    /\ UNCHANGED <<attempt, capacity, error, pids, stats, listing>>

\* The processes have grown past the buffer: continue, up to the third time.
TooSmall ==
    /\ sysctlError' = "ENOMEM"
    /\ attempt' = attempt + 1
    /\ pc' = IF attempt + 1 < MaxAttempts THEN "size" ELSE "libproc"
    /\ UNCHANGED <<capacity, error, pids, stats, listing>>

\* Mutant: the list ends one entry early.
EntriesButLast(S) == S \ {p \in S : \A q \in S : q <= p}

Entries(S) == S

\* The second call, into the buffer.
Fill ==
    /\ pc = "fill"
    /\ \/ Cardinality(Running) > capacity /\ TooSmall
       \/ /\ Cardinality(Running) <= capacity
          /\ Enumerated(Entries(Running), None, "whole")
       \/ Enumerated({}, None, "nonsense")
       \/ \E code \in Errors : Falls(code)
    /\ UNCHANGED <<world, ignore, last, stayed, rules, reported>>

\* Mutant: only the error of libproc itself is passed on.
BothFailedOf(fallbackError) == fallbackError

\* The error passed on when both interfaces have listed nothing.
BothFailed(fallbackError) ==
    IF fallbackError # None THEN fallbackError
    ELSE IF sysctlError # None THEN sysctlError ELSE "ENOMEM"

LibprocListsNothing(fallbackError) ==
    Enumerated({}, BothFailed(fallbackError), "failed")

\* The first call of proc_listallpids: how many processes are there?
AskLibproc ==
    /\ pc = "libproc"
    /\ \/ /\ pc' = "libfill"
          /\ capacity' = Cardinality(Running) + Slack
          /\ UNCHANGED <<attempt, sysctlError, error, pids, stats, listing>>
       \/ \E code \in Errors : LibprocListsNothing(code)
    /\ UNCHANGED <<world, ignore, last, stayed, rules, reported>>

\* The second one fills the buffer as far as it goes, and says nothing of
\* the processes that are left out; or it lists no positive number.
FillLibproc ==
    /\ pc = "libfill"
    /\ \/ \E list \in SUBSET Running :
              /\ list # {}
              /\ \/ list = Running /\ Cardinality(list) <= capacity
                 \/ list # Running /\ Cardinality(list) = capacity
              /\ Enumerated(list, None, IF list = Running THEN "whole" ELSE "cut")
       \/ \E code \in Errors \cup {None} : LibprocListsNothing(code)
    /\ UNCHANGED <<world, ignore, last, stayed, rules, reported>>

-----------------------------------------------------------------------------
(***************************************************************************)
(* The inspection of each process, in ascending order.                     *)
(***************************************************************************)
ShouldIgnoreProcess(g, dirs) == \E dir \in dirs : <<PathOf[g], dir>> \in Inside

Names(g) == {PathOf[g], BaseOf[g]}

IsProcessAllowed(q, g) ==
    /\ q.blocked \cap Names(g) = {}
    /\ q.allowed = {} \/ q.allowed \cap Names(g) # {}

Least(S) == CHOOSE p \in S : \A q \in S : p <= q

\* What one process adds to the statistics.
Judged(p) ==
    LET g == procs[p]
    IN CASE g = None \/ (g # None /\ PathOf[g] = Pathless) -> stats
         [] g # None /\ PathOf[g] = Denied -> [stats EXCEPT !.denied = @ + 1]
         [] OTHER ->
              IF ShouldIgnoreProcess(g, ignore) THEN stats
              ELSE [stats EXCEPT !.checked = @ + 1,
                                 !.violations = IF IsProcessAllowed(policy, g)
                                                THEN @ ELSE @ + 1]

Inspect ==
    /\ pc = "inspect"
    /\ pids # {}
    /\ ~stopRequested
    /\ LET p == Least(pids)
       IN /\ pids' = pids \ {p}
          /\ stats' = Judged(p)
          /\ reported' = IF stats'.violations > stats.violations
                         THEN reported \cup {p} ELSE reported
    /\ UNCHANGED <<world, enumeration, listing, stayed, rules, pc, error, ignore,
                   last>>

\* The list is exhausted, or the worker is asked to stop.
InspectionOver ==
    /\ pc = "inspect"
    /\ pids = {} \/ stopRequested
    /\ pc' = "publish"
    /\ UNCHANGED <<world, enumeration, history, error, ignore, pids, stats, last>>

\* Mutant: the statistics of the scans are added up.
PublishAdds ==
    last' = [field \in DOMAIN stats |-> last[field] + stats[field]]

PublishScanStats == last' = stats

\* What a scan leaves behind on its stack is gone with it.
Publish ==
    /\ pc = "publish"
    /\ PublishScanStats
    /\ pc' = "idle"
    /\ error' = None /\ ignore' = {} /\ pids' = {} /\ stats' = NoStats
    /\ listing' = "none" /\ rules' = {} /\ reported' = {}
    /\ stayed' = [p \in Pids |-> None]
    /\ UNCHANGED <<world, enumeration>>

-----------------------------------------------------------------------------
Environment ==
    \/ \E p \in Pids : Exits(p) \/ \E g \in Programs : Starts(p, g)
    \/ \E q \in Policies : Reload(q)
    \/ RequestStop

Scan ==
    \/ AskSize \/ Fill \/ AskLibproc \/ FillLibproc
    \/ Inspect \/ InspectionOver \/ Publish

Next == Environment \/ ScanBegins \/ Scan

Spec == Init /\ [][Next]_vars

FairSpec == Spec /\ WF_vars(Scan)

-----------------------------------------------------------------------------
(***************************************************************************)
(* Properties.                                                             *)
(***************************************************************************)
Codes == Errors \cup {"ENOMEM", None}

Counts == [checked : Nat, violations : Nat, denied : Nat]

\* The types; no summary counts a process twice, or one it did not list: the
\* statistics get_last_scan_stats hands out are those of one scan.
TypeOK ==
    /\ procs \in [Pids -> Programs \cup {None}]
    /\ stayed \in [Pids -> Programs \cup {None}]
    /\ policy \in Policies /\ rules \subseteq Policies
    /\ stopRequested \in BOOLEAN
    /\ pc \in {"idle", "size", "fill", "libproc", "libfill", "inspect", "publish"}
    /\ attempt \in 0..MaxAttempts /\ capacity \in Nat
    /\ sysctlError \in Codes /\ error \in Codes
    /\ pids \subseteq Pids /\ reported \subseteq Pids
    /\ listing \in {"none", "whole", "cut", "nonsense", "failed"}
    /\ \A s \in {stats, last} :
          /\ s \in Counts
          /\ s.violations <= s.checked
          /\ s.checked + s.denied <= Cardinality(Pids)
    /\ stats.violations = Cardinality(reported)

\* A scan that both interfaces left without a list is never taken for a scan
\* that found nothing to inspect (perform_scan, process_enforcer.cpp:286).
NoListIsAnError == listing = "failed" => pc = "publish" /\ error # None

Readable(g) == PathOf[g] \notin {Denied, Pathless}

\* What the comments of isProcessAllowed say: a blocked name takes
\* precedence; without a list of allowed ones everything else is allowed.
Forbidden(q, g) ==
    \/ \E n \in Names(g) : n \in q.blocked
    \/ q.allowed # {} /\ \A n \in Names(g) : n \notin q.allowed

Exempt(q, g) == \E dir \in q.ignore : <<PathOf[g], dir>> \in Inside

\* A scan that got a whole list and went through it reports each process
\* that ran a forbidden program from the beginning to the end, whatever else
\* started, exited or reused a number; and whatever the list, no process that
\* did nothing but run an allowed or an exempt program.  When the policy was
\* reloaded meanwhile, the ones in force before and after share the decision.
StayersAreJudged ==
    pc = "publish" =>
        \A p \in Pids : stayed[p] # None =>
            LET g == stayed[p]
                certain == /\ Readable(g)
                           /\ \A q \in rules : Forbidden(q, g) /\ ~Exempt(q, g)
                possible == /\ Readable(g)
                            /\ \E q \in rules : Forbidden(q, g)
                            /\ \E q \in rules : ~Exempt(q, g)
            IN /\ p \in reported => possible
               /\ listing = "whole" /\ pids = {} /\ certain => p \in reported

\* A scan ends: the retries are bounded, even when each attempt finds that
\* more processes have started since it asked for the size.
ScanEnds == pc # "idle" ~> pc = "idle"
==============================================================================
