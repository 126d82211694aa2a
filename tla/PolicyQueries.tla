---------------------------- MODULE PolicyQueries ----------------------------
(***************************************************************************)
(* The queries other threads make of a ConfigManager that reloads: the     *)
(* getters, each of which takes the lock on its own; load_monitored_paths  *)
(* of the filesystem worker, which calls three of them; getRawConfig,      *)
(* which returns a reference; and the matching of domains and paths.       *)
(*                                                                         *)
(* The three lists load_monitored_paths reads are two in the model: the    *)
(* paths to monitor are normalised and filtered like the protected ones    *)
(* and stand for a second reading of these.                                *)
(***************************************************************************)
EXTENDS ConfigStore, SequencesExt

CONSTANTS Readers,                   \* threads that call getRawConfig()
          DomainChars, PatternChars, PathChars,  \* characters
          Dot, Star, Slash,
          MaxLength                  \* bound: of a domain, a pattern, a path

ASSUME CharAssumption ==
    /\ Dot \in DomainChars /\ Dot # Star /\ Star \in PatternChars
    /\ Slash \in PathChars
    /\ MaxLength \in Nat

VARIABLES
    rpc,     \* where the worker is in load_monitored_paths
    listed,  \* the paths it has read so far
    fresh,   \* history: the policy has not changed since the call began
    slot,    \* slot[r]: the snapshot in r's thread_local variable
    ref      \* ref[r]: the snapshot that r's latest reference points into

readers == <<rpc, listed, fresh, slot, ref>>
qvars == <<vars, readers>>

NoReaders ==
    /\ rpc = "idle" /\ listed = {} /\ fresh = TRUE
    /\ slot = [r \in Readers |-> "none"]
    /\ ref = [r \in Readers |-> "none"]

QueryInit == Init /\ NoReaders

-----------------------------------------------------------------------------
(***************************************************************************)
(* The store, which the readers only see through the lock.                 *)
(***************************************************************************)
\* A new object takes the place of config_snapshot_.
Retire(s) == [r \in Readers |-> IF s[r] = "now" THEN "past" ELSE s[r]]

ReloadBehindReaders ==
    /\ Reload
    /\ fresh' = (fresh /\ policy' = policy)
    /\ slot' = Retire(slot) /\ ref' = Retire(ref)
    /\ UNCHANGED <<rpc, listed>>

CrashWithReaders ==
    /\ Crash
    /\ rpc' = "idle" /\ listed' = {} /\ fresh' = TRUE
    /\ slot' = [r \in Readers |-> "none"]
    /\ ref' = [r \in Readers |-> "none"]

\* Nobody reads before the workers are started.
StoreAlone ==
    /\ \/ AdminTruncates \/ AdminRemoves \/ \E doc \in Docs : AdminWrites(doc)
       \/ Run \/ Start
    /\ UNCHANGED readers

-----------------------------------------------------------------------------
(***************************************************************************)
(* FilesystemEnforcer::load_monitored_paths.                               *)
(***************************************************************************)
ReadProtected ==
    /\ pc = "running"
    /\ rpc = "idle"
    /\ rpc' = "extra"
    /\ listed' = policy.protected
    /\ fresh' = TRUE
    /\ UNCHANGED <<vars, slot, ref>>

ReadMonitorPaths ==
    /\ rpc = "extra"
    /\ rpc' = "ignored"
    /\ listed' = listed \cup policy.protected
    /\ UNCHANGED <<vars, fresh, slot, ref>>

\* Mutant: the lists were filtered when they were parsed.
MonitoredUnfiltered == listed

\* What the call returns if it reads the ignored paths now.
MonitoredPaths == FilterPaths(listed, policy.ignore)

ReadIgnored ==
    /\ rpc = "ignored"
    /\ rpc' = "idle"
    /\ listed' = {}
    /\ fresh' = TRUE
    /\ UNCHANGED <<vars, slot, ref>>

-----------------------------------------------------------------------------
(***************************************************************************)
(* getRawConfig.                                                           *)
(***************************************************************************)
\* Mutant: one static variable for all threads.
SharedSlot(r) == CHOOSE q \in Readers : TRUE

Slot(r) == r

GetRawConfig(r) ==
    /\ pc = "running"
    /\ slot' = [slot EXCEPT ![Slot(r)] = "now"]
    /\ ref' = [ref EXCEPT ![r] = "now"]
    /\ UNCHANGED <<vars, rpc, listed, fresh>>

QueryNext ==
    \/ StoreAlone \/ ReloadBehindReaders \/ CrashWithReaders
    \/ ReadProtected \/ ReadMonitorPaths \/ ReadIgnored
    \/ \E r \in Readers : GetRawConfig(r)

QuerySpec == QueryInit /\ [][QueryNext]_qvars

-----------------------------------------------------------------------------
(***************************************************************************)
(* Matching, character by character as the code does it.                   *)
(***************************************************************************)
\* Mutant: any suffix will do, not only whole labels.
MatchAnySuffix(domain, pattern) ==
    \/ pattern = <<Star>>
    \/ /\ Len(pattern) > 2 /\ pattern[1] = Star /\ pattern[2] = Dot
       /\ LET suffix == SubSeq(pattern, 3, Len(pattern))
          IN Len(domain) > Len(suffix) /\ IsSuffix(suffix, domain)
    \/ ~(Len(pattern) > 2 /\ pattern[1] = Star /\ pattern[2] = Dot) /\ domain = pattern

MatchDomainPattern(domain, pattern) ==
    IF pattern = <<Star>> THEN TRUE
    ELSE IF Len(pattern) > 2 /\ pattern[1] = Star /\ pattern[2] = Dot
    THEN LET suffix == SubSeq(pattern, 3, Len(pattern))
         IN /\ Len(domain) > Len(suffix)
            /\ IsSuffix(suffix, domain)
            /\ domain[Len(domain) - Len(suffix)] = Dot
    ELSE domain = pattern

IsDomainAllowed(blocked, allowed, domain) ==
    /\ \A pattern \in blocked : ~MatchDomainPattern(domain, pattern)
    /\ \/ allowed = {}
       \/ \E pattern \in allowed : MatchDomainPattern(domain, pattern)

\* Mutant: no look at the character behind the prefix.
PrefixOnly(path, prefix) == prefix # <<>> /\ IsPrefix(prefix, path)

HasPrefixChars(path, prefix) ==
    /\ prefix # <<>>
    /\ IsPrefix(prefix, path)
    /\ \/ Len(path) = Len(prefix)
       \/ prefix[Len(prefix)] = Slash
       \/ path[Len(prefix) + 1] = Slash

-----------------------------------------------------------------------------
(***************************************************************************)
(* Properties.                                                             *)
(***************************************************************************)
\* Whatever reloads happen between its three getters, load_monitored_paths
\* never returns a path that the policy it read last ignores, and if the
\* policy did not change it returns exactly the protected paths: the second
\* filter neither lets a stale path pass nor drops a current one.
MonitoredPathsAgree ==
    rpc = "ignored" =>
        /\ \A p \in MonitoredPaths, q \in policy.ignore : ~HasPrefixPath(p, q)
        /\ fresh => MonitoredPaths = policy.protected

\* The reference a thread got from its latest getRawConfig() stays valid,
\* whatever is reloaded and whatever other threads call.
ReferenceStaysAlive ==
    \A r \in Readers : ref[r] = "past" => \E q \in Readers : slot[q] = "past"

Strings(chars, length) == UNION {[1..n -> chars] : n \in 0..length}

Wildcard(rest) == <<Star, Dot>> \o rest

\* Matching reads no state: it is enough to look at it before the start.
Unstarted == pc = "down"

\* Matching by characters is matching by labels: "*.rest" covers the domains
\* that add at least one label to rest, and no domain that only ends with the
\* same characters; then one blocked pattern prevails over any allowed one.
DomainsByLabels ==
    LET domains == Strings(DomainChars, MaxLength)
        patterns == Strings(PatternChars, MaxLength - 1)
        covered(pattern) ==
            IF pattern = <<Star>> THEN domains
            ELSE {d \in domains :
                    \/ d = pattern /\ Len(pattern) <= 2
                    \/ d = pattern /\ ~IsPrefix(<<Star, Dot>>, pattern)
                    \/ \E n \in 0..Len(d) :
                          /\ n < Len(d) - 1
                          /\ d[n + 1] = Dot
                          /\ pattern = Wildcard(SubSeq(d, n + 2, Len(d)))}
    IN Unstarted => \A b \in patterns, a \in patterns :
          {d \in domains : IsDomainAllowed({b}, {a}, d)} = covered(a) \ covered(b)

\* What normalize_path returns: an absolute path without empty components.  One
\* that does not exist keeps the slash it may end with.
NormalPaths ==
    {p \in Strings(PathChars, MaxLength) :
        /\ p # <<>> /\ p[1] = Slash
        /\ \A i \in 1..(Len(p) - 1) : p[i] = Slash => p[i + 1] # Slash}

\* A directory without its final slash; of the root nothing is left.
Stem(q) == IF q[Len(q)] = Slash THEN SubSeq(q, 1, Len(q) - 1) ELSE q

\* The directory test by characters, of which the code has three copies
\* (config_manager.cpp:807, process_enforcer.cpp:574,
\* filesystem_enforcer.cpp), is one by whole components: a directory has below
\* it itself, as it is spelled, and what a further path leads to from it, the
\* final slash included.  Spelled with that slash it does not have below it
\* the same directory without.
PrefixByComponents ==
    Unstarted => \A p \in NormalPaths, q \in NormalPaths :
        HasPrefixChars(p, q) <=> p = q \/ \E rest \in NormalPaths : p = Stem(q) \o rest
==============================================================================
