----------------------------- MODULE ConfigStore -----------------------------
(***************************************************************************)
(* The policy file and the policy in memory: the constructor of            *)
(* ConfigManager, which loads the file or writes a default one, the second *)
(* load that main() makes, and reload().  The process can crash at any     *)
(* step, and an administrator can remove or rewrite the file at any        *)
(* moment; rewriting first truncates it, as the agent's own writing does.  *)
(*                                                                         *)
(* load() and reload() hold the mutex from end to end, and read the file   *)
(* at one instant.                                                         *)
(***************************************************************************)
EXTENDS Integers

CONSTANTS Docs,          \* policy documents an administrator may write
          DefaultDoc,    \* what create_default_config writes
          Bad,           \* a section that is absent or has the wrong type
          Missing,       \* no file at config_path_
          Directory,     \* a directory at config_path_
          Broken,        \* a file load_locked rejects: too long, unreadable, no JSON
          NoDoc,         \* config_snapshot_ is an empty object
          Nothing,       \* no ConfigManager
          Paths,         \* spellings of paths
          Below,         \* pairs <<p, q>>: p is strictly inside q
          Rejected,      \* the paths normalize_path rejects
          SystemPaths,   \* the system paths of apply_defaults
          Span,          \* number of values of an int
          MinHeartbeat, MinScanMs, DefaultHeartbeat, DefaultScanMs,
          DefaultPath    \* no path was given to the constructor

ASSUME FileAssumption ==
    /\ Missing # Directory /\ Missing # Broken /\ Directory # Broken
    /\ NoDoc # Nothing
    /\ {Missing, Directory, Broken, NoDoc, Nothing} \cap (Docs \cup {DefaultDoc}) = {}
    /\ DefaultPath \in BOOLEAN

ASSUME PolicyAssumption ==
    /\ SystemPaths \subseteq Paths /\ Below \subseteq Paths \X Paths
    /\ {MinHeartbeat, MinScanMs, DefaultHeartbeat, DefaultScanMs} \subseteq Nat
    /\ DefaultHeartbeat >= MinHeartbeat /\ DefaultScanMs >= MinScanMs
    /\ Span \in Nat \ {0}

ASSUME DocAssumption ==
    /\ Bad \notin Int
    /\ \A doc \in Docs \cup {DefaultDoc} :
          doc.heartbeat \in Int \cup {Bad} /\ doc.scanMs \in Int \cup {Bad}

VARIABLES
    file,      \* what is at config_path_
    pc,        \* where the program is; "down" before main() and after a crash
    policy,    \* the parsed members of the ConfigManager
    snapshot,  \* config_snapshot_
    calm       \* history: nothing disturbed the file since the program started

vars == <<file, pc, policy, snapshot, calm>>

AllDocs == Docs \cup {DefaultDoc}

Found == AllDocs \cup {Missing, Broken}

-----------------------------------------------------------------------------
(***************************************************************************)
(* apply_defaults and parse_json_locked.                                   *)
(***************************************************************************)
Defaults == [protected |-> {}, ignore |-> SystemPaths,
             heartbeat |-> DefaultHeartbeat, scanMs |-> DefaultScanMs]

ReadStringArray(section) == IF section = Bad THEN {} ELSE section

\* json.at(key).get<int>() keeps the low bits.
GetInt(value) == ((value + Span \div 2) % Span) - Span \div 2

ReadInt(section, target, minimum) ==
    IF section = Bad THEN target
    ELSE IF GetInt(section) < minimum THEN target ELSE GetInt(section)

ReadIntClamped(section, target, minimum) ==
    IF section = Bad THEN target
    ELSE IF GetInt(section) < minimum THEN minimum ELSE GetInt(section)

NormalizePaths(paths) == paths \ Rejected

HasPrefixPath(path, prefix) == path = prefix \/ <<path, prefix>> \in Below

\* Mutant: only equal paths are filtered, not those inside a system path.
FilterEqualPaths(paths, ignore) == paths \ ignore

FilterPaths(paths, ignore) ==
    {p \in paths : \A prefix \in ignore : ~HasPrefixPath(p, prefix)}

Parse(doc) ==
    LET ignore == SystemPaths \cup NormalizePaths(ReadStringArray(doc.ignore))
    IN [protected |-> FilterPaths(NormalizePaths(ReadStringArray(doc.protected)), ignore),
        ignore |-> ignore,
        heartbeat |-> ReadInt(doc.heartbeat, DefaultHeartbeat, MinHeartbeat),
        scanMs |-> ReadIntClamped(doc.scanMs, DefaultScanMs, MinScanMs)]

-----------------------------------------------------------------------------
Init ==
    /\ file \in Found
    /\ pc = "down"
    /\ policy = Nothing
    /\ snapshot = Nothing
    /\ calm = FALSE

(***************************************************************************)
(* The administrator.                                                      *)
(***************************************************************************)
Disturb(content) ==
    /\ file # content
    /\ file # Directory
    /\ file' = content
    /\ calm' = FALSE
    /\ UNCHANGED <<pc, policy, snapshot>>

AdminTruncates == Disturb(Broken)

AdminWrites(doc) == file = Broken /\ Disturb(doc)

AdminRemoves == Disturb(Missing)

-----------------------------------------------------------------------------
(***************************************************************************)
(* The program.                                                            *)
(***************************************************************************)
Run ==
    /\ pc = "down"
    /\ pc' = "resolve"
    /\ calm' = TRUE
    /\ UNCHANGED <<file, policy, snapshot>>

\* default_config_path(): the directories it creates include one named
\* policy.json.  If that fails, config_path_ is a path relative to the working
\* directory, where anything may be.
ResolvePath ==
    /\ pc = "resolve"
    /\ pc' = "load"
    /\ IF DefaultPath /\ file = Missing
       THEN file' \in Found \cup {Directory}
       ELSE UNCHANGED file
    /\ UNCHANGED <<policy, snapshot, calm>>

\* Mutant: the snapshot of the previous load is not reset.
LoadFailedKeepsSnapshot ==
    /\ policy' = Defaults
    /\ snapshot' = IF snapshot = Nothing THEN NoDoc ELSE snapshot

LoadFailed == policy' = Defaults /\ snapshot' = NoDoc

\* Mutant: the paths to ignore are added to those of the previous load.
LoadSucceededAdds ==
    /\ policy' = IF policy = Nothing THEN Parse(file)
                 ELSE [Parse(file) EXCEPT !.ignore = @ \cup policy.ignore]
    /\ snapshot' = file

LoadSucceeded == policy' = Parse(file) /\ snapshot' = file

\* load_locked(), and where the program goes on.
Load(onSuccess, onFailure) ==
    /\ \/ file \in AllDocs /\ LoadSucceeded /\ pc' = onSuccess
       \/ file \notin AllDocs /\ LoadFailed /\ pc' = onFailure
    /\ UNCHANGED <<file, calm>>

\* Mutant: the default is created whatever load() returns.
FirstLoadCreates == pc = "load" /\ Load("create", "create")

FirstLoad == pc = "load" /\ Load("constructed", "create")

\* create_default_config: opening the stream truncates the file.
OpenDefault ==
    /\ pc = "create"
    /\ file # Directory
    /\ file' = Broken
    /\ pc' = "write"
    /\ UNCHANGED <<policy, snapshot, calm>>

\* The file cannot be opened: apply_defaults(), with the snapshot as it is.
OpenFails ==
    /\ pc = "create"
    /\ calm' = (calm /\ file = Directory)
    /\ policy' = Defaults
    /\ pc' = "constructed"
    /\ UNCHANGED <<file, snapshot>>

\* Mutant: only a part of the default document is dumped.
DumpedInPart == Broken

Dumped == DefaultDoc

\* The stream writes from the beginning of the file it has opened, and the
\* parser reads no further than the end of the document.  If somebody touched
\* the file meanwhile, the one at config_path_ may be another.
WriteDefault ==
    /\ pc = "write"
    /\ \/ file # Missing /\ file' = Dumped
       \/ ~calm /\ UNCHANGED file
    /\ pc' = "loadDefault"
    /\ UNCHANGED <<policy, snapshot, calm>>

\* The data is lost: on the spot, where good() sees it, or when the stream is
\* closed, where nobody looks.
WriteFails ==
    /\ pc = "write"
    /\ calm' = FALSE
    /\ \/ pc' = "constructed" /\ policy' = Defaults
       \/ pc' = "loadDefault" /\ UNCHANGED policy
    /\ UNCHANGED <<file, snapshot>>

LoadDefault == pc = "loadDefault" /\ Load("constructed", "constructed")

\* main() loads once more, and only logs a failure.
LoadAgain == pc = "constructed" /\ Load("running", "running")

Reload == pc = "running" /\ Load("running", "running")

Crash ==
    /\ pc # "down"
    /\ pc' = "down"
    /\ policy' = Nothing
    /\ snapshot' = Nothing
    /\ UNCHANGED <<file, calm>>

Start ==
    \/ ResolvePath \/ FirstLoad \/ OpenDefault \/ OpenFails \/ WriteDefault
    \/ WriteFails \/ LoadDefault \/ LoadAgain

Next ==
    \/ AdminTruncates \/ AdminRemoves \/ \E doc \in Docs : AdminWrites(doc)
    \/ Run \/ Start \/ Reload \/ Crash

Spec == Init /\ [][Next]_vars

-----------------------------------------------------------------------------
(***************************************************************************)
(* Properties.                                                             *)
(***************************************************************************)
Policies == {Defaults} \cup {Parse(doc) : doc \in AllDocs}

\* The policy in memory is always a whole one, that of a document or the
\* defaults: no load of apply_defaults and parse_json_locked mixes two.
TypeOK ==
    /\ file \in Found \cup {Directory}
    /\ pc \in {"down", "resolve", "load", "create", "write", "loadDefault",
               "constructed", "running"}
    /\ policy \in Policies \cup {Nothing}
    /\ snapshot \in AllDocs \cup {NoDoc, Nothing}
    /\ calm \in BOOLEAN

Loaded == pc \in {"create", "write", "loadDefault", "constructed", "running"}

\* Whatever document was read, or failed to be read, the active policy never
\* protects a path inside an ignored one, never forgets the system paths and
\* never has an interval below its minimum: an enforcer that scans with it
\* does not spin and does not report the system's own files.
PolicySane ==
    Loaded =>
        /\ SystemPaths \subseteq policy.ignore
        /\ \A p \in policy.protected, q \in policy.ignore : ~HasPrefixPath(p, q)
        /\ policy.heartbeat >= MinHeartbeat
        /\ policy.scanMs >= MinScanMs

\* The raw document handed out by getRawConfig is the one the active policy
\* was parsed from, also after failed loads, failed writes and crashes.
SnapshotAgrees ==
    Loaded => policy = IF snapshot = NoDoc THEN Defaults ELSE Parse(snapshot)

\* An undisturbed start that is given a path leaves a valid file and its
\* policy, whatever an earlier run left behind: a crash between the truncation
\* and the writing of the default document is repaired by the next start.
StartRepairs ==
    pc = "running" /\ calm => file \in AllDocs /\ policy = Parse(file)

\* What the comment of the constructor, config_manager.cpp:190, says: a file
\* that does not exist or is invalid is replaced by a default.
DefaultIsCreated == pc = "running" /\ calm => file \in AllDocs

\* A start that nobody disturbs writes only where there is no valid document:
\* that of an administrator, whichever it is, survives (the constructor decides
\* by load() at config_manager.cpp:189 and writes at 192 without another look).
CalmStartKeepsDoc ==
    [][Start /\ calm /\ file \in Docs => file' = file]_vars
==============================================================================
