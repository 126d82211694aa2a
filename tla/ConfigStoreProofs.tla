-------------------------- MODULE ConfigStoreProofs --------------------------
(***************************************************************************)
(* What TLAPS proves of the policy file, for any documents, paths and      *)
(* widths of an integer.                                                   *)
(***************************************************************************)
EXTENDS ConfigStore, TLAPS

(***************************************************************************)
(* ReadInt and ReadIntClamped return an integer not below the minimum,     *)
(* provided the default is not below it either.                            *)
(***************************************************************************)
LEMMA GetIntType ==
    ASSUME NEW value \in Int
    PROVE  GetInt(value) \in Int
<1>1. Span \in Int /\ Span > 0
    BY PolicyAssumption
<1> QED
    BY <1>1 DEF GetInt

LEMMA ReadIntBounded ==
    ASSUME NEW section \in Int \cup {Bad}, NEW target \in Int, NEW minimum \in Int,
           target >= minimum
    PROVE  /\ ReadInt(section, target, minimum) >= minimum
           /\ ReadIntClamped(section, target, minimum) >= minimum
<1>1. CASE section = Bad
    BY <1>1 DEF ReadInt, ReadIntClamped
<1>2. CASE section # Bad
  <2>1. GetInt(section) \in Int
      BY <1>2, GetIntType
  <2> QED
      BY <1>2, <2>1 DEF ReadInt, ReadIntClamped
<1> QED
    BY <1>1, <1>2

(***************************************************************************)
(* A policy is sane whatever document it comes from.                       *)
(***************************************************************************)
Sane(p) ==
    /\ SystemPaths \subseteq p.ignore
    /\ \A path \in p.protected, prefix \in p.ignore : ~HasPrefixPath(path, prefix)
    /\ p.heartbeat >= MinHeartbeat
    /\ p.scanMs >= MinScanMs

LEMMA ParseIsSane ==
    ASSUME NEW doc \in AllDocs
    PROVE  Sane(Parse(doc))
<1>1. /\ doc.heartbeat \in Int \cup {Bad}
      /\ doc.scanMs \in Int \cup {Bad}
    BY DocAssumption DEF AllDocs
<1>2. /\ {MinHeartbeat, MinScanMs, DefaultHeartbeat, DefaultScanMs} \subseteq Int
      /\ DefaultHeartbeat >= MinHeartbeat
      /\ DefaultScanMs >= MinScanMs
    BY PolicyAssumption
<1>3. ReadInt(doc.heartbeat, DefaultHeartbeat, MinHeartbeat) >= MinHeartbeat
    BY <1>1, <1>2, ReadIntBounded
<1>4. ReadIntClamped(doc.scanMs, DefaultScanMs, MinScanMs) >= MinScanMs
    BY <1>1, <1>2, ReadIntBounded
<1> QED
    BY <1>3, <1>4 DEF Sane, Parse, FilterPaths

LEMMA PoliciesAreSane ==
    ASSUME NEW p \in Policies
    PROVE  Sane(p)
<1>1. CASE p = Defaults
    BY <1>1, PolicyAssumption DEF Sane, Defaults
<1>2. CASE p # Defaults
    BY <1>2, ParseIsSane DEF Policies
<1> QED
    BY <1>1, <1>2

(***************************************************************************)
(* The inductive invariant: the types, and in memory a snapshot with the   *)
(* policy that belongs to it.  It has to speak of every step of a start,   *)
(* because a write that fails leaves the policy of the failed load behind. *)
(***************************************************************************)
Agreement ==
    Loaded => /\ policy = IF snapshot = NoDoc THEN Defaults ELSE Parse(snapshot)
              /\ snapshot # Nothing

\* Between the first load and the second, only the write of the default
\* document is under way, and nothing has been loaded yet.
NotLoadedYet == pc \in {"create", "write", "loadDefault"} => snapshot = NoDoc

ConfigInv == TypeOK /\ Agreement /\ NotLoadedYet

LEMMA ConfigInit == Init => ConfigInv
BY DEF Init, ConfigInv, TypeOK, Agreement, NotLoadedYet, Loaded, Found

\* load_locked leaves a policy and its snapshot, whatever it finds.
LEMMA LoadAgrees ==
    ASSUME TypeOK, LoadFailed \/ (file \in AllDocs /\ LoadSucceeded)
    PROVE  /\ policy' \in Policies
           /\ snapshot' \in AllDocs \cup {NoDoc}
           /\ snapshot' # Nothing
           /\ policy' = IF snapshot' = NoDoc THEN Defaults ELSE Parse(snapshot')
<1>1. NoDoc \notin AllDocs /\ Nothing \notin AllDocs /\ NoDoc # Nothing
    BY FileAssumption DEF AllDocs
<1> QED
    BY <1>1 DEF LoadFailed, LoadSucceeded, Policies

LEMMA LoadStep ==
    ASSUME ConfigInv,
           NEW onSuccess \in {"constructed", "running"},
           NEW onFailure \in {"create", "constructed", "running"},
           Load(onSuccess, onFailure)
    PROVE  ConfigInv'
<1>1. LoadFailed \/ (file \in AllDocs /\ LoadSucceeded)
    BY DEF Load
<1>2. /\ policy' \in Policies
      /\ snapshot' \in AllDocs \cup {NoDoc}
      /\ snapshot' # Nothing
      /\ policy' = IF snapshot' = NoDoc THEN Defaults ELSE Parse(snapshot')
    BY <1>1, LoadAgrees DEF ConfigInv
<1>3. pc' = "create" => snapshot' = NoDoc
    BY DEF Load, LoadFailed
<1>4. TypeOK'
    BY <1>2 DEF Load, ConfigInv, TypeOK
<1>5. Agreement'
    BY <1>2 DEF Agreement
<1>6. NotLoadedYet'
    BY <1>3 DEF NotLoadedYet, Load
<1> QED
    BY <1>4, <1>5, <1>6 DEF ConfigInv

LEMMA StartStep == ConfigInv /\ Start => ConfigInv'
<1> SUFFICES ASSUME ConfigInv, Start
             PROVE  ConfigInv'
    OBVIOUS
<1> USE DEF ConfigInv, TypeOK, Agreement, NotLoadedYet, Loaded
<1>1. CASE ResolvePath
    BY <1>1 DEF ResolvePath
<1>2. CASE FirstLoad
    BY <1>2, LoadStep DEF FirstLoad
<1>3. CASE OpenDefault
    BY <1>3 DEF OpenDefault, Found
<1>4. CASE OpenFails
    BY <1>4 DEF OpenFails, Policies
<1>5. CASE WriteDefault
    BY <1>5 DEF WriteDefault, Dumped, Found, AllDocs
<1>6. CASE WriteFails
    BY <1>6 DEF WriteFails, Policies
<1>7. CASE LoadDefault
    BY <1>7, LoadStep DEF LoadDefault
<1>8. CASE LoadAgain
    BY <1>8, LoadStep DEF LoadAgain
<1> QED
    BY <1>1, <1>2, <1>3, <1>4, <1>5, <1>6, <1>7, <1>8 DEF Start

LEMMA ConfigStep == ConfigInv /\ [Next]_vars => ConfigInv'
<1> SUFFICES ASSUME ConfigInv, [Next]_vars
             PROVE  ConfigInv'
    OBVIOUS
<1> USE DEF ConfigInv, TypeOK, Agreement, NotLoadedYet, Loaded
<1>1. ASSUME NEW content \in Found, Disturb(content)
      PROVE  ConfigInv'
    BY <1>1 DEF Disturb
<1>2. CASE AdminTruncates \/ AdminRemoves \/ \E doc \in Docs : AdminWrites(doc)
    BY <1>1, <1>2 DEF AdminTruncates, AdminRemoves, AdminWrites, Found, AllDocs
<1>3. CASE Run
    BY <1>3 DEF Run
<1>4. CASE Start
    BY <1>4, StartStep
<1>5. CASE Reload
    BY <1>5, LoadStep DEF Reload
<1>6. CASE Crash
    BY <1>6 DEF Crash
<1>7. CASE UNCHANGED vars
    BY <1>7 DEF vars
<1> QED
    BY <1>2, <1>3, <1>4, <1>5, <1>6, <1>7 DEF Next

(***************************************************************************)
(* The policy in memory is a whole one.                                    *)
(***************************************************************************)
THEOREM ConfigTypeCorrect == Spec => []TypeOK
<1>1. ConfigInv => TypeOK
    BY DEF ConfigInv
<1> QED
    BY <1>1, ConfigInit, ConfigStep, PTL DEF Spec

(***************************************************************************)
(* The document handed out by getRawConfig is the one the active policy    *)
(* was parsed from.                                                        *)
(***************************************************************************)
THEOREM SnapshotAgreement == Spec => []SnapshotAgrees
<1>1. ConfigInv => SnapshotAgrees
    BY DEF ConfigInv, Agreement, SnapshotAgrees
<1> QED
    BY <1>1, ConfigInit, ConfigStep, PTL DEF Spec

(***************************************************************************)
(* No document and no failure makes the policy protect a path inside an    *)
(* ignored one, forget a system path or scan without a pause.              *)
(***************************************************************************)
THEOREM PolicySanity == Spec => []PolicySane
<1>1. ASSUME ConfigInv, Loaded
      PROVE  Sane(policy)
  <2>1. policy \in Policies
      BY <1>1 DEF ConfigInv, TypeOK, Agreement, Policies
  <2> QED
      BY <2>1, PoliciesAreSane
<1>2. ConfigInv => PolicySane
    BY <1>1 DEF PolicySane, Sane
<1> QED
    BY <1>2, ConfigInit, ConfigStep, PTL DEF Spec

(***************************************************************************)
(* A calm start writes only after a load has found no valid document, and  *)
(* until it has written nobody has put one there.                          *)
(***************************************************************************)
NoDocWhereWritten == calm /\ file \in Docs => pc \notin {"create", "write"}

LEMMA NoDocInit == Init => NoDocWhereWritten
BY DEF Init, NoDocWhereWritten

LEMMA NoDocStep == NoDocWhereWritten /\ [Next]_vars => NoDocWhereWritten'
<1> SUFFICES ASSUME NoDocWhereWritten, [Next]_vars
             PROVE  NoDocWhereWritten'
    OBVIOUS
<1> USE DEF NoDocWhereWritten
<1>1. CASE AdminTruncates \/ AdminRemoves \/ \E doc \in Docs : AdminWrites(doc)
    BY <1>1 DEF AdminTruncates, AdminRemoves, AdminWrites, Disturb
<1>2. CASE Run \/ Crash
    BY <1>2 DEF Run, Crash
<1>3. CASE FirstLoad
    BY <1>3 DEF FirstLoad, Load, AllDocs
<1>4. CASE OpenDefault
    BY <1>4, FileAssumption DEF OpenDefault
<1>5. CASE ResolvePath \/ OpenFails \/ WriteDefault \/ WriteFails
    BY <1>5 DEF ResolvePath, OpenFails, WriteDefault, WriteFails
<1>6. CASE LoadDefault \/ LoadAgain \/ Reload
    BY <1>6 DEF LoadDefault, LoadAgain, Reload, Load
<1>7. CASE UNCHANGED vars
    BY <1>7 DEF vars
<1> QED
    BY <1>1, <1>2, <1>3, <1>4, <1>5, <1>6, <1>7 DEF Next, Start

(***************************************************************************)
(* The document of an administrator survives every start that nobody       *)
(* disturbs, with and without a path argument.                             *)
(***************************************************************************)
THEOREM CalmStartKeeps == Spec => CalmStartKeepsDoc
<1>1. ASSUME NoDocWhereWritten, Start, calm, file \in Docs
      PROVE  file' = file
  <2>1. pc \notin {"create", "write"} /\ file # Missing
      BY <1>1, FileAssumption DEF NoDocWhereWritten
  <2> QED
      BY <1>1, <2>1 DEF Start, ResolvePath, FirstLoad, OpenDefault, OpenFails,
         WriteDefault, WriteFails, LoadDefault, LoadAgain, Load
<1>2. NoDocWhereWritten /\ [Next]_vars
         => [Start /\ calm /\ file \in Docs => file' = file]_vars
    BY <1>1
<1> QED
    BY <1>2, NoDocInit, NoDocStep, PTL DEF Spec, CalmStartKeepsDoc

(***************************************************************************)
(* What a calm start that was given a path knows of the file at each step. *)
(* The file may be broken while the start is writing, and a crash may      *)
(* leave it so; the next start is calm again and begins with a load.       *)
(***************************************************************************)
FileOfCalmStart ==
    /\ file # Directory
    /\ calm =>
          /\ pc = "write" => file = Broken
          /\ pc = "loadDefault" => file = DefaultDoc
          /\ pc \in {"constructed", "running"} => file \in AllDocs
          /\ pc = "running" => policy = Parse(file)

LEMMA FileInit == Init => FileOfCalmStart
BY FileAssumption DEF Init, FileOfCalmStart, Found, AllDocs

LEMMA FileStartStep ==
    ASSUME ~DefaultPath, FileOfCalmStart, Start
    PROVE  FileOfCalmStart'
<1> USE DEF FileOfCalmStart
<1>1. CASE ResolvePath
    BY <1>1 DEF ResolvePath
<1>2. CASE FirstLoad
    BY <1>2 DEF FirstLoad, Load
<1>3. CASE OpenDefault
    BY <1>3, FileAssumption DEF OpenDefault
<1>4. CASE OpenFails
    BY <1>4 DEF OpenFails
<1>5. CASE WriteDefault
    BY <1>5, FileAssumption DEF WriteDefault, Dumped, AllDocs
<1>6. CASE WriteFails
    BY <1>6 DEF WriteFails
<1>7. CASE LoadDefault
    BY <1>7 DEF LoadDefault, Load, AllDocs
<1>8. CASE LoadAgain
    BY <1>8 DEF LoadAgain, Load, LoadSucceeded
<1> QED
    BY <1>1, <1>2, <1>3, <1>4, <1>5, <1>6, <1>7, <1>8 DEF Start

LEMMA FileStep ==
    ASSUME ~DefaultPath, FileOfCalmStart, [Next]_vars
    PROVE  FileOfCalmStart'
<1> USE DEF FileOfCalmStart
<1>1. CASE AdminTruncates \/ AdminRemoves \/ \E doc \in Docs : AdminWrites(doc)
    BY <1>1, FileAssumption DEF AdminTruncates, AdminRemoves, AdminWrites, Disturb
<1>2. CASE Run \/ Crash
    BY <1>2 DEF Run, Crash
<1>3. CASE Start
    BY <1>3, FileStartStep
<1>4. CASE Reload
    BY <1>4 DEF Reload, Load, LoadSucceeded
<1>5. CASE UNCHANGED vars
    BY <1>5 DEF vars
<1> QED
    BY <1>1, <1>2, <1>3, <1>4, <1>5 DEF Next

(***************************************************************************)
(* An undisturbed start that is given a path ends with a valid file and    *)
(* its policy, whatever crash or failure an earlier run has left behind.   *)
(***************************************************************************)
THEOREM StartRepair ==
    ASSUME ~DefaultPath
    PROVE  Spec => []StartRepairs
<1>1. FileOfCalmStart => StartRepairs
    BY DEF FileOfCalmStart, StartRepairs
<1>2. FileOfCalmStart /\ [Next]_vars => FileOfCalmStart'
    BY FileStep
<1> QED
    BY <1>1, <1>2, FileInit, PTL DEF Spec
==============================================================================
