------------------------- MODULE PolicyQueriesProofs -------------------------
(***************************************************************************)
(* What TLAPS proves of the queries: they leave the store alone, so that   *)
(* every theorem about ConfigStore holds behind the readers; what the      *)
(* readers see is consistent; and the matching of paths and of domains by  *)
(* characters is the one by components and by labels, whatever the length. *)
(***************************************************************************)
EXTENDS PolicyQueries, ConfigStoreProofs, SequenceTheorems

(***************************************************************************)
(* Every step of the queries is one of the store or leaves it as it is.    *)
(***************************************************************************)
LEMMA QueryStepOfStore == [QueryNext]_qvars => [Next]_vars
<1> SUFFICES ASSUME [QueryNext]_qvars
             PROVE  [Next]_vars
    OBVIOUS
<1>1. CASE StoreAlone
    BY <1>1 DEF StoreAlone, Next
<1>2. CASE ReloadBehindReaders
    BY <1>2 DEF ReloadBehindReaders, Next
<1>3. CASE CrashWithReaders
    BY <1>3 DEF CrashWithReaders, Next
<1>4. CASE ReadProtected \/ ReadMonitorPaths \/ ReadIgnored
    BY <1>4 DEF ReadProtected, ReadMonitorPaths, ReadIgnored
<1>5. ASSUME NEW r \in Readers, GetRawConfig(r)
      PROVE  [Next]_vars
    BY <1>5 DEF GetRawConfig
<1>6. CASE UNCHANGED qvars
    BY <1>6 DEF qvars
<1> QED
    BY <1>1, <1>2, <1>3, <1>4, <1>5, <1>6 DEF QueryNext

(***************************************************************************)
(* A store with readers is a store: no getter changes the file, the policy *)
(* or the snapshot.                                                        *)
(***************************************************************************)
THEOREM QueriesOnlyRead == QuerySpec => Spec
<1>1. QueryInit => Init
    BY DEF QueryInit
<1> QED
    BY <1>1, QueryStepOfStore, PTL DEF QuerySpec, Spec

(***************************************************************************)
(* What the store promises, it promises behind readers.                    *)
(***************************************************************************)
THEOREM StoreBehindReaders ==
    QuerySpec => [](TypeOK /\ SnapshotAgrees /\ PolicySane) /\ CalmStartKeepsDoc
BY QueriesOnlyRead, ConfigTypeCorrect, SnapshotAgreement, PolicySanity,
   CalmStartKeeps, PTL

LEMMA ConfigInvariant == Spec => []ConfigInv
BY ConfigInit, ConfigStep, PTL DEF Spec

(***************************************************************************)
(* The call of load_monitored_paths under way: it began after the last     *)
(* crash, and what it has listed is what the policy protects unless that   *)
(* has changed meanwhile.                                                  *)
(***************************************************************************)
ListInv ==
    /\ rpc \in {"idle", "extra", "ignored"}
    /\ rpc # "idle" => pc = "running"
    /\ rpc # "idle" /\ fresh => listed = policy.protected

LEMMA ListInit == QueryInit => ListInv
BY DEF QueryInit, NoReaders, ListInv

LEMMA ListStep == ListInv /\ [QueryNext]_qvars => ListInv'
<1> SUFFICES ASSUME ListInv, [QueryNext]_qvars
             PROVE  ListInv'
    OBVIOUS
<1> USE DEF ListInv
<1>1. CASE StoreAlone
  <2>1. CASE rpc = "idle"
      BY <1>1, <2>1 DEF StoreAlone, readers
  <2>2. CASE pc = "running"
    <3>1. UNCHANGED <<pc, policy>>
        BY <1>1, <2>2 DEF StoreAlone, AdminTruncates, AdminRemoves, AdminWrites,
           Disturb, Run, Start, ResolvePath, FirstLoad, OpenDefault, OpenFails,
           WriteDefault, WriteFails, LoadDefault, LoadAgain
    <3> QED
        BY <1>1, <3>1 DEF StoreAlone, readers
  <2> QED
      BY <2>1, <2>2
<1>2. CASE ReloadBehindReaders
    BY <1>2 DEF ReloadBehindReaders, Reload, Load
<1>3. CASE CrashWithReaders
    BY <1>3 DEF CrashWithReaders
<1>4. CASE ReadProtected
    BY <1>4 DEF ReadProtected, vars
<1>5. CASE ReadMonitorPaths
    BY <1>5 DEF ReadMonitorPaths, vars
<1>6. CASE ReadIgnored
    BY <1>6 DEF ReadIgnored, vars
<1>7. ASSUME NEW r \in Readers, GetRawConfig(r)
      PROVE  ListInv'
    BY <1>7 DEF GetRawConfig, vars
<1>8. CASE UNCHANGED qvars
    BY <1>8 DEF qvars, vars, readers
<1> QED
    BY <1>1, <1>2, <1>3, <1>4, <1>5, <1>6, <1>7, <1>8 DEF QueryNext

(***************************************************************************)
(* A policy in memory protects nothing that it ignores, so that filtering  *)
(* its protected paths once more drops none.                               *)
(***************************************************************************)
LEMMA FilteredAlready ==
    ASSUME NEW p \in Policies
    PROVE  FilterPaths(p.protected, p.ignore) = p.protected
<1>1. Sane(p)
    BY PoliciesAreSane
<1> QED
    BY <1>1 DEF Sane, FilterPaths

(***************************************************************************)
(* Whatever is reloaded between its getters, load_monitored_paths returns  *)
(* no path that the policy it read last ignores, and if nothing changed    *)
(* exactly the protected ones.                                             *)
(***************************************************************************)
THEOREM MonitoredAgreement == QuerySpec => []MonitoredPathsAgree
<1>1. ASSUME ConfigInv, ListInv, rpc = "ignored"
      PROVE  /\ \A p \in MonitoredPaths, q \in policy.ignore : ~HasPrefixPath(p, q)
             /\ fresh => MonitoredPaths = policy.protected
  <2>1. policy \in Policies
    <3>1. Loaded
        BY <1>1 DEF ListInv, Loaded
    <3> QED
        BY <1>1, <3>1 DEF ConfigInv, TypeOK, Agreement, Policies
  <2>2. \A p \in MonitoredPaths, q \in policy.ignore : ~HasPrefixPath(p, q)
      BY DEF MonitoredPaths, FilterPaths
  <2>3. fresh => MonitoredPaths = policy.protected
      BY <1>1, <2>1, FilteredAlready DEF ListInv, MonitoredPaths
  <2> QED
      BY <2>2, <2>3
<1>2. ConfigInv /\ ListInv => MonitoredPathsAgree
    BY <1>1 DEF MonitoredPathsAgree
<1> QED
    BY <1>2, QueriesOnlyRead, ConfigInvariant, ListInit, ListStep, PTL DEF QuerySpec

(***************************************************************************)
(* The reference a thread got last points into the snapshot that its       *)
(* thread_local variable keeps alive, and into no other thread's.          *)
(***************************************************************************)
SlotInv ==
    /\ slot \in [Readers -> {"none", "now", "past"}]
    /\ ref = slot

LEMMA SlotInit == QueryInit => SlotInv
BY DEF QueryInit, NoReaders, SlotInv

LEMMA SlotStep == SlotInv /\ [QueryNext]_qvars => SlotInv'
<1> SUFFICES ASSUME SlotInv, [QueryNext]_qvars
             PROVE  SlotInv'
    OBVIOUS
<1> USE DEF SlotInv
<1>1. CASE ReloadBehindReaders
    BY <1>1 DEF ReloadBehindReaders, Retire
<1>2. CASE CrashWithReaders
    BY <1>2 DEF CrashWithReaders
<1>3. ASSUME NEW r \in Readers, GetRawConfig(r)
      PROVE  SlotInv'
    BY <1>3 DEF GetRawConfig, Slot
<1>4. CASE StoreAlone
    BY <1>4 DEF StoreAlone, readers
<1>5. CASE ReadProtected \/ ReadMonitorPaths \/ ReadIgnored
    BY <1>5 DEF ReadProtected, ReadMonitorPaths, ReadIgnored
<1>6. CASE UNCHANGED qvars
    BY <1>6 DEF qvars, readers
<1> QED
    BY <1>1, <1>2, <1>3, <1>4, <1>5, <1>6 DEF QueryNext

(***************************************************************************)
(* The reference a thread got from its latest getRawConfig() stays valid,  *)
(* whatever is reloaded and whatever other threads call.                   *)
(***************************************************************************)
THEOREM ReferencesLive == QuerySpec => []ReferenceStaysAlive
<1>1. SlotInv => ReferenceStaysAlive
    BY DEF SlotInv, ReferenceStaysAlive
<1> QED
    BY <1>1, SlotInit, SlotStep, PTL DEF QuerySpec

-----------------------------------------------------------------------------
(***************************************************************************)
(* Strings, character by character.                                        *)
(***************************************************************************)
LEMMA StringsAreSequences ==
    ASSUME NEW chars, NEW length \in Int, NEW w
    PROVE  w \in Strings(chars, length) <=> w \in Seq(chars) /\ Len(w) <= length
<1>1. ASSUME w \in Strings(chars, length)
      PROVE  w \in Seq(chars) /\ Len(w) <= length
  <2>1. PICK n \in 0..length : w \in [1..n -> chars]
      BY <1>1 DEF Strings
  <2>2. n \in Nat /\ n <= length
      OBVIOUS
  <2>3. w \in Seq(chars)
      BY <2>1, <2>2, SeqDef
  <2>4. DOMAIN w = 1..n /\ DOMAIN w = 1..Len(w) /\ Len(w) \in Nat
      BY <2>1, <2>3, LenProperties
  <2>5. Len(w) = n
      BY <2>2, <2>4
  <2> QED
      BY <2>2, <2>3, <2>5
<1>2. ASSUME w \in Seq(chars), Len(w) <= length
      PROVE  w \in Strings(chars, length)
  <2>1. Len(w) \in Nat /\ w \in [1..Len(w) -> chars]
      BY <1>2, LenProperties
  <2>2. Len(w) \in 0..length
      BY <1>2, <2>1
  <2> QED
      BY <2>1, <2>2 DEF Strings
<1> QED
    BY <1>1, <1>2

LEMMA PrefixByCharacters ==
    ASSUME NEW chars, NEW s \in Seq(chars), NEW t \in Seq(chars)
    PROVE  IsPrefix(s, t) <=> /\ Len(s) <= Len(t)
                              /\ \A i \in 1..Len(s) : s[i] = t[i]
<1>1. Len(s) \in Nat /\ Len(t) \in Nat /\ SubSeq(s, 1, Len(s)) = s
    BY LenProperties, SubSeqFull
<1>2. ASSUME Len(s) <= Len(t)
      PROVE  /\ SubSeq(t, 1, Len(s)) \in Seq(chars)
             /\ Len(SubSeq(t, 1, Len(s))) = Len(s)
             /\ \A i \in 1..Len(s) : SubSeq(t, 1, Len(s))[i] = t[i]
  <2>1. \A i \in 1..Len(s) : t[i] \in chars
    <3>1. \A i \in 1..Len(s) : i \in 1..Len(t)
        BY <1>1, <1>2
    <3> QED
        BY <3>1, ElementOfSeq
  <2>2. /\ SubSeq(t, 1, Len(s)) \in Seq(chars)
        /\ Len(SubSeq(t, 1, Len(s))) = IF 1 <= Len(s) THEN Len(s) - 1 + 1 ELSE 0
        /\ \A i \in 1..Len(s) - 1 + 1 : SubSeq(t, 1, Len(s))[i] = t[1 + i - 1]
      BY <1>1, <2>1, SubSeqProperties
  <2>3. Len(s) - 1 + 1 = Len(s) /\ \A i \in 1..Len(s) : 1 + i - 1 = i
      BY <1>1
  <2> QED
      BY <1>1, <2>2, <2>3
<1>3. ASSUME Len(s) <= Len(t), \A i \in 1..Len(s) : s[i] = t[i]
      PROVE  s = SubSeq(t, 1, Len(s))
    BY <1>2, <1>3, SeqEqual
<1> QED
    BY <1>1, <1>2, <1>3 DEF IsPrefix

LEMMA SuffixByCharacters ==
    ASSUME NEW chars, NEW s \in Seq(chars), NEW t \in Seq(chars)
    PROVE  IsSuffix(s, t) <=> /\ Len(s) <= Len(t)
                              /\ \A i \in 1..Len(s) : s[i] = t[Len(t) - Len(s) + i]
<1>1. ASSUME NEW w \in Seq(chars)
      PROVE  /\ Reverse(w) \in Seq(chars) /\ Len(Reverse(w)) = Len(w)
             /\ Len(w) \in Nat
             /\ \A i \in 1..Len(w) : Reverse(w)[i] = w[(Len(w) - i) + 1]
  <2>1. Len(w) \in Nat /\ \A i \in 1..Len(w) : w[(Len(w) - i) + 1] \in chars
    <3>1. Len(w) \in Nat
        BY LenProperties
    <3>2. \A i \in 1..Len(w) : (Len(w) - i) + 1 \in 1..Len(w)
        BY <3>1
    <3> QED
        BY <3>1, <3>2, ElementOfSeq
  <2>2. Reverse(w) \in [1..Len(w) -> chars]
      BY <2>1 DEF Reverse
  <2>3. Reverse(w) \in Seq(chars)
      BY <2>1, <2>2, SeqDef
  <2>4. Len(Reverse(w)) \in Nat /\ DOMAIN Reverse(w) = 1..Len(Reverse(w))
        /\ DOMAIN Reverse(w) = 1..Len(w)
      BY <2>2, <2>3, LenProperties
  <2>5. Len(Reverse(w)) = Len(w)
      BY <2>1, <2>4
  <2> QED
      BY <2>1, <2>3, <2>5 DEF Reverse
<1>2. IsSuffix(s, t) <=> /\ Len(s) <= Len(t)
                         /\ \A i \in 1..Len(s) : Reverse(s)[i] = Reverse(t)[i]
    BY <1>1, PrefixByCharacters DEF IsSuffix
<1>3. ASSUME Len(s) <= Len(t)
      PROVE  (\A i \in 1..Len(s) : Reverse(s)[i] = Reverse(t)[i])
                <=> (\A i \in 1..Len(s) : s[i] = t[Len(t) - Len(s) + i])
  <2> DEFINE m == Len(s)
             n == Len(t)
  <2>1. m \in Nat /\ n \in Nat /\ m <= n
      BY <1>1, <1>3
  <2>2. /\ \A i \in 1..m : Reverse(s)[i] = s[(m - i) + 1]
        /\ \A i \in 1..n : Reverse(t)[i] = t[(n - i) + 1]
      BY <1>1
  <2> HIDE DEF m, n
  <2>3. \A i \in 1..m : /\ i \in 1..n /\ (m - i) + 1 \in 1..m
                        /\ (m - ((m - i) + 1)) + 1 = i
                        /\ n - m + ((m - i) + 1) = (n - i) + 1
                        /\ (n - ((m - i) + 1)) + 1 = n - m + i
      BY <2>1
  <2>4. ASSUME \A i \in 1..m : Reverse(s)[i] = Reverse(t)[i]
        PROVE  \A i \in 1..m : s[i] = t[n - m + i]
    <3> SUFFICES ASSUME NEW i \in 1..m
                 PROVE  s[i] = t[n - m + i]
        OBVIOUS
    <3> DEFINE j == (m - i) + 1
    <3>1. j \in 1..m /\ j \in 1..n /\ (m - j) + 1 = i /\ (n - j) + 1 = n - m + i
        BY <2>3
    <3> HIDE DEF j
    <3>2. Reverse(s)[j] = s[i] /\ Reverse(t)[j] = t[n - m + i]
        BY <2>2, <3>1
    <3> QED
        BY <2>4, <3>1, <3>2
  <2>5. ASSUME \A i \in 1..m : s[i] = t[n - m + i]
        PROVE  \A i \in 1..m : Reverse(s)[i] = Reverse(t)[i]
    <3> SUFFICES ASSUME NEW i \in 1..m
                 PROVE  Reverse(s)[i] = Reverse(t)[i]
        OBVIOUS
    <3>1. s[(m - i) + 1] = t[(n - i) + 1]
        BY <2>3, <2>5
    <3> QED
        BY <2>2, <2>3, <3>1
  <2> QED
      BY <2>4, <2>5 DEF m, n
<1> QED
    BY <1>2, <1>3

-----------------------------------------------------------------------------
(***************************************************************************)
(* Paths.                                                                  *)
(***************************************************************************)
\* What makes a string a normalised path.
NormalString(w) ==
    /\ w \in Seq(PathChars) /\ Len(w) <= MaxLength
    /\ Len(w) \in Nat \ {0} /\ w[1] = Slash
    /\ \A i \in 1..(Len(w) - 1) : w[i] = Slash => w[i + 1] # Slash

LEMMA NormalPathShape ==
    ASSUME NEW w
    PROVE  w \in NormalPaths <=> NormalString(w)
<1>1. MaxLength \in Int
    BY CharAssumption
<1>2. w \in Strings(PathChars, MaxLength) <=> w \in Seq(PathChars) /\ Len(w) <= MaxLength
    BY <1>1, StringsAreSequences
<1>3. w \in Seq(PathChars) => (w # <<>> <=> Len(w) \in Nat \ {0})
    BY EmptySeq
<1> QED
    BY <1>2, <1>3 DEF NormalPaths, NormalString

LEMMA StemShape ==
    ASSUME NEW q, NormalString(q)
    PROVE  /\ Stem(q) \in Seq(PathChars) /\ Len(Stem(q)) \in Nat
           /\ \A i \in 1..Len(Stem(q)) : Stem(q)[i] = q[i]
           /\ q[Len(q)] = Slash => Len(Stem(q)) + 1 = Len(q)
           /\ q[Len(q)] # Slash => Len(Stem(q)) = Len(q)
<1> DEFINE n == Len(q)
           s == SubSeq(q, 1, n - 1)
<1>1. q \in Seq(PathChars) /\ n \in Nat \ {0}
    BY DEF NormalString
<1>2. CASE q[n] = Slash
  <2>1. Stem(q) = s
      BY <1>2 DEF Stem
  <2>2. \A i \in 1..n : q[i] \in PathChars
      BY <1>1, ElementOfSeq
  <2> HIDE DEF n
  <2>3. /\ \A i \in 1..(n - 1) : q[i] \in PathChars
        /\ 1 \in Int /\ n - 1 \in Int
        /\ (n - 1) - 1 + 1 = n - 1 /\ (1 <= n - 1 \/ n - 1 = 0)
        /\ \A i \in 1..(n - 1) : 1 + i - 1 = i
      BY <1>1, <2>2
  <2>4. /\ s \in Seq(PathChars)
        /\ Len(s) = IF 1 <= n - 1 THEN (n - 1) - 1 + 1 ELSE 0
        /\ \A i \in 1..((n - 1) - 1 + 1) : s[i] = q[1 + i - 1]
      BY <2>3, SubSeqProperties
  <2>5. Len(s) = n - 1 /\ \A i \in 1..(n - 1) : s[i] = q[i]
      BY <2>3, <2>4
  <2>6. n - 1 \in Nat /\ (n - 1) + 1 = n
      BY <1>1
  <2> HIDE DEF s
  <2> QED
      BY <1>2, <2>1, <2>4, <2>5, <2>6 DEF n
<1>3. CASE q[n] # Slash
    BY <1>1, <1>3 DEF Stem
<1> QED
    BY <1>2, <1>3

\* What follows a prefix that is a directory of the path is a path again.
LEMMA RestIsNormal ==
    ASSUME NEW p, NEW q \in Seq(PathChars), NormalString(p),
           IsPrefix(q, p), Len(q) # Len(p), p[Len(q) + 1] = Slash
    PROVE  \E rest \in NormalPaths : p = q \o rest
<1> DEFINE m == Len(q)
           n == Len(p)
           rest == SubSeq(p, m + 1, n)
<1>1. /\ m \in Nat /\ n \in Nat \ {0} /\ n <= MaxLength /\ MaxLength \in Nat
      /\ p \in Seq(PathChars) /\ q \in Seq(PathChars)
      /\ p[m + 1] = Slash
      /\ \A i \in 1..(n - 1) : p[i] = Slash => p[i + 1] # Slash
    BY CharAssumption, LenProperties DEF NormalString
<1>2. m <= n /\ \A i \in 1..m : q[i] = p[i]
    BY <1>1, PrefixByCharacters
<1>3. \A i \in 1..n : p[i] \in PathChars
    BY <1>1, ElementOfSeq
<1>4. m # n
    OBVIOUS
<1> HIDE DEF m, n
<1>5. m < n
    BY <1>1, <1>2, <1>4
<1>6. /\ rest \in Seq(PathChars) /\ Len(rest) = n - m
      /\ \A i \in 1..(n - m) : rest[i] = p[m + i]
  <2>1. \A i \in (m + 1)..n : p[i] \in PathChars
      BY <1>1, <1>3
  <2>2. m + 1 \in Int /\ n \in Int /\ m + 1 <= n /\ n - (m + 1) + 1 = n - m
      BY <1>1, <1>5
  <2>3. /\ rest \in Seq(PathChars)
        /\ Len(rest) = n - m
        /\ \A i \in 1..(n - m) : rest[i] = p[(m + 1) + i - 1]
      BY <2>1, <2>2, SubSeqProperties
  <2>4. \A i \in 1..(n - m) : (m + 1) + i - 1 = m + i
      BY <1>1
  <2> QED
      BY <2>3, <2>4
<1> HIDE DEF rest
<1>7. NormalString(rest)
  <2>1. 1 \in 1..(n - m)
      BY <1>1, <1>5
  <2>2. rest[1] = Slash
      BY <1>1, <1>6, <2>1
  <2>3. ASSUME NEW i \in 1..((n - m) - 1), rest[i] = Slash
        PROVE  rest[i + 1] # Slash
    <3>1. /\ i \in 1..(n - m) /\ i + 1 \in 1..(n - m) /\ m + i \in 1..(n - 1)
          /\ m + (i + 1) = (m + i) + 1
        BY <1>1, <1>5
    <3> QED
        BY <1>1, <1>6, <2>3, <3>1
  <2>4. n - m \in Nat \ {0} /\ n - m <= MaxLength
      BY <1>1, <1>5
  <2> QED
      BY <1>6, <2>2, <2>3, <2>4 DEF NormalString
<1>8. p = q \o rest
  <2>1. Len(q) = m /\ Len(p) = n
      BY DEF m, n
  <2>2. /\ q \o rest \in Seq(PathChars) /\ Len(q \o rest) = m + (n - m)
        /\ \A i \in 1..(m + (n - m)) :
              (q \o rest)[i] = IF i <= m THEN q[i] ELSE rest[i - m]
    <3>1. /\ q \o rest \in Seq(PathChars) /\ Len(q \o rest) = Len(q) + Len(rest)
          /\ \A i \in 1..(Len(q) + Len(rest)) :
                (q \o rest)[i] = IF i <= Len(q) THEN q[i] ELSE rest[i - Len(q)]
        BY <1>1, <1>6, ConcatProperties
    <3>2. Len(rest) = n - m
        BY <1>6
    <3> QED
        BY <2>1, <3>1, <3>2
  <2>3. m + (n - m) = n
      BY <1>1
  <2>4. \A i \in 1..n : (q \o rest)[i] = p[i]
    <3> SUFFICES ASSUME NEW i \in 1..n
                 PROVE  (q \o rest)[i] = p[i]
        OBVIOUS
    <3>1. CASE i <= m
      <4>1. i \in 1..m
          BY <1>1, <3>1
      <4> QED
          BY <1>2, <2>2, <2>3, <3>1, <4>1
    <3>2. CASE ~(i <= m)
      <4>1. i - m \in 1..(n - m) /\ m + (i - m) = i
          BY <1>1, <3>2
      <4> QED
          BY <1>6, <2>2, <2>3, <3>2, <4>1
    <3> QED
        BY <3>1, <3>2
  <2> QED
      BY <1>1, <2>1, <2>2, <2>3, <2>4, SeqEqual
<1> QED
    BY <1>7, <1>8, NormalPathShape

\* Whatever a path leads to from a directory passes the test by characters.
LEMMA ConcatIsBelow ==
    ASSUME NEW q, NEW rest, NormalString(q), NormalString(rest)
    PROVE  HasPrefixChars(Stem(q) \o rest, q)
<1> DEFINE s == Stem(q)
           m == Len(s)
           n == Len(rest)
           p == s \o rest
<1>1. /\ m \in Nat /\ n \in Nat \ {0} /\ q \in Seq(PathChars) /\ s \in Seq(PathChars)
      /\ rest \in Seq(PathChars) /\ rest[1] = Slash /\ q # <<>>
      /\ Len(q) \in Nat \ {0}
      /\ \A i \in 1..m : s[i] = q[i]
      /\ q[Len(q)] = Slash => m + 1 = Len(q)
      /\ q[Len(q)] # Slash => m = Len(q)
    BY StemShape, EmptySeq DEF NormalString
<1> HIDE DEF s
<1>2. /\ p \in Seq(PathChars) /\ Len(p) = m + n
      /\ \A i \in 1..(m + n) : p[i] = IF i <= m THEN s[i] ELSE rest[i - m]
    BY <1>1, ConcatProperties
<1> HIDE DEF m, n, p
<1>3. m + 1 \in 1..(m + n) /\ ~(m + 1 <= m) /\ (m + 1) - m = 1 /\ m <= m + n
      /\ \A i \in 1..m : i \in 1..(m + n) /\ i <= m
    BY <1>1
<1>4. p[m + 1] = Slash
    BY <1>1, <1>2, <1>3
<1>5. \A i \in 1..m : p[i] = q[i]
    BY <1>1, <1>2, <1>3
<1>6. Len(q) <= m + n /\ \A i \in 1..Len(q) : q[i] = p[i]
  <2>1. CASE q[Len(q)] = Slash
    <3>1. \A i \in 1..Len(q) : i \in 1..m \/ i = Len(q)
        BY <1>1, <2>1
    <3>2. Len(q) <= m + n
        BY <1>1, <2>1
    <3> QED
        BY <1>1, <1>4, <1>5, <2>1, <3>1, <3>2
  <2>2. CASE q[Len(q)] # Slash
      BY <1>1, <1>3, <1>5, <2>2
  <2> QED
      BY <2>1, <2>2
<1>7. IsPrefix(q, p)
    BY <1>1, <1>2, <1>6, PrefixByCharacters
<1>8. q[Len(q)] = Slash \/ p[Len(q) + 1] = Slash
    BY <1>1, <1>4
<1> QED
    BY <1>1, <1>7, <1>8 DEF HasPrefixChars, p, s

LEMMA PrefixAgrees ==
    ASSUME NEW p \in NormalPaths, NEW q \in NormalPaths
    PROVE  HasPrefixChars(p, q) <=>
              p = q \/ \E rest \in NormalPaths : p = Stem(q) \o rest
<1>1. NormalString(p) /\ NormalString(q)
    BY NormalPathShape
<1>2. /\ p \in Seq(PathChars) /\ q \in Seq(PathChars) /\ q # <<>>
      /\ Len(p) \in Nat \ {0} /\ Len(q) \in Nat \ {0}
    BY <1>1, EmptySeq DEF NormalString
<1>3. ASSUME HasPrefixChars(p, q), p # q
      PROVE  \E rest \in NormalPaths : p = Stem(q) \o rest
  <2> DEFINE s == Stem(q)
  <2>1. /\ s \in Seq(PathChars) /\ Len(s) \in Nat
        /\ \A i \in 1..Len(s) : s[i] = q[i]
        /\ q[Len(q)] = Slash => Len(s) + 1 = Len(q)
        /\ q[Len(q)] # Slash => Len(s) = Len(q)
      BY <1>1, StemShape
  <2>2. Len(q) <= Len(p) /\ \A i \in 1..Len(q) : q[i] = p[i]
      BY <1>2, <1>3, PrefixByCharacters DEF HasPrefixChars
  <2>3. Len(q) # Len(p)
      BY <1>2, <1>3, <2>2, SeqEqual
  <2>4. q[Len(q)] = Slash \/ p[Len(q) + 1] = Slash
      BY <1>3, <2>3 DEF HasPrefixChars
  <2> HIDE DEF s
  <2>5. Len(s) <= Len(q) /\ Len(s) <= Len(p) /\ Len(s) # Len(p)
      BY <1>2, <2>1, <2>2, <2>3
  <2>6. \A i \in 1..Len(s) : s[i] = p[i]
    <3>1. \A i \in 1..Len(s) : i \in 1..Len(q)
        BY <1>2, <2>1, <2>5
    <3> QED
        BY <2>1, <2>2, <3>1
  <2>7. IsPrefix(s, p)
      BY <1>2, <2>1, <2>5, <2>6, PrefixByCharacters
  <2>8. p[Len(s) + 1] = Slash
    <3>1. CASE q[Len(q)] = Slash
      <4>1. Len(s) + 1 = Len(q) /\ Len(q) \in 1..Len(q)
          BY <1>2, <2>1, <3>1
      <4> QED
          BY <2>2, <3>1, <4>1
    <3>2. CASE q[Len(q)] # Slash
        BY <2>1, <2>4, <3>2
    <3> QED
        BY <3>1, <3>2
  <2>9. \E rest \in NormalPaths : p = s \o rest
      BY <1>1, <2>1, <2>5, <2>7, <2>8, RestIsNormal
  <2> QED
      BY <2>9 DEF s
<1>4. ASSUME p = q
      PROVE  HasPrefixChars(p, q)
  <2>1. IsPrefix(q, p)
      BY <1>2, <1>4, PrefixByCharacters
  <2> QED
      BY <1>2, <1>4, <2>1 DEF HasPrefixChars
<1>5. ASSUME NEW rest \in NormalPaths, p = Stem(q) \o rest
      PROVE  HasPrefixChars(p, q)
  <2>1. NormalString(rest)
      BY NormalPathShape
  <2> QED
      BY <1>1, <1>5, <2>1, ConcatIsBelow
<1> QED
    BY <1>3, <1>4, <1>5

(***************************************************************************)
(* The directory test by characters is one by whole components, for paths  *)
(* of any characters and of any length, with and without a final slash: it *)
(* reads no state, and so holds in every one.                              *)
(***************************************************************************)
THEOREM PrefixMatching == QuerySpec => []PrefixByComponents
<1>1. PrefixByComponents
    BY PrefixAgrees DEF PrefixByComponents
<1> QED
    BY <1>1, PTL

-----------------------------------------------------------------------------
(***************************************************************************)
(* Domains.                                                                *)
(***************************************************************************)
Chars == DomainChars \cup PatternChars

Wild(pattern) == Len(pattern) > 2 /\ pattern[1] = Star /\ pattern[2] = Dot

\* The pattern is a wildcard in front of the labels behind the dot at n + 1.
CoversBehind(pattern, d, n) ==
    /\ n < Len(d) - 1
    /\ d[n + 1] = Dot
    /\ pattern = Wildcard(SubSeq(d, n + 2, Len(d)))

LEMMA WildcardPrefix ==
    ASSUME NEW pattern \in Seq(Chars)
    PROVE  IsPrefix(<<Star, Dot>>, pattern) <=>
              Len(pattern) >= 2 /\ pattern[1] = Star /\ pattern[2] = Dot
<1> DEFINE w == <<Star, Dot>>
<1>1. w \in Seq(Chars) /\ Len(w) = 2 /\ w[1] = Star /\ w[2] = Dot
    BY CharAssumption DEF Chars
<1> HIDE DEF w
<1>2. IsPrefix(w, pattern) <=> /\ Len(w) <= Len(pattern)
                               /\ \A i \in 1..Len(w) : w[i] = pattern[i]
  <2>1. w \in Seq(Chars) /\ pattern \in Seq(Chars)
      BY <1>1
  <2> QED
      BY <2>1, PrefixByCharacters
<1>3. Len(pattern) \in Nat /\ 1 \in 1..2 /\ 2 \in 1..2
      /\ \A i \in 1..2 : i = 1 \/ i = 2
    BY LenProperties
<1>4. IsPrefix(w, pattern) <=>
         Len(pattern) >= 2 /\ pattern[1] = Star /\ pattern[2] = Dot
    BY <1>1, <1>2, <1>3
<1> QED
    BY <1>4 DEF w

\* The characters of the labels behind a dot, and of a wildcard before them.
LEMMA WildcardShape ==
    ASSUME NEW d \in Seq(Chars), NEW n \in Nat, n < Len(d) - 1
    PROVE  LET rest == SubSeq(d, n + 2, Len(d))
               k == Len(d) - n - 1
           IN /\ rest \in Seq(Chars) /\ Len(rest) = k
              /\ \A i \in 1..k : rest[i] = d[n + 1 + i]
              /\ Wildcard(rest) \in Seq(Chars) /\ Len(Wildcard(rest)) = 2 + k
              /\ Wildcard(rest)[1] = Star /\ Wildcard(rest)[2] = Dot
              /\ \A i \in 1..k : Wildcard(rest)[2 + i] = rest[i]
<1> DEFINE rest == SubSeq(d, n + 2, Len(d))
           k == Len(d) - n - 1
           w == <<Star, Dot>>
<1>1. Len(d) \in Nat /\ k \in Nat \ {0} /\ n + 2 <= Len(d)
      /\ Len(d) - (n + 2) + 1 = k /\ n + 2 \in Int
  <2>1. Len(d) \in Nat
      BY LenProperties
  <2> QED
      BY <2>1
<1>2. \A i \in (n + 2)..Len(d) : d[i] \in Chars
  <2>1. \A i \in (n + 2)..Len(d) : i \in 1..Len(d)
    <3>1. \A a \in Nat, b \in Nat : \A i \in (a + 2)..b : i \in 1..b
        OBVIOUS
    <3>2. n \in Nat /\ Len(d) \in Nat
        BY <1>1
    <3> QED
        BY <3>1, <3>2
  <2> QED
      BY <2>1, ElementOfSeq
<1> HIDE DEF k
<1>3. /\ rest \in Seq(Chars) /\ Len(rest) = k
      /\ \A i \in 1..k : rest[i] = d[(n + 2) + i - 1]
    BY <1>1, <1>2, SubSeqProperties
<1>4. \A i \in 1..k : (n + 2) + i - 1 = n + 1 + i
    BY <1>1
<1>5. \A i \in 1..k : rest[i] = d[n + 1 + i]
    BY <1>3, <1>4
<1>6. w \in Seq(Chars) /\ Len(w) = 2 /\ w[1] = Star /\ w[2] = Dot
    BY CharAssumption DEF Chars
<1> HIDE DEF rest, w
<1>7. /\ w \o rest \in Seq(Chars) /\ Len(w \o rest) = 2 + k
      /\ \A i \in 1..(2 + k) : (w \o rest)[i] = IF i <= 2 THEN w[i] ELSE rest[i - 2]
  <2>1. /\ w \o rest \in Seq(Chars) /\ Len(w \o rest) = Len(w) + Len(rest)
        /\ \A i \in 1..(Len(w) + Len(rest)) :
              (w \o rest)[i] = IF i <= Len(w) THEN w[i] ELSE rest[i - Len(w)]
      BY <1>3, <1>6, ConcatProperties
  <2> QED
      BY <1>3, <1>6, <2>1
<1>8. (w \o rest)[1] = Star /\ (w \o rest)[2] = Dot
  <2>1. 1 \in 1..(2 + k) /\ 2 \in 1..(2 + k) /\ 1 <= 2
      BY <1>1
  <2> QED
      BY <1>6, <1>7, <2>1
<1>9. \A i \in 1..k : (w \o rest)[2 + i] = rest[i]
  <2>1. \A i \in 1..k : 2 + i \in 1..(2 + k) /\ ~(2 + i <= 2) /\ (2 + i) - 2 = i
      BY <1>1
  <2> QED
      BY <1>7, <2>1
<1> QED
    BY <1>3, <1>5, <1>7, <1>8, <1>9 DEF Wildcard, w, rest, k

\* A wildcard pattern matches the domains that have its labels behind a dot.
LEMMA WildMatches ==
    ASSUME NEW d \in Seq(Chars), NEW pattern \in Seq(Chars), Wild(pattern)
    PROVE  LET suffix == SubSeq(pattern, 3, Len(pattern))
           IN (\E n \in 0..Len(d) : CoversBehind(pattern, d, n)) <=>
                 /\ Len(d) > Len(suffix)
                 /\ IsSuffix(suffix, d)
                 /\ d[Len(d) - Len(suffix)] = Dot
<1> DEFINE suffix == SubSeq(pattern, 3, Len(pattern))
           m == Len(pattern)
           k == Len(d)
<1>1. m \in Nat /\ k \in Nat /\ m > 2 /\ pattern[1] = Star /\ pattern[2] = Dot
    BY LenProperties DEF Wild
<1>2. /\ suffix \in Seq(Chars) /\ Len(suffix) = m - 2
      /\ \A i \in 1..(m - 2) : suffix[i] = pattern[2 + i]
  <2>1. \A i \in 3..m : pattern[i] \in Chars
    <3>1. \A i \in 3..m : i \in 1..m
        BY <1>1
    <3> QED
        BY <3>1, ElementOfSeq
  <2> HIDE DEF m
  <2>2. 3 <= m /\ m - 3 + 1 = m - 2 /\ m \in Int
        /\ \A i \in 1..(m - 2) : 3 + i - 1 = 2 + i
      BY <1>1
  <2>3. /\ SubSeq(pattern, 3, m) \in Seq(Chars) /\ Len(SubSeq(pattern, 3, m)) = m - 2
        /\ \A i \in 1..(m - 2) : SubSeq(pattern, 3, m)[i] = pattern[3 + i - 1]
      BY <2>1, <2>2, SubSeqProperties
  <2> QED
      BY <2>2, <2>3 DEF m
<1>3. IsSuffix(suffix, d) <=> /\ m - 2 <= k
                              /\ \A i \in 1..(m - 2) : suffix[i] = d[k - (m - 2) + i]
  <2>1. IsSuffix(suffix, d) <=>
           /\ Len(suffix) <= k
           /\ \A i \in 1..Len(suffix) : suffix[i] = d[k - Len(suffix) + i]
      BY <1>2, SuffixByCharacters
  <2>2. Len(suffix) = m - 2
      BY <1>2
  <2> QED
      BY <2>1, <2>2
<1>4. ASSUME NEW n \in 0..k, CoversBehind(pattern, d, n)
      PROVE  /\ k > m - 2 /\ IsSuffix(suffix, d) /\ d[k - (m - 2)] = Dot
  <2> DEFINE rest == SubSeq(d, n + 2, Len(d))
             l == Len(d) - n - 1
  <2>1. n \in Nat /\ n < Len(d) - 1 /\ d[n + 1] = Dot /\ pattern = Wildcard(rest)
      BY <1>1, <1>4 DEF CoversBehind
  <2>2. /\ Len(rest) = l /\ \A i \in 1..l : rest[i] = d[n + 1 + i]
        /\ Len(Wildcard(rest)) = 2 + l
        /\ \A i \in 1..l : Wildcard(rest)[2 + i] = rest[i]
      BY <2>1, WildcardShape
  <2>3. m = 2 + l /\ \A i \in 1..l : pattern[2 + i] = d[n + 1 + i]
      BY <2>1, <2>2
  <2>4. l = k - n - 1
      OBVIOUS
  <2> HIDE DEF l, rest, m, k, suffix
  <2>5. /\ m - 2 = l /\ k > m - 2 /\ m - 2 <= k /\ k - (m - 2) = n + 1
      BY <1>1, <2>1, <2>3, <2>4
  <2>6. \A i \in 1..(m - 2) : suffix[i] = d[k - (m - 2) + i]
      BY <1>2, <2>3, <2>5
  <2> QED
      BY <1>3, <2>1, <2>5, <2>6
<1>5. ASSUME k > m - 2, IsSuffix(suffix, d), d[k - (m - 2)] = Dot
      PROVE  \E n \in 0..k : CoversBehind(pattern, d, n)
  <2> DEFINE n == k - m + 1
             rest == SubSeq(d, n + 2, Len(d))
             l == Len(d) - n - 1
  <2>1. /\ n \in Nat /\ n \in 0..k /\ n < k - 1 /\ k - (m - 2) = n + 1 /\ l = m - 2
        /\ k - n - 1 = m - 2
      BY <1>1, <1>5
  <2>2. \A i \in 1..(m - 2) : suffix[i] = d[n + 1 + i]
      BY <1>3, <1>5, <2>1
  <2> HIDE DEF n
  <2>3. /\ Len(rest) = l /\ \A i \in 1..l : rest[i] = d[n + 1 + i]
        /\ Wildcard(rest) \in Seq(Chars) /\ Len(Wildcard(rest)) = 2 + l
        /\ Wildcard(rest)[1] = Star /\ Wildcard(rest)[2] = Dot
        /\ \A i \in 1..l : Wildcard(rest)[2 + i] = rest[i]
      BY <2>1, WildcardShape
  <2>4. \A i \in 1..m : pattern[i] = Wildcard(rest)[i]
    <3> SUFFICES ASSUME NEW i \in 1..m
                 PROVE  pattern[i] = Wildcard(rest)[i]
        OBVIOUS
    <3>1. CASE i = 1 \/ i = 2
        BY <1>1, <2>3, <3>1
    <3>2. CASE i # 1 /\ i # 2
      <4>1. i - 2 \in 1..(m - 2) /\ 2 + (i - 2) = i
          BY <1>1, <3>2
      <4>2. /\ suffix[i - 2] = pattern[2 + (i - 2)]
            /\ suffix[i - 2] = d[n + 1 + (i - 2)]
          BY <1>2, <2>2, <4>1
      <4>3. /\ rest[i - 2] = d[n + 1 + (i - 2)]
            /\ Wildcard(rest)[2 + (i - 2)] = rest[i - 2]
          BY <2>1, <2>3, <4>1
      <4> QED
          BY <4>1, <4>2, <4>3
    <3> QED
        BY <3>1, <3>2
  <2>5. Len(Wildcard(rest)) = m
      BY <1>1, <2>1, <2>3
  <2>6. pattern = Wildcard(rest)
      BY <2>3, <2>4, <2>5, SeqEqual
  <2>7. CoversBehind(pattern, d, n)
      BY <1>5, <2>1, <2>6 DEF CoversBehind
  <2> QED
      BY <2>1, <2>7
<1> QED
    BY <1>2, <1>4, <1>5

\* The domains a pattern covers, by labels.
Covers(pattern, d) ==
    \/ pattern = <<Star>>
    \/ d = pattern /\ Len(pattern) <= 2
    \/ d = pattern /\ ~IsPrefix(<<Star, Dot>>, pattern)
    \/ \E n \in 0..Len(d) : CoversBehind(pattern, d, n)

\* Only a wildcard covers what is behind a dot.
LEMMA OnlyWildCovers ==
    ASSUME NEW d \in Seq(Chars), NEW pattern, NEW n \in 0..Len(d),
           CoversBehind(pattern, d, n)
    PROVE  Wild(pattern)
<1>1. /\ Len(d) \in Nat /\ n \in Nat /\ n < Len(d) - 1
      /\ pattern = Wildcard(SubSeq(d, n + 2, Len(d)))
  <2>1. Len(d) \in Nat
      BY LenProperties
  <2>2. n \in Nat
      BY <2>1
  <2> QED
      BY <2>1, <2>2 DEF CoversBehind
<1>2. /\ Len(pattern) = 2 + (Len(d) - n - 1)
      /\ pattern[1] = Star /\ pattern[2] = Dot
    BY <1>1, WildcardShape
<1>3. Len(pattern) > 2
    BY <1>1, <1>2
<1> QED
    BY <1>2, <1>3 DEF Wild

LEMMA MatchingCovers ==
    ASSUME NEW d \in Seq(Chars), NEW pattern \in Seq(Chars)
    PROVE  MatchDomainPattern(d, pattern) <=> Covers(pattern, d)
<1>1. CASE pattern = <<Star>>
    BY <1>1 DEF MatchDomainPattern, Covers
<1>2. CASE pattern # <<Star>> /\ Wild(pattern)
  <2>1. IsPrefix(<<Star, Dot>>, pattern) /\ ~(Len(pattern) <= 2)
    <3>1. Len(pattern) \in Nat
        BY LenProperties
    <3>2. Len(pattern) > 2 /\ pattern[1] = Star /\ pattern[2] = Dot
        BY <1>2 DEF Wild
    <3>3. Len(pattern) >= 2 /\ ~(Len(pattern) <= 2)
        BY <3>1, <3>2
    <3>4. IsPrefix(<<Star, Dot>>, pattern)
        BY <3>2, <3>3, WildcardPrefix
    <3> QED
        BY <3>3, <3>4
  <2>2. Covers(pattern, d) <=> \E n \in 0..Len(d) : CoversBehind(pattern, d, n)
      BY <1>2, <2>1 DEF Covers
  <2> QED
      BY <1>2, <2>2, WildMatches DEF MatchDomainPattern, Wild
<1>3. CASE pattern # <<Star>> /\ ~Wild(pattern)
  <2>1. Len(pattern) <= 2 \/ ~IsPrefix(<<Star, Dot>>, pattern)
    <3>1. Len(pattern) \in Nat
        BY LenProperties
    <3>2. IsPrefix(<<Star, Dot>>, pattern) => pattern[1] = Star /\ pattern[2] = Dot
        BY WildcardPrefix
    <3>3. ~(Len(pattern) > 2) => Len(pattern) <= 2
        BY <3>1
    <3>4. Len(pattern) > 2 => ~(pattern[1] = Star /\ pattern[2] = Dot)
        BY <1>3 DEF Wild
    <3> QED
        BY <3>2, <3>3, <3>4
  <2>2. ~\E n \in 0..Len(d) : CoversBehind(pattern, d, n)
      BY <1>3, OnlyWildCovers
  <2>3. MatchDomainPattern(d, pattern) <=> d = pattern
      BY <1>3 DEF MatchDomainPattern, Wild
  <2> QED
      BY <1>3, <2>1, <2>2, <2>3 DEF Covers
<1> QED
    BY <1>1, <1>2, <1>3

(***************************************************************************)
(* A domain is allowed if a pattern that allows it covers it and the       *)
(* blocked one does not, label by label, for domains and patterns of any   *)
(* characters and of any length.                                           *)
(***************************************************************************)
THEOREM DomainMatching == QuerySpec => []DomainsByLabels
<1> DEFINE domains == Strings(DomainChars, MaxLength)
           patterns == Strings(PatternChars, MaxLength - 1)
           covered(pattern) ==
               IF pattern = <<Star>> THEN domains
               ELSE {d \in domains :
                       \/ d = pattern /\ Len(pattern) <= 2
                       \/ d = pattern /\ ~IsPrefix(<<Star, Dot>>, pattern)
                       \/ \E n \in 0..Len(d) :
                             /\ n < Len(d) - 1
                             /\ d[n + 1] = Dot
                             /\ pattern = Wildcard(SubSeq(d, n + 2, Len(d)))}
<1>1. (\A d \in domains : d \in Seq(Chars)) /\ (\A w \in patterns : w \in Seq(Chars))
  <2>1. MaxLength \in Int /\ MaxLength - 1 \in Int
      BY CharAssumption
  <2>2. /\ \A d \in domains : d \in Seq(DomainChars)
        /\ \A w \in patterns : w \in Seq(PatternChars)
      BY <2>1, StringsAreSequences
  <2>3. DomainChars \subseteq Chars /\ PatternChars \subseteq Chars
      BY DEF Chars
  <2> QED
      BY <2>2, <2>3, SeqMonotonic
<1> HIDE DEF domains, patterns
<1>2. ASSUME NEW d \in domains, NEW w \in patterns
      PROVE  MatchDomainPattern(d, w) <=> d \in covered(w)
  <2>1. MatchDomainPattern(d, w) <=> Covers(w, d)
      BY <1>1, MatchingCovers
  <2>2. Covers(w, d) <=> d \in covered(w)
      BY DEF Covers, CoversBehind
  <2> QED
      BY <2>1, <2>2
<1>3. \A w \in patterns : covered(w) \subseteq domains
    OBVIOUS
<1> HIDE DEF covered
<1>4. ASSUME NEW b \in patterns, NEW a \in patterns
      PROVE  {d \in domains : IsDomainAllowed({b}, {a}, d)} = covered(a) \ covered(b)
  <2>1. \A d : IsDomainAllowed({b}, {a}, d) <=>
                  ~MatchDomainPattern(d, b) /\ MatchDomainPattern(d, a)
      BY DEF IsDomainAllowed
  <2>2. covered(a) \subseteq domains
      BY <1>3
  <2>3. \A d \in domains : /\ MatchDomainPattern(d, a) <=> d \in covered(a)
                           /\ MatchDomainPattern(d, b) <=> d \in covered(b)
      BY <1>2
  <2> QED
      BY <2>1, <2>2, <2>3
<1>5. DomainsByLabels
    BY <1>4 DEF DomainsByLabels, domains, patterns, covered
<1> QED
    BY <1>5, PTL
==============================================================================
