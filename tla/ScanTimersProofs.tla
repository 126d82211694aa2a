--------------------------- MODULE ScanTimersProofs ---------------------------
(***************************************************************************)
(* What TLAPS proves of the notifications and the clipboard hook, for any  *)
(* finite set of policies, any jump of the clock and any bounds.           *)
(***************************************************************************)
EXTENDS ScanTimers, FunctionTheorems, FiniteSetTheorems, WellFoundedInduction, TLAPS

-----------------------------------------------------------------------------
(***************************************************************************)
(* The longest limit and the longest interval.                             *)
(***************************************************************************)
\* A finite set of naturals has a greatest element: among the sets of its
\* elements above n, for each n of it, one is minimal, and it is empty.
LEMMA GreatestIsGreatest ==
    ASSUME NEW S \in SUBSET Nat, IsFiniteSet(S), S # {}
    PROVE  Greatest(S) \in S /\ \A n \in S : n <= Greatest(S)
<1> DEFINE Above(n) == {s \in S : s > n}
           T == {Above(n) : n \in S}
<1>1. T \subseteq FiniteSubsetsOf(Nat) /\ T # {}
  <2>1. \A n \in S : Above(n) \in SUBSET S
      OBVIOUS
  <2>2. \A n \in S : IsFiniteSet(Above(n))
      BY <2>1, FS_Subset
  <2> QED
      BY <2>1, <2>2 DEF FiniteSubsetsOf
<1>2. PICK g \in S : \A n \in S : <<Above(n), Above(g)>> \notin StrictSubsetOrdering(Nat)
  <2>1. \E x \in T : \A y \in T : <<y, x>> \notin StrictSubsetOrdering(Nat)
      BY <1>1, FS_StrictSubsetOrderingWellFounded, WFMin
  <2> QED
      BY <2>1
<1>3. ASSUME NEW n \in S, n > g
      PROVE  FALSE
  <2>1. Above(n) \subseteq Above(g) /\ n \in Above(g) /\ n \notin Above(n)
    <3>1. n \in Nat /\ g \in Nat /\ \A s \in S : s \in Nat
        OBVIOUS
    <3>2. \A s \in S : s > n => s > g
        BY <1>3, <3>1
    <3>3. ~(n > n)
        BY <3>1
    <3>4. n \in Above(g) /\ n \notin Above(n)
        BY <1>3, <3>3
    <3>5. Above(n) \subseteq Above(g)
        BY <3>2
    <3> QED
        BY <3>4, <3>5
  <2>2. Above(n) # Above(g) /\ Above(n) \in SUBSET Nat /\ Above(g) \in SUBSET Nat
      BY <2>1
  <2>3. <<Above(n), Above(g)>> \in StrictSubsetOrdering(Nat)
      BY <2>1, <2>2 DEF StrictSubsetOrdering
  <2> QED
      BY <1>2, <2>3
<1>4. \A n \in S : n <= g
    BY <1>3
<1> QED
    BY <1>4 DEF Greatest

\* The greatest value of a finite number of policies, or the least one allowed.
LEMMA GreatestOfPolicies ==
    ASSUME NEW f \in [Policies -> Nat], NEW least \in Nat
    PROVE  LET g == Greatest({least} \cup {f[q] : q \in Policies})
           IN g \in Nat /\ g >= least /\ \A q \in Policies : f[q] <= g
<1> DEFINE T == {f[q] : q \in Policies}
           S == {least} \cup T
<1>1. f \in Surjection(Policies, T)
    BY DEF Surjection
<1>2. IsFiniteSet(T)
    BY <1>1, TimerAssumption, FS_Surjection
<1>3. T \cup {least} = S
    OBVIOUS
<1>4. IsFiniteSet(S)
    BY <1>2, <1>3, FS_AddElement
<1>5. S \in SUBSET Nat /\ S # {} /\ least \in S /\ \A q \in Policies : f[q] \in S
    OBVIOUS
<1>6. Greatest(S) \in S /\ \A n \in S : n <= Greatest(S)
    BY <1>4, <1>5, GreatestIsGreatest
<1> HIDE DEF T, S
<1>7. Greatest(S) \in Nat /\ Greatest(S) >= least /\ \A q \in Policies : f[q] <= Greatest(S)
    BY <1>5, <1>6
<1> QED
    BY <1>7 DEF S, T

LEMMA LongestLimit ==
    /\ MaxLimit \in Nat \ {0}
    /\ policy \in Policies => ResolveNotificationRateLimit \in 1..MaxLimit
<1> DEFINE f == [q \in Policies |-> q.limit]
<1>1. f \in [Policies -> Nat] /\ MinLimit \in Nat \ {0}
    BY TimerAssumption
<1>2. {f[q] : q \in Policies} = {q.limit : q \in Policies}
    OBVIOUS
<1>3. MaxLimit \in Nat /\ MaxLimit >= MinLimit /\ \A q \in Policies : f[q] <= MaxLimit
    BY <1>1, <1>2, GreatestOfPolicies DEF MaxLimit
<1> QED
    BY <1>1, <1>3 DEF ResolveNotificationRateLimit, AtLeast

LEMMA LongestInterval ==
    /\ MaxInterval \in Nat /\ MinInterval \in Nat /\ MinInterval <= MaxInterval
    /\ policy \in Policies =>
          ResolveClipboardClearInterval \in MinInterval..MaxInterval
<1> DEFINE f == [q \in Policies |-> q.interval]
<1>1. f \in [Policies -> Nat] /\ MinInterval \in Nat \ {0}
    BY TimerAssumption
<1>2. {f[q] : q \in Policies} = {q.interval : q \in Policies}
    OBVIOUS
<1>3. MaxInterval \in Nat /\ MaxInterval >= MinInterval
      /\ \A q \in Policies : f[q] <= MaxInterval
    BY <1>1, <1>2, GreatestOfPolicies DEF MaxInterval
<1> QED
    BY <1>1, <1>3 DEF ResolveClipboardClearInterval, AtLeast

-----------------------------------------------------------------------------
(***************************************************************************)
(* The types.  How far a difference goes depends on how far the clock has  *)
(* been set, so that the bounds have to speak of the adjustments made so   *)
(* far, and of the deadline as the end of the scan will see it.            *)
(***************************************************************************)
\* At the most, the clock was set back by so much.
SetBack == adjusts * Jump

TimesInv ==
    /\ -SetBack <= noteAge
    /\ left <= MaxInterval + SetBack
    /\ left - stampAge <= MaxInterval + SetBack
    /\ -SetBack <= stampAge /\ stampAge <= scanTicks + SetBack
    /\ pc = "idle" => stampAge = 0 /\ scanTicks = 0
    /\ jumps <= adjusts

\* The types without the bounds that follow from TimesInv.
Types ==
    /\ policy \in Policies /\ rules \subseteq Policies
    /\ pc \in {"idle", "monitor", "decide", "hook", "due"}
    /\ hasNote \in BOOLEAN /\ hasDeadline \in BOOLEAN /\ disabled \in BOOLEAN
    /\ clearRead \in BOOLEAN /\ debugRead \in BOOLEAN
    /\ steady \in BOOLEAN /\ refused \in BOOLEAN
    /\ noteAge \in Int /\ noteAge <= MaxLimit + Slack
    /\ left \in Int /\ -Slack <= left
    /\ stampAge \in Int
    /\ adjusts \in 0..MaxAdjusts /\ jumps \in Nat
    /\ refusals \in 0..MaxRefusals /\ elapsed \in 0..MaxLimit /\ quiet \in 0..MaxInterval
    /\ scanTicks \in 0..MaxScan

TypesInv == Types /\ TimesInv

LEMMA Bounds ==
    /\ Jump \in Nat \ {0} /\ MaxAdjusts \in Nat /\ MaxScan \in Nat
    /\ Slack \in Nat /\ MaxRefusals \in Nat
<1>1. Jump \in Nat \ {0} /\ MaxAdjusts \in Nat /\ MaxScan \in Nat
    BY TimerAssumption
<1>2. MaxLimit \in Nat
    BY LongestLimit
<1>3. MaxAdjusts * Jump \in Nat /\ (MaxAdjusts + 1) * MaxLimit \in Nat
    BY <1>1, <1>2
<1> QED
    BY <1>1, <1>3 DEF Slack, MaxRefusals

LEMMA SetBackBounds ==
    ASSUME adjusts \in 0..MaxAdjusts
    PROVE  SetBack \in Nat /\ SetBack <= Slack
<1>1. \A a \in Nat, b \in Nat, j \in Nat : a <= b => a * j \in Nat /\ a * j <= b * j
    OBVIOUS
<1> QED
    BY <1>1, Bounds DEF SetBack, Slack

LEMMA SetBackMoves ==
    ASSUME adjusts \in 0..MaxAdjusts
    PROVE  /\ adjusts' = adjusts => SetBack' = SetBack
           /\ adjusts' = adjusts + 1 => SetBack' = SetBack + Jump
<1>1. \A a \in Nat, j \in Nat : (a + 1) * j = a * j + j
    OBVIOUS
<1> QED
    BY <1>1, Bounds DEF SetBack

LEMMA AtMostBounds ==
    ASSUME NEW ceiling \in Int, NEW x \in Int
    PROVE  /\ AtMost(ceiling, x) \in Int
           /\ AtMost(ceiling, x) <= ceiling /\ AtMost(ceiling, x) <= x
           /\ \A low \in Int : low <= ceiling /\ low <= x => low <= AtMost(ceiling, x)
BY DEF AtMost

LEMMA AtLeastBounds ==
    ASSUME NEW floor \in Int, NEW x \in Int
    PROVE  /\ AtLeast(floor, x) \in Int
           /\ floor <= AtLeast(floor, x) /\ x <= AtLeast(floor, x)
           /\ \A high \in Int : floor <= high /\ x <= high => AtLeast(floor, x) <= high
BY DEF AtLeast

LEMMA TypesInit == Init => TypesInv
<1> SUFFICES ASSUME Init
             PROVE  TypesInv
    OBVIOUS
<1>1. SetBack = 0
    BY Bounds DEF Init, SetBack
<1>2. 0 \in Nat /\ 0 <= MaxLimit + Slack /\ -Slack <= 0 /\ 0 \in 0..MaxAdjusts
      /\ 0 \in 0..MaxRefusals /\ 0 \in 0..MaxLimit /\ 0 \in 0..MaxInterval
      /\ 0 \in 0..MaxScan
    BY Bounds, LongestLimit, LongestInterval
<1>4. Types
  <2>1. /\ noteAge \in Int /\ noteAge <= MaxLimit + Slack
        /\ left \in Int /\ -Slack <= left /\ stampAge \in Int
        /\ adjusts \in 0..MaxAdjusts /\ jumps \in Nat
      BY <1>2 DEF Init
  <2>2. /\ refusals \in 0..MaxRefusals /\ elapsed \in 0..MaxLimit
        /\ quiet \in 0..MaxInterval /\ scanTicks \in 0..MaxScan
      BY <1>2 DEF Init
  <2> QED
      BY <2>1, <2>2 DEF Init, Types
<1>3. TimesInv
    BY <1>1, LongestInterval DEF Init, TimesInv
<1> QED
    BY <1>3, <1>4 DEF TypesInv

\* What a move of the clock by d does to the differences, when it may set the
\* clock back by s.
LEMMA ClockMovesTypes ==
    ASSUME TypesInv, NEW d \in Int, NEW s \in Nat, 0 <= d + s,
           ClockMoves(d), SetBack' = SetBack + s, scanTicks' \in Nat,
           pc = "idle" => scanTicks' = 0,
           pc # "idle" => d - s <= scanTicks' - scanTicks
    PROVE  /\ noteAge' \in Int /\ noteAge' <= MaxLimit + Slack
           /\ left' \in Int /\ -Slack <= left'
           /\ stampAge' \in Int
           /\ -SetBack' <= noteAge'
           /\ left' <= MaxInterval + SetBack'
           /\ left' - stampAge' <= MaxInterval + SetBack'
           /\ -SetBack' <= stampAge' /\ stampAge' <= scanTicks' + SetBack'
           /\ pc = "idle" => stampAge' = 0 /\ scanTicks' = 0
<1>1. /\ noteAge \in Int /\ left \in Int /\ stampAge \in Int /\ scanTicks \in Nat
      /\ noteAge <= MaxLimit + Slack /\ -Slack <= left
      /\ -SetBack <= noteAge /\ left <= MaxInterval + SetBack
      /\ left - stampAge <= MaxInterval + SetBack
      /\ -SetBack <= stampAge /\ stampAge <= scanTicks + SetBack
      /\ pc = "idle" => stampAge = 0 /\ scanTicks = 0
      /\ adjusts \in 0..MaxAdjusts
    BY Bounds DEF TypesInv, Types, TimesInv
<1>2. /\ SetBack \in Nat /\ MaxLimit \in Nat /\ MaxInterval \in Nat /\ Slack \in Nat
    BY <1>1, Bounds, SetBackBounds, LongestLimit, LongestInterval
<1>3. /\ noteAge' \in Int /\ noteAge' <= MaxLimit + Slack
      /\ -SetBack' <= noteAge'
  <2>1. CASE ~hasNote
    <3>1. noteAge' = 0
        BY <2>1 DEF ClockMoves
    <3> QED
        BY <3>1, <1>2
  <2>2. CASE hasNote
    <3>1. noteAge' = AtMost(MaxLimit + Slack, noteAge + d)
        BY <2>2 DEF ClockMoves
    <3>2. noteAge + d \in Int /\ MaxLimit + Slack \in Int /\ -SetBack' \in Int
          /\ -SetBack' <= noteAge + d /\ -SetBack' <= MaxLimit + Slack
        BY <1>1, <1>2
    <3> QED
        BY <3>1, <3>2, AtMostBounds
  <2> QED
      BY <2>1, <2>2
<1>4. CASE pc = "idle"
  <2>1. stampAge' = 0 /\ scanTicks' = 0
      BY <1>1, <1>4 DEF ClockMoves
  <2>2. left' \in Int /\ -Slack <= left' /\ left' <= MaxInterval + SetBack'
    <3>1. CASE ~hasDeadline
      <4>1. left' = 0
          BY <1>4, <3>1 DEF ClockMoves
      <4> QED
          BY <4>1, <1>2
    <3>2. CASE hasDeadline
      <4>1. left' = AtLeast(-Slack, left - d)
          BY <1>4, <3>2 DEF ClockMoves
      <4>2. left - d \in Int /\ -Slack \in Int /\ MaxInterval + SetBack' \in Int
            /\ left - d <= MaxInterval + SetBack' /\ -Slack <= MaxInterval + SetBack'
          BY <1>1, <1>2
      <4> QED
          BY <4>1, <4>2, AtLeastBounds
    <3> QED
        BY <3>1, <3>2
  <2>3. -SetBack' <= 0 /\ 0 <= 0 + SetBack' /\ left' - 0 = left'
    <3>1. SetBack + s \in Nat
        BY <1>2
    <3>2. SetBack' \in Nat /\ left' \in Int
        BY <2>2, <3>1
    <3>3. \A b \in Nat, l \in Int : -b <= 0 /\ 0 <= 0 + b /\ l - 0 = l
        OBVIOUS
    <3> QED
        BY <3>2, <3>3
  <2> QED
      BY <1>3, <2>1, <2>2, <2>3
<1>5. CASE pc # "idle"
  <2>1. stampAge' = stampAge + d /\ left' = left
      BY <1>5 DEF ClockMoves
  <2>2. d - s <= scanTicks' - scanTicks
      BY <1>5
  <2>3. -SetBack' <= stampAge' /\ stampAge' <= scanTicks' + SetBack'
    <3>1. -(SetBack + s) <= stampAge + d
        BY <1>1, <1>2
    <3>2. \A t, k, l, b, m \in Int : t <= k + b /\ d - m <= l - k => t + d <= l + (b + m)
        OBVIOUS
    <3>3. {stampAge, scanTicks, scanTicks', SetBack, d, s} \subseteq Int
        BY <1>1, <1>2
    <3>4. stampAge <= scanTicks + SetBack
        BY <1>1
    <3>5. stampAge + d <= scanTicks' + (SetBack + s)
        BY <2>2, <3>2, <3>3, <3>4, Zenon
    <3> QED
        BY <2>1, <3>1, <3>5
  <2>4. /\ left' <= MaxInterval + SetBack'
        /\ left' - stampAge' <= MaxInterval + SetBack'
      BY <1>1, <1>2, <2>1
  <2> QED
      BY <1>1, <1>3, <1>5, <2>1, <2>3, <2>4
<1> QED
    BY <1>4, <1>5

LEMMA TickTypes == TypesInv /\ Tick => TypesInv'
<1> SUFFICES ASSUME TypesInv, Tick
             PROVE  TypesInv'
    OBVIOUS
<1>1. /\ adjusts \in 0..MaxAdjusts /\ adjusts' = adjusts /\ jumps' = jumps
      /\ scanTicks \in 0..MaxScan /\ MaxScan \in Nat /\ pc' = pc
    BY Bounds DEF TypesInv, Types, Tick
<1>2. SetBack \in Nat /\ SetBack' = SetBack + 0
  <2>1. SetBack \in Nat /\ SetBack' = SetBack
      BY <1>1, SetBackBounds, SetBackMoves
  <2> QED
      BY <2>1
<1>3. /\ scanTicks' \in 0..MaxScan
      /\ pc = "idle" => scanTicks' = 0
      /\ pc # "idle" => 1 - 0 <= scanTicks' - scanTicks
  <2>1. CASE pc = "idle"
      BY <1>1, <2>1 DEF Tick
  <2>2. CASE pc # "idle"
    <3>1. scanTicks' = scanTicks + 1 /\ scanTicks < MaxScan
        BY <2>2 DEF Tick
    <3> QED
        BY <1>1, <2>2, <3>1
  <2> QED
      BY <2>1, <2>2
<1>4. ClockMoves(1) /\ scanTicks' \in Nat
    BY <1>1, <1>3 DEF Tick
<1>5. /\ noteAge' \in Int /\ noteAge' <= MaxLimit + Slack
      /\ left' \in Int /\ -Slack <= left'
      /\ stampAge' \in Int
      /\ -SetBack' <= noteAge'
      /\ left' <= MaxInterval + SetBack'
      /\ left' - stampAge' <= MaxInterval + SetBack'
      /\ -SetBack' <= stampAge' /\ stampAge' <= scanTicks' + SetBack'
      /\ pc = "idle" => stampAge' = 0 /\ scanTicks' = 0
  <2>1. 1 \in Int /\ 0 \in Nat /\ 0 <= 1 + 0
      OBVIOUS
  <2> QED
      BY <1>2, <1>3, <1>4, <2>1, ClockMovesTypes
<1>6. elapsed' \in 0..MaxLimit /\ quiet' \in 0..MaxInterval
  <2>1. /\ elapsed + 1 \in Nat /\ quiet + 1 \in Nat
        /\ MaxLimit \in Nat /\ MaxInterval \in Nat
      BY LongestLimit, LongestInterval DEF TypesInv, Types
  <2>2. /\ AtMost(MaxLimit, elapsed + 1) \in 0..MaxLimit
        /\ AtMost(MaxInterval, quiet + 1) \in 0..MaxInterval
    <3>1. \A ceiling \in Nat, x \in Nat : AtMost(ceiling, x) \in 0..ceiling
        BY DEF AtMost
    <3> QED
        BY <2>1, <3>1
  <2>3. elapsed' \in {0, AtMost(MaxLimit, elapsed + 1)}
        /\ quiet' = AtMost(MaxInterval, quiet + 1)
      BY DEF Tick
  <2> QED
      BY <2>1, <2>2, <2>3
<1>7. Types'
    BY <1>1, <1>3, <1>5, <1>6 DEF TypesInv, Types, Tick, hook
<1>8. TimesInv'
    BY <1>1, <1>5 DEF TypesInv, TimesInv
<1> QED
    BY <1>7, <1>8 DEF TypesInv

LEMMA SetClockTypes ==
    ASSUME TypesInv, NEW d \in {-Jump, Jump}, SetClock(d)
    PROVE  TypesInv'
<1>1. /\ adjusts \in 0..MaxAdjusts /\ adjusts' = adjusts + 1 /\ adjusts < MaxAdjusts
      /\ MaxAdjusts \in Nat /\ Jump \in Nat /\ pc' = pc
      /\ scanTicks' = scanTicks /\ scanTicks \in 0..MaxScan /\ MaxScan \in Nat
    BY Bounds DEF TypesInv, Types, SetClock
<1>2. SetBack \in Nat /\ SetBack' = SetBack + Jump
    BY <1>1, SetBackBounds, SetBackMoves
<1>3. d \in Int /\ 0 <= d + Jump /\ d - Jump <= 0
    BY <1>1
<1>4. /\ ClockMoves(d) /\ scanTicks' \in Nat
      /\ pc = "idle" => scanTicks' = 0
      /\ pc # "idle" => d - Jump <= scanTicks' - scanTicks
    BY <1>1, <1>3 DEF SetClock, TypesInv, TimesInv
<1>5. /\ noteAge' \in Int /\ noteAge' <= MaxLimit + Slack
      /\ left' \in Int /\ -Slack <= left'
      /\ stampAge' \in Int
      /\ -SetBack' <= noteAge'
      /\ left' <= MaxInterval + SetBack'
      /\ left' - stampAge' <= MaxInterval + SetBack'
      /\ -SetBack' <= stampAge' /\ stampAge' <= scanTicks' + SetBack'
      /\ pc = "idle" => stampAge' = 0 /\ scanTicks' = 0
    BY <1>1, <1>2, <1>3, <1>4, ClockMovesTypes
<1>6. adjusts' \in 0..MaxAdjusts /\ jumps' \in Nat /\ jumps' <= adjusts'
  <2>1. jumps \in Nat /\ jumps <= adjusts
      BY DEF TypesInv, Types, TimesInv
  <2>2. jumps' = jumps + 1 \/ jumps' = 0
      BY DEF SetClock
  <2> QED
      BY <1>1, <2>1, <2>2
<1>7. Types'
    BY <1>1, <1>5, <1>6 DEF TypesInv, Types, SetClock, hook
<1>8. TimesInv'
    BY <1>1, <1>5, <1>6 DEF TimesInv
<1> QED
    BY <1>7, <1>8 DEF TypesInv

\* The end of a scan, for each of the ways a scan can end.
LEMMA ScanOverTypes ==
    ASSUME TypesInv, NEW deadline \in Int, ScanOver(deadline),
           deadline - stampAge <= MaxInterval + SetBack,
           hasDeadline' \in BOOLEAN, disabled' \in BOOLEAN, steady' \in BOOLEAN,
           quiet' \in 0..MaxInterval
    PROVE  TypesInv'
<1>1. /\ adjusts \in 0..MaxAdjusts /\ adjusts' = adjusts
      /\ stampAge \in Int /\ MaxScan \in Nat /\ Slack \in Nat /\ MaxInterval \in Nat
    BY Bounds, LongestInterval DEF TypesInv, Types, ScanOver
<1>2. SetBack \in Nat /\ SetBack' = SetBack
    BY <1>1, SetBackBounds, SetBackMoves
<1>3. left' \in Int /\ -Slack <= left' /\ left' <= MaxInterval + SetBack
  <2>1. /\ deadline - stampAge \in Int /\ -Slack \in Int
        /\ MaxInterval + SetBack \in Int /\ -Slack <= MaxInterval + SetBack
        /\ -Slack <= 0 /\ 0 <= MaxInterval + SetBack
      BY <1>1, <1>2
  <2>2. CASE hasDeadline'
    <3>1. left' = AtLeast(-Slack, deadline - stampAge)
        BY <2>2 DEF ScanOver
    <3> QED
        BY <2>1, <3>1, AtLeastBounds
  <2>3. CASE ~hasDeadline'
    <3>1. left' = 0
        BY <2>3 DEF ScanOver
    <3> QED
        BY <2>1, <3>1
  <2> QED
      BY <2>2, <2>3
<1>4. stampAge' = 0 /\ scanTicks' = 0 /\ 0 \in 0..MaxScan
    BY <1>1 DEF ScanOver
<1>5. Types'
  <2>1. /\ noteAge' = noteAge /\ jumps' = jumps /\ refusals' = refusals
        /\ elapsed' = elapsed
      BY DEF ScanOver, note
  <2>2. stampAge' \in Int /\ scanTicks' \in 0..MaxScan /\ adjusts' \in 0..MaxAdjusts
      BY <1>1, <1>4
  <2> QED
      BY <1>3, <2>1, <2>2 DEF TypesInv, Types, ScanOver, note
<1>6. -SetBack <= 0 /\ 0 <= 0 + SetBack /\ left' - 0 = left'
  <2>1. \A b \in Nat, l \in Int : -b <= 0 /\ 0 <= 0 + b /\ l - 0 = l
      OBVIOUS
  <2> QED
      BY <1>2, <1>3, <2>1
<1>7. TimesInv'
    BY <1>1, <1>2, <1>3, <1>4, <1>6 DEF TypesInv, TimesInv, ScanOver, note
<1> QED
    BY <1>5, <1>7 DEF TypesInv

LEMMA HookTypes ==
    ASSUME TypesInv, NothingToClear \/ FirstDeadline \/ BeforeDeadline \/ NoClear
                     \/ Clear \/ ClearFails
    PROVE  TypesInv'
<1>1. /\ left \in Int /\ left - stampAge <= MaxInterval + SetBack
      /\ stampAge \in Int /\ -SetBack <= stampAge /\ policy \in Policies
      /\ scanTicks \in Nat /\ adjusts \in 0..MaxAdjusts
    BY Bounds DEF TypesInv, Types, TimesInv
<1>2. /\ ResolveClipboardClearInterval \in Int
      /\ ResolveClipboardClearInterval - stampAge <= MaxInterval + SetBack
  <2>1. /\ ResolveClipboardClearInterval \in Nat
        /\ ResolveClipboardClearInterval <= MaxInterval
        /\ MaxInterval \in Nat /\ SetBack \in Nat
      BY <1>1, LongestInterval, SetBackBounds
  <2> QED
      BY <1>1, <2>1
<1>3. AtMost(MaxInterval, scanTicks) \in 0..MaxInterval
  <2>1. \A ceiling \in Nat, x \in Nat : AtMost(ceiling, x) \in 0..ceiling
      BY DEF AtMost
  <2> QED
      BY <1>1, <2>1, LongestInterval
<1>4. RestartQuiet => quiet' \in 0..MaxInterval /\ steady' \in BOOLEAN
    BY <1>3 DEF RestartQuiet
<1>5. /\ hasDeadline \in BOOLEAN /\ disabled \in BOOLEAN /\ steady \in BOOLEAN
      /\ quiet \in 0..MaxInterval
    BY DEF TypesInv, Types
<1>6. \A deadline \in {left, ResolveClipboardClearInterval} :
         /\ deadline \in Int
         /\ deadline - stampAge <= MaxInterval + SetBack
    BY <1>1, <1>2
<1>7. /\ \E deadline \in {left, ResolveClipboardClearInterval} : ScanOver(deadline)
      /\ hasDeadline' \in BOOLEAN /\ disabled' \in BOOLEAN
      /\ RestartQuiet \/ UNCHANGED <<quiet, steady>>
    BY <1>5 DEF NothingToClear, ForgetDeadline, FirstDeadline, BeforeDeadline, NotYet,
       NoClear, Clear, ClearFails, DeadlinePassed
<1> QED
    BY <1>4, <1>5, <1>6, <1>7, ScanOverTypes

LEMMA EmitTypes == TypesInv /\ (Emit \/ Suppress) => TypesInv'
<1> SUFFICES ASSUME TypesInv, Emit \/ Suppress
             PROVE  TypesInv'
    OBVIOUS
<1>1. /\ adjusts \in 0..MaxAdjusts /\ adjusts' = adjusts /\ left' = left
      /\ stampAge' = stampAge /\ scanTicks' = scanTicks
    BY DEF TypesInv, Types, Emit, Suppress, clock
<1>2. SetBack \in Nat /\ SetBack' = SetBack
    BY <1>1, SetBackBounds, SetBackMoves
<1>3. /\ 0 <= MaxLimit + Slack /\ 0 \in 0..MaxLimit /\ 0 \in 0..MaxRefusals
      /\ MaxRefusals \in Nat /\ -SetBack <= 0 /\ 0 <= adjusts
    BY <1>1, <1>2, Bounds, LongestLimit
<1>4. CASE Emit
  <2>1. noteAge' = 0 /\ jumps' = 0 /\ refusals' = 0 /\ elapsed' = 0
      BY <1>4 DEF Emit, RememberNotification
  <2>2. Types'
    <3>1. /\ noteAge' \in Int /\ noteAge' <= MaxLimit + Slack /\ jumps' \in Nat
          /\ refusals' \in 0..MaxRefusals /\ elapsed' \in 0..MaxLimit
        BY <1>3, <2>1
    <3> QED
        BY <1>4, <3>1 DEF TypesInv, Types, Emit, RememberNotification, hook, clock
  <2>3. TimesInv'
      BY <1>1, <1>2, <1>3, <1>4, <2>1 DEF TypesInv, TimesInv, Emit
  <2> QED
      BY <2>2, <2>3 DEF TypesInv
<1>5. CASE Suppress
  <2>1. refusals' \in 0..MaxRefusals
    <3>1. \A ceiling \in Nat, x \in Nat : AtMost(ceiling, x) \in 0..ceiling
        BY DEF AtMost
    <3>2. refusals \in 0..MaxRefusals /\ refusals + 1 \in Nat
        BY DEF TypesInv, Types
    <3> QED
        BY <1>3, <1>5, <3>1, <3>2 DEF Suppress
  <2>2. Types'
      BY <1>5, <2>1 DEF TypesInv, Types, Suppress, hook, clock
  <2>3. TimesInv'
      BY <1>1, <1>2, <1>5 DEF TypesInv, TimesInv, Suppress
  <2> QED
      BY <2>2, <2>3 DEF TypesInv
<1> QED
    BY <1>4, <1>5

LEMMA TypesStep == TypesInv /\ [Next]_vars => TypesInv'
<1> SUFFICES ASSUME TypesInv, [Next]_vars
             PROVE  TypesInv'
    OBVIOUS
<1>1. ASSUME UNCHANGED <<noteAge, left, stampAge, scanTicks, jumps, adjusts>>,
             pc = "idle" \/ pc' # "idle"
      PROVE  TimesInv'
  <2>1. SetBack' = SetBack
      BY <1>1, SetBackMoves DEF TypesInv, Types
  <2> QED
      BY <1>1, <2>1 DEF TypesInv, TimesInv
<1>2. ASSUME NEW q \in Policies, Reload(q)
      PROVE  TypesInv'
  <2>1. Types'
      BY <1>2 DEF TypesInv, Types, Reload, note, clock
  <2> QED
      BY <1>1, <1>2, <2>1 DEF TypesInv, TimesInv, Reload, note, clock
<1>3. CASE ScanBegins \/ EmitNotificationIfAllowed
  <2>1. Types'
      BY <1>3 DEF TypesInv, Types, ScanBegins, EmitNotificationIfAllowed, note, clock,
         hook
  <2> QED
      BY <1>1, <1>3, <2>1 DEF TypesInv, ScanBegins, EmitNotificationIfAllowed, note,
         clock
<1>4. CASE HookBegins \/ ReadDebugMode
  <2>1. policy \in Policies /\ policy.clear \in BOOLEAN /\ policy.debug \in BOOLEAN
      BY TimerAssumption DEF TypesInv, Types
  <2>2. Types'
      BY <1>4, <2>1 DEF TypesInv, Types, HookBegins, ReadDebugMode, note, clock
  <2> QED
      BY <1>1, <1>4, <2>2 DEF TypesInv, HookBegins, ReadDebugMode, note, clock
<1>5. CASE UNCHANGED vars
  <2>1. Types'
      BY <1>5 DEF TypesInv, Types, vars, note, clock, hook
  <2>2. SetBack' = SetBack
      BY <1>5, SetBackMoves DEF TypesInv, Types, vars
  <2>3. TimesInv'
      BY <1>5, <2>2 DEF TypesInv, TimesInv, vars, note, clock
  <2> QED
      BY <2>1, <2>3 DEF TypesInv
<1> QED
    BY <1>2, <1>3, <1>4, <1>5, TickTypes, SetClockTypes, EmitTypes, HookTypes
    DEF Next, Environment, Work

(***************************************************************************)
(* No counter and no difference leaves its range: a deadline is never      *)
(* further away than the longest interval and what the clock was set back. *)
(***************************************************************************)
THEOREM TimersTypeCorrect == Spec => []TypeOK
<1>1. TypesInv => TypeOK
  <2> SUFFICES ASSUME TypesInv
               PROVE  TypeOK
      OBVIOUS
  <2>1. /\ adjusts \in 0..MaxAdjusts /\ scanTicks \in 0..MaxScan /\ MaxScan \in Nat
        /\ noteAge \in Int /\ left \in Int /\ stampAge \in Int /\ jumps \in Nat
        /\ MaxAdjusts \in Nat
      BY Bounds DEF TypesInv, Types
  <2>2. SetBack \in Nat /\ SetBack <= Slack /\ Slack \in Nat
      BY <2>1, SetBackBounds, Bounds
  <2>3. MaxLimit \in Nat /\ MaxInterval \in Nat
      BY LongestLimit, LongestInterval
  <2>4. noteAge \in -Slack..(MaxLimit + Slack)
      BY <2>1, <2>2, <2>3 DEF TypesInv, Types, TimesInv
  <2>5. left \in -Slack..(MaxInterval + Slack)
      BY <2>1, <2>2, <2>3 DEF TypesInv, Types, TimesInv
  <2>6. stampAge \in -Slack..(MaxScan + Slack)
      BY <2>1, <2>2 DEF TypesInv, TimesInv
  <2>7. jumps \in 0..MaxAdjusts
      BY <2>1 DEF TypesInv, TimesInv
  <2> QED
      BY <2>4, <2>5, <2>6, <2>7 DEF TypesInv, Types, TypeOK
<1> QED
    BY <1>1, TypesInit, TypesStep, PTL DEF Spec

-----------------------------------------------------------------------------
(***************************************************************************)
(* The notifications.  What was refused since the last one is at most the  *)
(* longest limit for each adjustment, and what has passed of the limit     *)
(* since: the tick under way included, when it has refused one.            *)
(***************************************************************************)
Passed == IF refused THEN noteAge + 1 ELSE noteAge

Grant == AtMost(MaxLimit, AtLeast(0, Passed))

NoteInv ==
    /\ ~hasNote => noteAge = 0 /\ jumps = 0 /\ refusals = 0
    /\ refusals <= jumps * MaxLimit + Grant
    /\ hasNote /\ jumps = 0 => noteAge >= 0 /\ (elapsed >= noteAge \/ elapsed = MaxLimit)

LEMMA ClampBounds ==
    \A c, x, y \in Int : c >= 0 =>
        /\ AtMost(c, AtLeast(0, x)) \in 0..c
        /\ x <= y => AtMost(c, AtLeast(0, x)) <= AtMost(c, AtLeast(0, y))
        /\ y >= c => AtMost(c, AtLeast(0, y)) = c
        /\ 0 <= x /\ x < c => AtMost(c, AtLeast(0, x + 1)) = AtMost(c, AtLeast(0, x)) + 1
BY DEF AtMost, AtLeast

LEMMA GrantBounds ==
    ASSUME Types
    PROVE  Passed \in Int /\ Grant \in 0..MaxLimit /\ jumps * MaxLimit \in Nat
<1>1. Passed \in Int
    BY DEF Types, Passed
<1>2. MaxLimit \in Int /\ MaxLimit >= 0 /\ jumps \in Nat
    BY LongestLimit DEF Types
<1> QED
    BY <1>1, <1>2, ClampBounds DEF Grant

\* A tick refuses nothing, and what it takes from the tick under way it adds
\* to the age.
LEMMA NoteTick == TypesInv /\ NoteInv /\ Tick => NoteInv'
<1> SUFFICES ASSUME TypesInv, NoteInv, Tick
             PROVE  NoteInv'
    OBVIOUS
<1>1. /\ hasNote' = hasNote /\ jumps' = jumps /\ refusals' = refusals
      /\ refused' = FALSE /\ refused \in BOOLEAN
    BY DEF Tick, TypesInv, Types
<1>2. /\ noteAge \in Int /\ noteAge + 1 \in Int /\ MaxLimit \in Nat /\ Slack \in Nat
      /\ jumps \in Nat /\ refusals \in Nat /\ elapsed \in 0..MaxLimit
    BY LongestLimit, Bounds DEF TypesInv, Types
<1>3. CASE ~hasNote
  <2>1. noteAge' = 0 /\ refusals' = 0 /\ jumps' = 0 /\ Passed' = 0
      BY <1>1, <1>3 DEF Tick, ClockMoves, NoteInv, Passed
  <2>2. jumps' * MaxLimit = 0 /\ 0 \in Int /\ MaxLimit \in Int /\ MaxLimit >= 0
      BY <1>2, <2>1
  <2>3. Grant' = AtMost(MaxLimit, AtLeast(0, 0))
      BY <2>1 DEF Grant
  <2>4. Grant' \in 0..MaxLimit
      BY <2>2, <2>3, ClampBounds
  <2>5. refusals' <= jumps' * MaxLimit + Grant'
    <3>1. \A g \in Nat : 0 <= 0 + g
        OBVIOUS
    <3>2. Grant' \in Nat
        BY <1>2, <2>4
    <3> QED
        BY <2>1, <2>2, <3>1, <3>2
  <2> QED
      BY <1>1, <1>3, <2>1, <2>5 DEF NoteInv
<1>4. CASE hasNote
  <2>1. /\ noteAge' = AtMost(MaxLimit + Slack, noteAge + 1)
        /\ elapsed' = AtMost(MaxLimit, elapsed + 1)
      BY <1>4 DEF Tick, ClockMoves
  <2>2. Passed' = AtMost(MaxLimit + Slack, noteAge + 1)
      BY <1>1, <2>1 DEF Passed
  <2>3. Passed \in Int /\ Passed <= noteAge + 1
    <3>1. CASE refused
        BY <1>2, <3>1 DEF Passed
    <3>2. CASE ~refused
        BY <1>2, <3>2 DEF Passed
    <3> QED
        BY <3>1, <3>2
  <2>4. Grant \in Int /\ Grant' \in Int /\ Grant <= Grant'
    <3>1. CASE noteAge + 1 <= MaxLimit + Slack
      <4>1. Passed' = noteAge + 1
          BY <1>2, <2>2, <3>1 DEF AtMost
      <4>2. Passed' \in Int /\ Passed <= Passed' /\ MaxLimit \in Int /\ MaxLimit >= 0
          BY <1>2, <2>3, <4>1
      <4>3. Grant \in 0..MaxLimit /\ Grant' \in 0..MaxLimit
          BY <2>3, <4>2, ClampBounds DEF Grant
      <4>4. Grant <= Grant'
          BY <2>3, <4>2, ClampBounds DEF Grant
      <4> QED
          BY <1>2, <4>3, <4>4
    <3>2. CASE ~(noteAge + 1 <= MaxLimit + Slack)
      <4>1. Passed' = MaxLimit + Slack
          BY <1>2, <2>2, <3>2 DEF AtMost
      <4>2. Passed' \in Int /\ Passed' >= MaxLimit /\ MaxLimit \in Int /\ MaxLimit >= 0
          BY <1>2, <4>1
      <4>3. Grant' = MaxLimit /\ Grant \in 0..MaxLimit
          BY <2>3, <4>2, ClampBounds DEF Grant
      <4> QED
          BY <1>2, <4>3
    <3> QED
        BY <3>1, <3>2
  <2>5. refusals' <= jumps' * MaxLimit + Grant'
    <3>1. refusals <= jumps * MaxLimit + Grant
        BY DEF NoteInv
    <3>2. jumps * MaxLimit \in Int /\ jumps' * MaxLimit = jumps * MaxLimit
        BY <1>1, GrantBounds DEF TypesInv
    <3>3. \A r, p, g, h \in Int : r <= p + g /\ g <= h => r <= p + h
        OBVIOUS
    <3>4. refusals \in Int
        BY <1>2
    <3>5. refusals <= jumps * MaxLimit + Grant'
        BY <2>4, <3>1, <3>2, <3>3, <3>4, Zenon
    <3> QED
        BY <1>1, <3>2, <3>5
  <2>6. jumps = 0 => noteAge' >= 0 /\ (elapsed' >= noteAge' \/ elapsed' = MaxLimit)
    <3>1. ASSUME jumps = 0
          PROVE  noteAge >= 0 /\ (elapsed >= noteAge \/ elapsed = MaxLimit)
        BY <1>4, <3>1 DEF NoteInv
    <3>2. \A n, e, m, k \in Nat : e <= m /\ (e >= n \/ e = m) =>
             /\ AtMost(m + k, n + 1) >= 0
             /\ AtMost(m, e + 1) >= AtMost(m + k, n + 1) \/ AtMost(m, e + 1) = m
        BY DEF AtMost
    <3>3. ASSUME jumps = 0
          PROVE  noteAge \in Nat /\ elapsed \in Nat /\ elapsed <= MaxLimit
        BY <1>2, <3>1, <3>3
    <3> QED
        BY <1>2, <2>1, <3>1, <3>2, <3>3
  <2> QED
      BY <1>1, <1>4, <2>5, <2>6 DEF NoteInv
<1> QED
    BY <1>3, <1>4

\* The grant is a natural number in every state, the next one included.
LEMMA GrantNext ==
    ASSUME Types'
    PROVE  Grant' \in 0..MaxLimit
<1>1. noteAge' \in Int /\ noteAge' + 1 \in Int
    BY DEF Types
<1>2. Passed' \in Int
    BY <1>1 DEF Passed
<1>3. MaxLimit \in Int /\ MaxLimit >= 0
    BY LongestLimit
<1> QED
    BY <1>2, <1>3, ClampBounds DEF Grant

LEMMA NoteEmpty ==
    ASSUME Types', refusals' = 0, jumps' = 0
    PROVE  refusals' <= jumps' * MaxLimit + Grant'
<1>1. MaxLimit \in Nat /\ Grant' \in Nat
    BY GrantNext, LongestLimit
<1>2. jumps' * MaxLimit = 0
    BY <1>1
<1>3. \A g \in Nat : 0 <= 0 + g
    OBVIOUS
<1> QED
    BY <1>1, <1>2, <1>3

\* An adjustment grants the longest limit once more.
LEMMA NoteSetClock ==
    ASSUME TypesInv, NoteInv, NEW d \in {-Jump, Jump}, SetClock(d)
    PROVE  NoteInv'
<1>1. hasNote' = hasNote /\ refusals' = refusals
    BY DEF SetClock
<1>2. Types /\ Types'
    BY SetClockTypes DEF TypesInv
<1>3. CASE ~hasNote
  <2>1. noteAge' = 0 /\ refusals' = 0 /\ jumps' = 0
      BY <1>1, <1>3 DEF SetClock, ClockMoves, NoteInv
  <2> QED
      BY <1>1, <1>2, <1>3, <2>1, NoteEmpty DEF NoteInv
<1>4. CASE hasNote
  <2>1. jumps' = jumps + 1 /\ jumps \in Nat /\ MaxLimit \in Nat /\ refusals \in Int
      BY <1>2, <1>4, LongestLimit, Bounds DEF SetClock, Types
  <2>2. jumps' * MaxLimit = jumps * MaxLimit + MaxLimit /\ jumps' # 0
    <3>1. \A j, m \in Nat : (j + 1) * m = j * m + m /\ j + 1 # 0
        OBVIOUS
    <3> QED
        BY <2>1, <3>1
  <2>3. refusals <= jumps * MaxLimit + Grant
      BY DEF NoteInv
  <2>4. Grant \in 0..MaxLimit /\ Grant' \in 0..MaxLimit /\ jumps * MaxLimit \in Nat
    <3>1. Grant \in 0..MaxLimit /\ jumps * MaxLimit \in Nat
        BY <1>2, GrantBounds
    <3>2. Grant' \in 0..MaxLimit
        BY <1>2, GrantNext
    <3> QED
        BY <3>1, <3>2
  <2>5. \A r, p, m, g, h \in Int :
         g <= m /\ 0 <= h /\ r <= p + g => r <= p + m + h
      OBVIOUS
  <2>6. refusals <= jumps * MaxLimit + MaxLimit + Grant'
    <3>1. /\ refusals \in Int /\ jumps * MaxLimit \in Int /\ MaxLimit \in Int
          /\ Grant \in Int /\ Grant' \in Int
          /\ Grant <= MaxLimit /\ 0 <= Grant'
        BY <2>1, <2>4
    <3> QED
        BY <2>3, <2>5, <3>1, Zenon
  <2>7. refusals' <= jumps' * MaxLimit + Grant'
      BY <1>1, <2>2, <2>6
  <2> QED
      BY <1>1, <1>4, <2>2, <2>7 DEF NoteInv
<1> QED
    BY <1>3, <1>4

\* Nothing is refused at an age at which the longest limit has passed.
LEMMA NoteSuppress == TypesInv /\ NoteInv /\ Suppress => NoteInv'
<1> SUFFICES ASSUME TypesInv, NoteInv, Suppress
             PROVE  NoteInv'
    OBVIOUS
<1>1. /\ hasNote' = hasNote /\ hasNote /\ noteAge' = noteAge /\ jumps' = jumps
      /\ elapsed' = elapsed /\ refused' = TRUE
      /\ ~(noteAge < 0) /\ ~(noteAge >= ResolveNotificationRateLimit)
    BY DEF Suppress, ShouldEmitNotification
<1>2. /\ noteAge \in Int /\ jumps \in Nat /\ refusals \in Nat /\ refused \in BOOLEAN
      /\ policy \in Policies /\ MaxRefusals \in Nat /\ MaxLimit \in Int /\ MaxLimit >= 0
    BY Bounds, LongestLimit DEF TypesInv, Types
<1>3. 0 <= noteAge /\ noteAge < MaxLimit
  <2>1. ResolveNotificationRateLimit \in 1..MaxLimit
      BY <1>2, LongestLimit
  <2> QED
      BY <1>1, <1>2, <2>1
<1>4. refusals <= jumps * MaxLimit + Grant
    BY DEF NoteInv
<1>5. Passed' = noteAge + 1
    BY <1>1 DEF Passed
<1>6. CASE refused
  <2>1. Grant' = Grant
      BY <1>5, <1>6 DEF Grant, Passed
  <2>2. refusals' = refusals
      BY <1>6 DEF Suppress
  <2> QED
      BY <1>1, <1>4, <2>1, <2>2 DEF NoteInv
<1>7. CASE ~refused
  <2>1. Passed = noteAge
      BY <1>7 DEF Passed
  <2>2. Grant' = Grant + 1
      BY <1>2, <1>3, <1>5, <2>1, ClampBounds DEF Grant
  <2>3. refusals' = AtMost(MaxRefusals, refusals + 1)
      BY <1>7 DEF Suppress
  <2>4. refusals' \in Int /\ refusals' <= refusals + 1
    <3>1. \A ceiling, x \in Nat :
             AtMost(ceiling, x + 1) \in Int /\ AtMost(ceiling, x + 1) <= x + 1
        BY DEF AtMost
    <3> QED
        BY <1>2, <2>3, <3>1
  <2>5. Grant \in Int /\ jumps * MaxLimit \in Int
    <3>1. Grant \in 0..MaxLimit /\ jumps * MaxLimit \in Nat
        BY GrantBounds DEF TypesInv
    <3> QED
        BY <1>2, <3>1
  <2>6. \A r, q, p, g \in Int : r <= p + g /\ q <= r + 1 => q <= p + (g + 1)
      OBVIOUS
  <2>7. refusals \in Int
      BY <1>2
  <2>8. refusals' <= jumps * MaxLimit + (Grant + 1)
      BY <1>4, <2>4, <2>5, <2>6, <2>7, Zenon
  <2> QED
      BY <1>1, <1>4, <2>2, <2>8 DEF NoteInv
<1> QED
    BY <1>2, <1>6, <1>7

LEMMA NoteEmit == TypesInv /\ NoteInv /\ Emit => NoteInv'
<1> SUFFICES ASSUME TypesInv, NoteInv, Emit
             PROVE  NoteInv'
    OBVIOUS
<1>1. Types'
    BY EmitTypes DEF TypesInv
<1>2. hasNote' = TRUE /\ noteAge' = 0 /\ elapsed' = 0 /\ jumps' = 0 /\ refusals' = 0
    BY DEF Emit, RememberNotification
<1>3. refusals' <= jumps' * MaxLimit + Grant'
    BY <1>1, <1>2, NoteEmpty
<1> QED
    BY <1>2, <1>3 DEF NoteInv

LEMMA NoteStep == TypesInv /\ NoteInv /\ [Next]_vars => NoteInv'
<1> SUFFICES ASSUME TypesInv, NoteInv, [Next]_vars
             PROVE  NoteInv'
    OBVIOUS
<1>1. ASSUME UNCHANGED note
      PROVE  NoteInv'
    BY <1>1 DEF NoteInv, Grant, Passed, note
<1>2. ASSUME NEW q \in Policies, Reload(q)
      PROVE  UNCHANGED note
    BY <1>2 DEF Reload
<1>3. CASE ScanBegins \/ EmitNotificationIfAllowed \/ HookBegins \/ ReadDebugMode
           \/ UNCHANGED vars
    BY <1>1, <1>3 DEF ScanBegins, EmitNotificationIfAllowed, HookBegins, ReadDebugMode,
       vars
<1>4. CASE NothingToClear \/ FirstDeadline \/ BeforeDeadline \/ NoClear \/ Clear
           \/ ClearFails
    BY <1>1, <1>4 DEF NothingToClear, FirstDeadline, BeforeDeadline, NotYet, NoClear,
       Clear, ClearFails, DeadlinePassed, ScanOver
<1> QED
    BY <1>1, <1>2, <1>3, <1>4, NoteTick, NoteSetClock, NoteSuppress, NoteEmit
    DEF Next, Environment, Work

LEMMA NoteInit == Init => NoteInv
<1> SUFFICES ASSUME Init
             PROVE  NoteInv
    OBVIOUS
<1>1. Types
    BY TypesInit DEF TypesInv
<1>2. hasNote = FALSE /\ noteAge = 0 /\ jumps = 0 /\ refusals = 0
    BY DEF Init
<1>3. Grant \in Nat /\ MaxLimit \in Nat
    BY <1>1, GrantBounds, LongestLimit
<1>4. jumps * MaxLimit = 0
    BY <1>2, <1>3
<1>5. \A g \in Nat : 0 <= 0 + g
    OBVIOUS
<1>6. refusals <= jumps * MaxLimit + Grant
    BY <1>2, <1>3, <1>4, <1>5
<1> QED
    BY <1>2, <1>6 DEF NoteInv

(***************************************************************************)
(* A clock set back does not silence the notifications: however often and  *)
(* however far, each adjustment costs at most the longest limit.           *)
(***************************************************************************)
THEOREM SilenceEnds == Spec => []SilenceIsShort
<1>1. TypesInv /\ NoteInv => SilenceIsShort
  <2> SUFFICES ASSUME TypesInv, NoteInv
               PROVE  SilenceIsShort
      OBVIOUS
  <2>1. refusals <= jumps * MaxLimit + Grant
      BY DEF NoteInv
  <2>2. refusals \in Int /\ jumps \in Nat /\ MaxLimit \in Nat
      BY Bounds, LongestLimit DEF TypesInv, Types
  <2>3. Grant \in 0..MaxLimit /\ jumps * MaxLimit \in Nat
      BY GrantBounds DEF TypesInv
  <2>4. (jumps + 1) * MaxLimit = jumps * MaxLimit + MaxLimit
    <3>1. \A j, m \in Nat : (j + 1) * m = j * m + m
        OBVIOUS
    <3> QED
        BY <2>2, <3>1
  <2>5. \A r, p, m, g \in Int : g <= m /\ r <= p + g => r <= p + m
      OBVIOUS
  <2>6. refusals <= jumps * MaxLimit + MaxLimit
      BY <2>1, <2>2, <2>3, <2>5
  <2> QED
      BY <2>4, <2>6 DEF SilenceIsShort
<1> QED
    BY <1>1, TypesInit, TypesStep, NoteInit, NoteStep, PTL DEF Spec

(***************************************************************************)
(* Two notifications are at least the limit in force apart, in real time,  *)
(* unless the clock was set in between.                                    *)
(***************************************************************************)
THEOREM NotificationsSpaced == Spec => SpacedNotifications
<1>1. ASSUME TypesInv, NoteInv, Emit, hasNote, jumps = 0
      PROVE  elapsed >= ResolveNotificationRateLimit
  <2>1. /\ noteAge >= 0 /\ (elapsed >= noteAge \/ elapsed = MaxLimit)
        /\ noteAge < 0 \/ noteAge >= ResolveNotificationRateLimit
      BY <1>1 DEF NoteInv, Emit, ShouldEmitNotification
  <2>2. /\ noteAge \in Int /\ elapsed \in Int /\ MaxLimit \in Int
        /\ policy \in Policies
      BY <1>1, LongestLimit DEF TypesInv, Types
  <2>3. ResolveNotificationRateLimit \in 1..MaxLimit
      BY <2>2, LongestLimit
  <2>4. \A n, e, m, r \in Int :
           /\ n >= 0 /\ (e >= n \/ e = m) /\ r <= m
           /\ n < 0 \/ n >= r
           => e >= r
      OBVIOUS
  <2> QED
      BY <2>1, <2>2, <2>3, <2>4
<1>2. TypesInv /\ NoteInv /\ [Next]_vars
         => [Emit /\ hasNote /\ jumps = 0 => elapsed >= ResolveNotificationRateLimit]_vars
    BY <1>1
<1> QED
    BY <1>2, TypesInit, TypesStep, NoteInit, NoteStep, PTL DEF Spec, SpacedNotifications

-----------------------------------------------------------------------------
(***************************************************************************)
(* The clipboard.  What the hook has read, some policy since it began has  *)
(* said.                                                                   *)
(***************************************************************************)
RulesInv ==
    /\ pc \in {"hook", "due"} => policy \in rules
    /\ clearRead => \E q \in rules : q.clear
    /\ pc = "due" /\ ~debugRead => \E q \in rules : ~q.debug

LEMMA RulesStep == RulesInv /\ [Next]_vars => RulesInv'
<1> SUFFICES ASSUME RulesInv, [Next]_vars
             PROVE  RulesInv'
    OBVIOUS
<1> USE DEF RulesInv
<1>1. ASSUME NEW q \in Policies, Reload(q)
      PROVE  RulesInv'
    BY <1>1 DEF Reload
<1>2. CASE Tick \/ \E d \in {-Jump, Jump} : SetClock(d)
    BY <1>2 DEF Tick, SetClock, hook
<1>3. CASE ScanBegins \/ EmitNotificationIfAllowed \/ Emit \/ Suppress
    BY <1>3 DEF ScanBegins, EmitNotificationIfAllowed, Emit, Suppress, hook
<1>4. CASE HookBegins
    BY <1>4 DEF HookBegins
<1>5. CASE ReadDebugMode
    BY <1>5 DEF ReadDebugMode
<1>6. CASE NothingToClear \/ FirstDeadline \/ BeforeDeadline \/ NoClear \/ Clear
           \/ ClearFails
  <2>1. clearRead' = FALSE /\ pc' = "idle"
      BY <1>6 DEF NothingToClear, FirstDeadline, BeforeDeadline, NotYet, NoClear, Clear,
         ClearFails, DeadlinePassed, ScanOver
  <2> QED
      BY <2>1
<1>7. CASE UNCHANGED vars
    BY <1>7 DEF vars, hook
<1> QED
    BY <1>1, <1>2, <1>3, <1>4, <1>5, <1>6, <1>7 DEF Next, Environment, Work

(***************************************************************************)
(* The clipboard is cleared only if, since the hook began, some policy     *)
(* asked for it and some policy was not in debug mode, and never again     *)
(* after a clear that failed.                                              *)
(***************************************************************************)
THEOREM ClearsAreLicensed == Spec => ClearIsLicensed
<1>1. Init => RulesInv
    BY DEF Init, RulesInv
<1>2. ASSUME RulesInv, Clear \/ ClearFails
      PROVE  (\E q \in rules : q.clear) /\ (\E q \in rules : ~q.debug) /\ ~disabled
    BY <1>2 DEF RulesInv, Clear, ClearFails, MayClear, DeadlinePassed, ScanOver
<1>3. RulesInv /\ [Next]_vars
         => [Clear \/ ClearFails => /\ \E q \in rules : q.clear
                                    /\ \E q \in rules : ~q.debug
                                    /\ ~disabled]_vars
    BY <1>2
<1> QED
    BY <1>1, <1>3, RulesStep, PTL DEF Spec, ClearIsLicensed

(***************************************************************************)
(* As long as the clock is not set, a scan knows its age, the clipboard    *)
(* has been quiet since before the scan, and the deadline lies at least    *)
(* the least interval after the beginning of that time.                    *)
(***************************************************************************)
QuietInv ==
    /\ steady => stampAge = scanTicks
    /\ quiet >= scanTicks \/ quiet >= MinInterval
    /\ steady /\ hasDeadline =>
          quiet >= MinInterval \/ quiet + left - stampAge >= MinInterval

\* The numbers the proof reckons with.
LEMMA QuietTypes ==
    ASSUME TypesInv
    PROVE  /\ quiet \in 0..MaxInterval /\ left \in Int /\ stampAge \in Int
           /\ scanTicks \in Nat /\ Slack \in Nat /\ policy \in Policies
           /\ MinInterval \in Nat /\ MaxInterval \in Nat /\ MinInterval <= MaxInterval
           /\ steady \in BOOLEAN /\ hasDeadline \in BOOLEAN
BY Bounds, LongestInterval DEF TypesInv, Types

LEMMA QuietTick == TypesInv /\ QuietInv /\ Tick => QuietInv'
<1> SUFFICES ASSUME TypesInv, QuietInv, Tick
             PROVE  QuietInv'
    OBVIOUS
<1>1. /\ quiet \in 0..MaxInterval /\ left \in Int /\ stampAge \in Int
      /\ scanTicks \in Nat /\ Slack \in Nat
      /\ MinInterval \in Nat /\ MaxInterval \in Nat /\ MinInterval <= MaxInterval
    BY QuietTypes
<1>2. /\ steady' = steady /\ hasDeadline' = hasDeadline
      /\ quiet' = AtMost(MaxInterval, quiet + 1)
    BY DEF Tick, hook
<1>3. quiet' \in Nat /\ (quiet' = quiet + 1 \/ quiet' >= MinInterval)
  <2>1. \A c, q \in Nat : AtMost(c, q + 1) \in Nat
                          /\ (AtMost(c, q + 1) = q + 1 \/ AtMost(c, q + 1) = c)
      BY DEF AtMost
  <2>2. quiet \in Nat
      BY <1>1
  <2>3. quiet' \in Nat /\ (quiet' = quiet + 1 \/ quiet' = MaxInterval)
      BY <1>1, <1>2, <2>1, <2>2
  <2> QED
      BY <1>1, <2>3
<1>4. CASE quiet' >= MinInterval
  <2>1. steady => stampAge' = scanTicks'
    <3>1. CASE pc = "idle"
        BY <3>1 DEF TypesInv, TimesInv, Tick, ClockMoves
    <3>2. CASE pc # "idle"
        BY <3>2 DEF QuietInv, Tick, ClockMoves
    <3> QED
        BY <3>1, <3>2
  <2> QED
      BY <1>2, <1>4, <2>1 DEF QuietInv
<1>5. CASE quiet' = quiet + 1 /\ ~(quiet >= MinInterval)
  <2>1. /\ steady => stampAge = scanTicks
        /\ quiet >= scanTicks
        /\ steady /\ hasDeadline => quiet + left - stampAge >= MinInterval
      BY <1>5 DEF QuietInv
  <2>2. CASE pc = "idle"
    <3>1. stampAge' = 0 /\ scanTicks' = 0 /\ stampAge = 0
        BY <2>2 DEF TypesInv, TimesInv, Tick, ClockMoves
    <3>2. quiet' >= scanTicks'
        BY <1>3, <3>1
    <3>3. ASSUME steady, hasDeadline
          PROVE  quiet' + left' - stampAge' >= MinInterval
      <4>1. left' = AtLeast(-Slack, left - 1)
          BY <2>2, <3>3 DEF Tick, ClockMoves
      <4>2. left' \in Int /\ left' >= left - 1
          BY <1>1, <4>1, AtLeastBounds
      <4>3. quiet + left - 0 >= MinInterval
          BY <2>1, <3>1, <3>3
      <4>4. \A q, l, k, m \in Int : k >= l - 1 /\ q + l - 0 >= m => (q + 1) + k - 0 >= m
          OBVIOUS
      <4>5. quiet \in Int /\ MinInterval \in Int
          BY <1>1
      <4>6. (quiet + 1) + left' - 0 >= MinInterval
          BY <1>1, <4>2, <4>3, <4>4, <4>5, Zenon
      <4> QED
          BY <1>5, <3>1, <4>6
    <3> QED
        BY <1>2, <3>1, <3>2, <3>3 DEF QuietInv
  <2>3. CASE pc # "idle"
    <3>1. stampAge' = stampAge + 1 /\ scanTicks' = scanTicks + 1 /\ left' = left
        BY <2>3 DEF Tick, ClockMoves
    <3>2. quiet' >= scanTicks'
        BY <1>1, <1>5, <2>1, <3>1
    <3>3. steady /\ hasDeadline => quiet' + left' - stampAge' >= MinInterval
        BY <1>1, <1>5, <2>1, <3>1
    <3> QED
        BY <1>2, <2>1, <3>1, <3>2, <3>3 DEF QuietInv
  <2> QED
      BY <2>2, <2>3
<1>6. CASE quiet' = quiet + 1 /\ quiet >= MinInterval
  <2>1. quiet' >= MinInterval
      BY <1>1, <1>6
  <2> QED
      BY <1>4, <2>1
<1> QED
    BY <1>3, <1>4, <1>5, <1>6

\* A scan that ends without clearing: if the deadline it leaves was far enough
\* from the scan's beginning it is far enough from its end.
LEMMA QuietScanOver ==
    ASSUME TypesInv, QuietInv, NEW deadline \in Int, ScanOver(deadline),
           UNCHANGED <<quiet, steady>>,
           steady => quiet >= MinInterval \/ quiet + deadline - stampAge >= MinInterval
    PROVE  QuietInv'
<1>1. /\ quiet \in 0..MaxInterval /\ stampAge \in Int /\ Slack \in Nat
      /\ MinInterval \in Nat /\ MaxInterval \in Nat
    BY QuietTypes
<1>2. stampAge' = 0 /\ scanTicks' = 0
    BY DEF ScanOver
<1>3. quiet' >= scanTicks'
    BY <1>1, <1>2
<1>4. ASSUME steady', hasDeadline', ~(quiet' >= MinInterval)
      PROVE  quiet' + left' - stampAge' >= MinInterval
  <2>1. left' = AtLeast(-Slack, deadline - stampAge)
      BY <1>4 DEF ScanOver
  <2>2. left' \in Int /\ left' >= deadline - stampAge
      BY <1>1, <2>1, AtLeastBounds
  <2>3. quiet + deadline - stampAge >= MinInterval
      BY <1>4
  <2>4. \A q, d, a, k, m \in Int : k >= d - a /\ q + d - a >= m => q + k - 0 >= m
      OBVIOUS
  <2>5. quiet \in Int /\ MinInterval \in Int
      BY <1>1
  <2>6. quiet + left' - 0 >= MinInterval
      BY <1>1, <2>2, <2>3, <2>4, <2>5, Zenon
  <2> QED
      BY <1>2, <2>6
<1> QED
    BY <1>2, <1>3, <1>4 DEF QuietInv

\* A scan that clears, or has nothing to clear: the quiet time is its own.
LEMMA QuietRestarts ==
    ASSUME TypesInv, QuietInv, NEW deadline \in Int, ScanOver(deadline), RestartQuiet,
           hasDeadline' => deadline >= MinInterval
    PROVE  QuietInv'
<1>1. /\ stampAge \in Int /\ Slack \in Nat /\ scanTicks \in Nat
      /\ MinInterval \in Nat /\ MaxInterval \in Nat /\ MinInterval <= MaxInterval
    BY QuietTypes
<1>2. stampAge' = 0 /\ scanTicks' = 0
    BY DEF ScanOver
<1>3. quiet' \in Nat /\ (quiet' = scanTicks \/ quiet' = MaxInterval)
  <2>1. \A c, t \in Nat : AtMost(c, t) \in Nat /\ (AtMost(c, t) = t \/ AtMost(c, t) = c)
      BY DEF AtMost
  <2> QED
      BY <1>1, <2>1 DEF RestartQuiet
<1>4. quiet' >= scanTicks'
    BY <1>2, <1>3
<1>5. ASSUME steady', hasDeadline', ~(quiet' >= MinInterval)
      PROVE  quiet' + left' - stampAge' >= MinInterval
  <2>1. left' = AtLeast(-Slack, deadline - stampAge)
      BY <1>5 DEF ScanOver
  <2>2. left' \in Int /\ left' >= deadline - stampAge
      BY <1>1, <2>1, AtLeastBounds
  <2>3. quiet' = scanTicks /\ stampAge = scanTicks
      BY <1>1, <1>3, <1>5 DEF RestartQuiet
  <2>4. \A q, d, k, m \in Int : k >= d - q /\ d >= m => q + k - 0 >= m
      OBVIOUS
  <2>5. scanTicks \in Int /\ MinInterval \in Int /\ left' >= deadline - scanTicks
      BY <1>1, <2>2, <2>3
  <2>6. scanTicks + left' - 0 >= MinInterval
      BY <1>5, <2>2, <2>4, <2>5, Zenon
  <2> QED
      BY <1>2, <2>3, <2>6
<1> QED
    BY <1>2, <1>4, <1>5 DEF QuietInv

LEMMA QuietHook ==
    ASSUME TypesInv, QuietInv,
           NothingToClear \/ FirstDeadline \/ BeforeDeadline \/ NoClear \/ Clear
           \/ ClearFails
    PROVE  QuietInv'
<1>1. /\ quiet \in 0..MaxInterval /\ left \in Int /\ stampAge \in Int
      /\ scanTicks \in Nat /\ policy \in Policies
      /\ MinInterval \in Nat /\ MaxInterval \in Nat
    BY QuietTypes
<1>2. /\ ResolveClipboardClearInterval \in Int
      /\ ResolveClipboardClearInterval >= MinInterval
  <2>1. ResolveClipboardClearInterval \in MinInterval..MaxInterval
      BY <1>1, LongestInterval
  <2> QED
      BY <1>1, <2>1
<1>3. CASE NothingToClear
  <2>1. ScanOver(left) /\ RestartQuiet /\ ~hasDeadline'
      BY <1>3 DEF NothingToClear, ForgetDeadline
  <2> QED
      BY <1>1, <2>1, QuietRestarts
<1>4. CASE Clear
  <2>1. ScanOver(ResolveClipboardClearInterval) /\ RestartQuiet
      BY <1>4 DEF Clear, DeadlinePassed
  <2> QED
      BY <1>2, <2>1, QuietRestarts
<1>5. CASE BeforeDeadline
  <2>1. ScanOver(left) /\ hasDeadline /\ UNCHANGED <<quiet, steady>>
      BY <1>5 DEF BeforeDeadline, NotYet
  <2>2. steady => quiet >= MinInterval \/ quiet + left - stampAge >= MinInterval
      BY <2>1 DEF QuietInv
  <2> QED
      BY <1>1, <2>1, <2>2, QuietScanOver
<1>6. CASE FirstDeadline \/ NoClear \/ ClearFails
  <2>1. /\ ScanOver(ResolveClipboardClearInterval)
        /\ UNCHANGED <<quiet, steady>>
      BY <1>6 DEF FirstDeadline, NoClear, ClearFails, DeadlinePassed
  <2>2. ASSUME steady, ~(quiet >= MinInterval)
        PROVE  quiet + ResolveClipboardClearInterval - stampAge >= MinInterval
    <3>1. stampAge = scanTicks /\ quiet >= scanTicks
        BY <2>2 DEF QuietInv
    <3>2. \A q, t, d, m \in Int : q >= t /\ d >= m => q + d - t >= m
        OBVIOUS
    <3>3. {quiet, scanTicks, MinInterval} \subseteq Int
        BY <1>1
    <3>4. quiet + ResolveClipboardClearInterval - scanTicks >= MinInterval
        BY <1>2, <3>1, <3>2, <3>3, Zenon
    <3> QED
        BY <3>1, <3>4
  <2> QED
      BY <1>2, <2>1, <2>2, QuietScanOver
<1> QED
    BY <1>3, <1>4, <1>5, <1>6

LEMMA QuietStep == TypesInv /\ QuietInv /\ [Next]_vars => QuietInv'
<1> SUFFICES ASSUME TypesInv, QuietInv, [Next]_vars
             PROVE  QuietInv'
    OBVIOUS
<1>1. ASSUME UNCHANGED <<steady, stampAge, scanTicks, quiet, hasDeadline, left>>
      PROVE  QuietInv'
    BY <1>1 DEF QuietInv
<1>2. ASSUME NEW q \in Policies, Reload(q)
      PROVE  QuietInv'
    BY <1>1, <1>2 DEF Reload, clock
<1>3. CASE ScanBegins \/ EmitNotificationIfAllowed \/ HookBegins \/ ReadDebugMode
           \/ Emit \/ Suppress \/ UNCHANGED vars
    BY <1>1, <1>3 DEF ScanBegins, EmitNotificationIfAllowed, HookBegins, ReadDebugMode,
       Emit, Suppress, vars, clock, hook
<1>4. ASSUME NEW d \in {-Jump, Jump}, SetClock(d)
      PROVE  QuietInv'
  <2>1. steady' = FALSE /\ quiet' = quiet /\ scanTicks' = scanTicks
      BY <1>4 DEF SetClock
  <2> QED
      BY <2>1 DEF QuietInv
<1> QED
    BY <1>2, <1>3, <1>4, QuietTick, QuietHook DEF Next, Environment, Work

(***************************************************************************)
(* Nothing is cleared sooner than the least interval after the last clear, *)
(* or after the last scan that was told not to clear, unless the clock was *)
(* set.                                                                    *)
(***************************************************************************)
THEOREM ClearsAreSpaced == Spec => NoHastyClear
<1>1. Init => QuietInv
    BY DEF Init, QuietInv
<1>2. ASSUME TypesInv, QuietInv, Clear \/ ClearFails, steady
      PROVE  quiet >= MinInterval
  <2>1. hasDeadline /\ left <= 0
      BY <1>2 DEF Clear, ClearFails, DeadlinePassed
  <2>2. /\ stampAge = scanTicks
        /\ quiet >= MinInterval \/ quiet + left - stampAge >= MinInterval
      BY <1>2, <2>1 DEF QuietInv
  <2>3. /\ quiet \in Int /\ left \in Int /\ scanTicks \in Nat /\ MinInterval \in Int
      BY <1>2, QuietTypes
  <2>4. \A q, l, m \in Int, t \in Nat : l <= 0 /\ q + l - t >= m => q >= m
      OBVIOUS
  <2> QED
      BY <2>1, <2>2, <2>3, <2>4
<1>3. TypesInv /\ QuietInv /\ [Next]_vars
         => [Clear \/ ClearFails => quiet >= MinInterval \/ ~steady]_vars
    BY <1>2
<1> QED
    BY <1>1, <1>3, TypesInit, TypesStep, QuietStep, PTL DEF Spec, NoHastyClear
==============================================================================
