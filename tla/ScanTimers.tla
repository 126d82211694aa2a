------------------------------ MODULE ScanTimers ------------------------------
(***************************************************************************)
(* What the filesystem worker does by the wall clock: the notifications    *)
(* that should_emit_notification spaces out, and the clipboard that        *)
(* run_clipboard_hook clears at the end of a scan when its deadline has    *)
(* passed.                                                                 *)
(*                                                                         *)
(* The clock can be set back or forward at any moment.  Times are kept as  *)
(* differences: a difference stops growing where a bound on the            *)
(* adjustments still to come can no longer change what it decides.  The    *)
(* policy may be reloaded between any two of the getters the worker calls, *)
(* each of which locks on its own.                                         *)
(***************************************************************************)
EXTENDS Integers, FiniteSets

CONSTANTS Policies,     \* what reload() may put in force
          MinLimit,     \* kMinNotificationRateLimit
          MinInterval,  \* kMinClipboardInterval
          Jump,         \* by how much the clock is set
          MaxAdjusts,   \* bound: times the clock is set
          MaxScan       \* bound: the ticks a scan takes

ASSUME TimerAssumption ==
    /\ {MinLimit, MinInterval, Jump} \subseteq Nat \ {0}
    /\ {MaxAdjusts, MaxScan} \subseteq Nat
    /\ IsFiniteSet(Policies)
    /\ \A q \in Policies :
          /\ q.limit \in Nat /\ q.interval \in Nat
          /\ q.enabled \in BOOLEAN /\ q.clear \in BOOLEAN /\ q.debug \in BOOLEAN

VARIABLES
    policy,      \* the policy in force
    pc,          \* where the worker is
    hasNote,     \* has_notification_time_
    noteAge,     \* clock - last_notification_time_
    hasDeadline, \* has_next_clipboard_deadline_
    left,        \* next_clipboard_deadline_ - clock; during a scan, - its stamp
    stampAge,    \* clock - stats.timestamp during a scan
    disabled,    \* clipboard_hook_disabled_
    clearRead,   \* clear_clipboard, as the hook has read it
    debugRead,   \* debug_mode, as the hook has read it
    adjusts,     \* bound counter of SetClock
    elapsed,     \* history: real time since the last notification
    jumps,       \* history: adjustments since the last notification
    refusals,    \* history: ticks with a notification suppressed since the last
    refused,     \* history: one was suppressed in this tick
    quiet,       \* history: real time since the scan that last cleared, or
                 \* read that nothing is to be cleared, began
    steady,      \* history: the clock was not set in that time
    scanTicks,   \* history: real time since this scan began
    rules        \* history: the policies in force since the hook began

note == <<hasNote, noteAge, elapsed, jumps, refusals, refused>>
hook == <<hasDeadline, disabled, clearRead, debugRead, rules>>
clock == <<left, stampAge, scanTicks, quiet, steady>>
vars == <<policy, pc, note, hook, clock, adjusts>>

AtLeast(floor, x) == IF x < floor THEN floor ELSE x

AtMost(ceiling, x) == IF x > ceiling THEN ceiling ELSE x

\* The getters have the same least value, so that the default for a value of
\* zero or less is never resorted to.
ResolveNotificationRateLimit == AtLeast(MinLimit, policy.limit)

\* Mutant: the seconds are taken for tens of seconds.
ResolveWrongUnit == 10 * AtLeast(MinInterval, policy.interval)

ResolveClipboardClearInterval == AtLeast(MinInterval, policy.interval)

\* Where the differences stop.
Greatest(S) == CHOOSE x \in S : \A y \in S : y <= x

MaxLimit == Greatest({MinLimit} \cup {q.limit : q \in Policies})

MaxInterval == Greatest({MinInterval} \cup {q.interval : q \in Policies})

Slack == MaxAdjusts * Jump

MaxRefusals == (MaxAdjusts + 1) * MaxLimit + 1

Init ==
    /\ policy \in Policies
    /\ pc = "idle"
    /\ hasNote = FALSE /\ noteAge = 0
    /\ hasDeadline = FALSE /\ left = 0 /\ stampAge = 0
    /\ disabled = FALSE
    /\ clearRead = FALSE /\ debugRead = FALSE
    /\ adjusts = 0
    /\ elapsed = 0 /\ jumps = 0 /\ refusals = 0 /\ refused = FALSE
    /\ quiet = 0 /\ steady = TRUE /\ scanTicks = 0
    /\ rules = {}

-----------------------------------------------------------------------------
(***************************************************************************)
(* The policy and the clock.                                               *)
(***************************************************************************)
Reload(q) ==
    /\ policy # q
    /\ policy' = q
    /\ rules' = IF rules = {} THEN {} ELSE rules \cup {q}
    /\ UNCHANGED <<pc, note, hasDeadline, disabled, clearRead, debugRead, clock,
                   adjusts>>

\* The clock moves by d.
ClockMoves(d) ==
    /\ noteAge' = IF hasNote THEN AtMost(MaxLimit + Slack, noteAge + d) ELSE 0
    /\ IF pc = "idle"
       THEN /\ left' = IF hasDeadline THEN AtLeast(-Slack, left - d) ELSE 0
            /\ UNCHANGED stampAge
       ELSE /\ stampAge' = stampAge + d
            /\ UNCHANGED left

Tick ==
    /\ pc # "idle" => scanTicks < MaxScan
    /\ ClockMoves(1)
    /\ scanTicks' = IF pc = "idle" THEN 0 ELSE scanTicks + 1
    /\ elapsed' = IF hasNote THEN AtMost(MaxLimit, elapsed + 1) ELSE 0
    /\ quiet' = AtMost(MaxInterval, quiet + 1)
    /\ refused' = FALSE
    /\ UNCHANGED <<policy, pc, hasNote, jumps, refusals, hook, steady, adjusts>>

SetClock(d) ==
    /\ adjusts < MaxAdjusts
    /\ adjusts' = adjusts + 1
    /\ ClockMoves(d)
    /\ jumps' = IF hasNote THEN jumps + 1 ELSE 0
    /\ steady' = FALSE
    /\ UNCHANGED <<policy, pc, hasNote, elapsed, refusals, refused, hook, scanTicks,
                   quiet>>

-----------------------------------------------------------------------------
ScanBegins ==
    /\ pc = "idle"
    /\ pc' = "monitor"
    /\ UNCHANGED <<policy, note, hook, clock, adjusts>>

(***************************************************************************)
(* emit_notification_if_allowed: whether notifications are enabled, then   *)
(* the time and the limit.  When they are not it returns at once.          *)
(***************************************************************************)
EmitNotificationIfAllowed ==
    /\ pc = "monitor"
    /\ policy.enabled
    /\ pc' = "decide"
    /\ UNCHANGED <<policy, note, hook, clock, adjusts>>

\* Mutant: a clock behind the last notification is not looked for.
ShouldEmitForward ==
    ~hasNote \/ noteAge >= ResolveNotificationRateLimit

ShouldEmitNotification ==
    \/ ~hasNote
    \/ noteAge < 0
    \/ noteAge >= ResolveNotificationRateLimit

\* Mutant: only the first notification is remembered.
RememberFirst ==
    hasNote' = TRUE /\ noteAge' = IF hasNote THEN noteAge ELSE 0

RememberNotification == hasNote' = TRUE /\ noteAge' = 0

Emit ==
    /\ pc = "decide"
    /\ ShouldEmitNotification
    /\ RememberNotification
    /\ elapsed' = 0 /\ jumps' = 0 /\ refusals' = 0 /\ refused' = FALSE
    /\ pc' = "monitor"
    /\ UNCHANGED <<policy, hook, clock, adjusts>>

Suppress ==
    /\ pc = "decide"
    /\ ~ShouldEmitNotification
    /\ refused' = TRUE
    /\ refusals' = IF refused THEN refusals ELSE AtMost(MaxRefusals, refusals + 1)
    /\ pc' = "monitor"
    /\ UNCHANGED <<policy, hasNote, noteAge, elapsed, jumps, hook, clock, adjusts>>

-----------------------------------------------------------------------------
(***************************************************************************)
(* run_clipboard_hook, which compares with the time the scan began.        *)
(***************************************************************************)
\* The first getter.
HookBegins ==
    /\ pc = "monitor"
    /\ pc' = "hook"
    /\ clearRead' = policy.clear
    /\ rules' = {policy}
    /\ UNCHANGED <<policy, note, hasDeadline, disabled, debugRead, clock, adjusts>>

\* The second one.
ReadDebugMode ==
    /\ pc = "hook"
    /\ pc' = "due"
    /\ debugRead' = policy.debug
    /\ UNCHANGED <<policy, note, hasDeadline, disabled, clearRead, rules, clock,
                   adjusts>>

\* The scan is over, and the deadline is so far from the scan's stamp.
ScanOver(deadline) ==
    /\ pc = "due"
    /\ pc' = "idle"
    /\ left' = IF hasDeadline' THEN AtLeast(-Slack, deadline - stampAge) ELSE 0
    /\ stampAge' = 0 /\ scanTicks' = 0
    /\ clearRead' = FALSE /\ debugRead' = FALSE
    /\ rules' = {}
    /\ UNCHANGED <<policy, note, adjusts>>

RestartQuiet ==
    /\ quiet' = AtMost(MaxInterval, scanTicks)
    /\ steady' = (stampAge = scanTicks)

\* Mutant: the deadline is left standing.
ForgetDeadlineNot == UNCHANGED hasDeadline

ForgetDeadline == hasDeadline' = FALSE

NothingToClear ==
    /\ ~clearRead
    /\ ForgetDeadline
    /\ ScanOver(left)
    /\ RestartQuiet
    /\ UNCHANGED disabled

FirstDeadline ==
    /\ clearRead
    /\ ~hasDeadline
    /\ hasDeadline' = TRUE
    /\ ScanOver(ResolveClipboardClearInterval)
    /\ UNCHANGED <<disabled, quiet, steady>>

\* Mutant: every scan moves the deadline.
NotYetMoves == ScanOver(ResolveClipboardClearInterval)

NotYet == ScanOver(left)

BeforeDeadline ==
    /\ clearRead
    /\ hasDeadline /\ left > 0
    /\ UNCHANGED hasDeadline
    /\ NotYet
    /\ UNCHANGED <<disabled, quiet, steady>>

DeadlinePassed ==
    /\ clearRead
    /\ hasDeadline /\ left <= 0
    /\ UNCHANGED hasDeadline
    /\ ScanOver(ResolveClipboardClearInterval)

\* Mutant: debug mode does not keep the hook from clearing.
MayClearInDebug == ~disabled

MayClear == ~disabled /\ ~debugRead

NoClear ==
    /\ DeadlinePassed
    /\ ~MayClear
    /\ UNCHANGED <<disabled, quiet, steady>>

Clear ==
    /\ DeadlinePassed
    /\ MayClear
    /\ RestartQuiet
    /\ UNCHANGED disabled

ClearFails ==
    /\ DeadlinePassed
    /\ MayClear
    /\ disabled' = TRUE
    /\ UNCHANGED <<quiet, steady>>

-----------------------------------------------------------------------------
Environment ==
    \/ \E q \in Policies : Reload(q)
    \/ \E d \in {-Jump, Jump} : SetClock(d)
    \/ EmitNotificationIfAllowed
    \/ ClearFails

\* What the worker does by itself.
Work ==
    \/ ScanBegins \/ Emit \/ Suppress \/ HookBegins \/ ReadDebugMode
    \/ NothingToClear \/ FirstDeadline \/ BeforeDeadline \/ NoClear \/ Clear

Next == Environment \/ Tick \/ Work

Spec == Init /\ [][Next]_vars

\* The worker scans for ever and its scans end: a scan has finitely many
\* events to report, so it reaches its hook.  Time passes.
FairSpec ==
    /\ Spec
    /\ WF_vars(Tick)
    /\ WF_vars(Work)
    /\ SF_vars(HookBegins)

-----------------------------------------------------------------------------
(***************************************************************************)
(* Properties.                                                             *)
(***************************************************************************)
\* The types; a deadline is never further away than the longest interval and
\* what the clock was set back.
TypeOK ==
    /\ policy \in Policies /\ rules \subseteq Policies
    /\ pc \in {"idle", "monitor", "decide", "hook", "due"}
    /\ hasNote \in BOOLEAN /\ hasDeadline \in BOOLEAN /\ disabled \in BOOLEAN
    /\ clearRead \in BOOLEAN /\ debugRead \in BOOLEAN
    /\ steady \in BOOLEAN /\ refused \in BOOLEAN
    /\ noteAge \in -Slack..(MaxLimit + Slack)
    /\ left \in -Slack..(MaxInterval + Slack)
    /\ stampAge \in -Slack..(MaxScan + Slack)
    /\ adjusts \in 0..MaxAdjusts /\ jumps \in 0..MaxAdjusts
    /\ refusals \in 0..MaxRefusals /\ elapsed \in 0..MaxLimit /\ quiet \in 0..MaxInterval
    /\ scanTicks \in 0..MaxScan

\* Two notifications are at least the limit in force apart, in real time,
\* unless the clock was set in between: no path through the gate emits
\* without starting the interval again.
SpacedNotifications ==
    [][Emit /\ hasNote /\ jumps = 0 => elapsed >= ResolveNotificationRateLimit]_vars

\* A clock set back, by however much, does not silence the notifications: an
\* event that keeps occurring is suppressed in at most as many ticks as the
\* longest limit, and each adjustment grants it as many again at the most.
SilenceIsShort == refusals <= (jumps + 1) * MaxLimit

\* The clipboard is cleared only when, since the hook began, some policy asked
\* for it and some policy was not in debug mode (the two getters of
\* filesystem_enforcer.cpp:1174-1175 lock one by one, so these may be two
\* policies), and never again after a clear that failed.
ClearIsLicensed ==
    [][Clear \/ ClearFails =>
          /\ \E q \in rules : q.clear
          /\ \E q \in rules : ~q.debug
          /\ ~disabled]_vars

\* Nothing is cleared sooner than the least interval after the last clear or after
\* the last scan that was told not to clear: a policy switched off and on
\* again does not find a deadline that has passed meanwhile.
NoHastyClear ==
    [][Clear \/ ClearFails => quiet >= MinInterval \/ ~steady]_vars

Serving == policy.clear /\ ~policy.debug /\ ~disabled

\* When clearing stays the policy, the clipboard is cleared again and again,
\* although the deadline is compared with the beginning of a scan, moved by
\* reloads, and put off by a clock that is set back.
HookServes == <>[]Serving => []<><<Clear>>_vars
==============================================================================
