--------------------------- MODULE EnforcerService ---------------------------
(***************************************************************************)
(* What an enforcer promises to the threads that start and stop it, in the *)
(* words of the class interface (process_enforcer.hpp, and the same        *)
(* interface in filesystem_enforcer.hpp):                                  *)
(*                                                                         *)
(*   - start() returns true only when it has launched the one worker;      *)
(*   - stop() returns true only when the worker it was asked to stop, if   *)
(*     there was one, has left its loop;                                   *)
(*   - destruction completes only when no worker is left that could still  *)
(*     touch the object.                                                   *)
(*                                                                         *)
(* Nothing here says how: the mutexes, condition variables, flags and      *)
(* thread handle are in EnforcerLifecycle, which implements this module.   *)
(***************************************************************************)

CONSTANTS Callers,   \* threads that call start() and stop()
          Threads    \* worker threads the operating system may create

VARIABLES live,      \* the workers inside scan_loop
          touching,  \* the workers whose thread function has not returned
          pending,   \* callers inside stop() or the destructor
          owed,      \* owed[c]: the workers the call of c has to see gone
          answer,    \* answer[c]: what the last finished call of c returned
          destroyed  \* the object's lifetime has ended

svars == <<live, touching, pending, owed, answer, destroyed>>

Answers == {"none", "true", "false"}

Init ==
    /\ live = {}
    /\ touching = {}
    /\ pending = {}
    /\ owed = [c \in Callers |-> {}]
    /\ answer = [c \in Callers |-> "none"]
    /\ destroyed = FALSE

\* start() returns true: a fresh worker, and no other one is in its loop.
Launch(c, t) ==
    /\ ~destroyed
    /\ c \notin pending
    /\ live = {}
    /\ t \notin touching
    /\ live' = {t}
    /\ touching' = touching \cup {t}
    /\ answer' = [answer EXCEPT ![c] = "true"]
    /\ UNCHANGED <<pending, owed, destroyed>>

\* start() returns false.
Refuse(c) ==
    /\ ~destroyed
    /\ c \notin pending
    /\ answer' = [answer EXCEPT ![c] = "false"]
    /\ UNCHANGED <<live, touching, pending, owed, destroyed>>

\* stop() or the destructor is entered: the workers now in their loop are
\* the ones this call has to see gone before it may answer true.
Ask(c) ==
    /\ ~destroyed
    /\ c \notin pending
    /\ pending' = pending \cup {c}
    /\ owed' = [owed EXCEPT ![c] = live]
    /\ UNCHANGED <<live, touching, answer, destroyed>>

\* A worker leaves its loop, then its thread function returns.
Leave(t) ==
    /\ t \in live
    /\ live' = live \ {t}
    /\ UNCHANGED <<touching, pending, owed, answer, destroyed>>

Return(t) ==
    /\ t \in touching \ live
    /\ touching' = touching \ {t}
    /\ UNCHANGED <<live, pending, owed, answer, destroyed>>

\* stop() answers true only when the workers it owed are gone.
Stopped(c) ==
    /\ c \in pending
    /\ owed[c] \cap live = {}
    /\ pending' = pending \ {c}
    /\ answer' = [answer EXCEPT ![c] = "true"]
    /\ UNCHANGED <<live, touching, owed, destroyed>>

\* stop() found nothing to stop and answered at once.
NothingToStop(c) ==
    /\ ~destroyed
    /\ c \notin pending
    /\ live = {}
    /\ owed' = [owed EXCEPT ![c] = {}]
    /\ answer' = [answer EXCEPT ![c] = "true"]
    /\ UNCHANGED <<live, touching, pending, destroyed>>

\* stop() gave up waiting.
TimedOut(c) ==
    /\ c \in pending
    /\ pending' = pending \ {c}
    /\ answer' = [answer EXCEPT ![c] = "false"]
    /\ UNCHANGED <<live, touching, owed, destroyed>>

\* The destructor returns: nothing may run on the object any more.
Destroyed(c) ==
    /\ touching = {}
    /\ pending \subseteq {c}
    /\ pending' = {}
    /\ destroyed' = TRUE
    /\ UNCHANGED <<live, touching, owed, answer>>

Next ==
    \/ \E c \in Callers :
          \/ \E t \in Threads : Launch(c, t)
          \/ Refuse(c) \/ Ask(c) \/ Stopped(c) \/ NothingToStop(c)
          \/ TimedOut(c) \/ Destroyed(c)
    \/ \E t \in Threads : Leave(t) \/ Return(t)

Spec == Init /\ [][Next]_svars
==============================================================================
