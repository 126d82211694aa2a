-------------------------------- MODULE Logger --------------------------------
(***************************************************************************)
(* The logger that all threads share: the level a line is filtered by is   *)
(* an atomic, a line is formatted outside the mutex, and written under it  *)
(* to a stream that is reopened when it is closed.                         *)
(*                                                                         *)
(* An output stream that could not write stays open, with its error flags  *)
(* set, and ignores what is written to it until somebody clears them.      *)
(***************************************************************************)
EXTENDS Naturals

CONSTANTS Threads, Paths, Levels,
          NoLine  \* a thread that is not writing

VARIABLES
    minLevel,  \* min_level_
    path,      \* path_
    stream,    \* stream_: "closed", "good" or "failed"
    line,      \* line[t]: the level of the line t is about to write, or NoLine
    openable,  \* the paths that can be created and opened
    room,      \* there is room on the disk
    outcome    \* history: what became of the last line

vars == <<minLevel, path, stream, line, openable, room, outcome>>

\* reopen_stream_locked; a directory that cannot be made is found out here.
Reopen(p) == IF p \in openable THEN "good" ELSE "closed"

\* The constructor opens the path it is declared with.
Init ==
    /\ minLevel \in Levels
    /\ path \in Paths
    /\ openable \in SUBSET Paths
    /\ stream = Reopen(path)
    /\ line = [t \in Threads |-> NoLine]
    /\ room = TRUE
    /\ outcome = "none"

-----------------------------------------------------------------------------
\* The disk fills up, or is cleared.
DiskFills ==
    /\ room' = ~room
    /\ UNCHANGED <<minLevel, path, stream, line, openable, outcome>>

PathChanges(p) ==
    /\ openable' = IF p \in openable THEN openable \ {p} ELSE openable \cup {p}
    /\ UNCHANGED <<minLevel, path, stream, line, room, outcome>>

SetLogPath(p) ==
    /\ path' = p
    /\ stream' = Reopen(p)
    /\ UNCHANGED <<minLevel, line, openable, room, outcome>>

SetMinLevel(level) ==
    /\ minLevel' = level
    /\ UNCHANGED <<path, stream, line, openable, room, outcome>>

\* log and log_message: the filter, the message and its time stamp.
Log(t, level) ==
    /\ line[t] = NoLine
    /\ level >= minLevel
    /\ line' = [line EXCEPT ![t] = level]
    /\ UNCHANGED <<minLevel, path, stream, openable, room, outcome>>

\* The critical section of write_line.
WriteLine(t) ==
    /\ line[t] # NoLine
    /\ LET opened == IF stream = "closed" THEN Reopen(path) ELSE stream
       IN /\ stream' = IF opened = "good" /\ ~room THEN "failed" ELSE opened
          /\ outcome' = IF stream' = "good" THEN "written" ELSE "lost"
    /\ line' = [line EXCEPT ![t] = NoLine]
    /\ UNCHANGED <<minLevel, path, openable, room>>

Next ==
    \/ DiskFills \/ \E p \in Paths : PathChanges(p) \/ SetLogPath(p)
    \/ \E level \in Levels : SetMinLevel(level)
    \/ \E t \in Threads : WriteLine(t) \/ \E level \in Levels : Log(t, level)

Spec == Init /\ [][Next]_vars

-----------------------------------------------------------------------------
\* What logger.hpp:211 says of flush(): a line is written at once, at least
\* when its path can be opened and there is room for it.
LineIsWritten ==
    [][\A t \in Threads :
          WriteLine(t) /\ path \in openable /\ room => outcome' = "written"]_vars
==============================================================================
