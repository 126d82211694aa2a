----------------------------- MODULE MCScanTimers -----------------------------
(***************************************************************************)
(* Three policies: one that notifies and clears; one with other intervals, *)
(* in debug mode; one that does neither.  The clock is set by more than    *)
(* any limit or interval.                                                  *)
(***************************************************************************)
EXTENDS ScanTimers

MCPolicies ==
    {[enabled |-> TRUE, limit |-> 2, clear |-> TRUE, debug |-> FALSE, interval |-> 2],
     [enabled |-> TRUE, limit |-> 1, clear |-> TRUE, debug |-> TRUE, interval |-> 1],
     [enabled |-> FALSE, limit |-> 1, clear |-> FALSE, debug |-> FALSE, interval |-> 1]}
==============================================================================
