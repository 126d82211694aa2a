---------------------------- MODULE MCConfigStore ----------------------------
(***************************************************************************)
(* A system directory and a home directory, each with a path inside, and a *)
(* path that normalize_path rejects.  The documents of the administrator   *)
(* protect paths inside ignored ones, leave sections out, and hold         *)
(* integers below a minimum and integers that do not fit an int.           *)
(***************************************************************************)
EXTENDS PolicyQueries

CONSTANTS sys, sysSub, home, homeSub, dots

MCPaths == {sys, sysSub, home, homeSub, dots}

MCBelow == {<<sysSub, sys>>, <<homeSub, home>>}

MCDefaultDoc ==
    [protected |-> {homeSub}, ignore |-> {sys}, heartbeat |-> 6, scanMs |-> 4]

MCDocs ==
    {[protected |-> {sysSub, home, dots}, ignore |-> {},
      heartbeat |-> 17, scanMs |-> 1],
     [protected |-> {homeSub, home}, ignore |-> {home, dots},
      heartbeat |-> Bad, scanMs |-> 11],
     [protected |-> {sys, homeSub}, ignore |-> Bad,
      heartbeat |-> 8, scanMs |-> Bad]}
==============================================================================
