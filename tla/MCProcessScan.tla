---------------------------- MODULE MCProcessScan ----------------------------
(***************************************************************************)
(* Two process numbers and three programs.  game is blocked by its path    *)
(* under both policies and allowed by its name under one; tool lies in a   *)
(* directory that this one ignores and that it does not allow otherwise;   *)
(* the path of guard cannot be read.                                       *)
(***************************************************************************)
EXTENDS ProcessScan, TLC

CONSTANTS game, tool, guard

MCPrograms == {game, tool, guard}

MCPathOf == (game :> "/apps/game") @@ (tool :> "/usr/bin/tool") @@ (guard :> Denied)

MCBaseOf == (game :> "game") @@ (tool :> "tool") @@ (guard :> "guard")

MCInside == {<<"/usr/bin/tool", "/usr/bin">>}

MCPolicies ==
    {[blocked |-> {"/apps/game"}, allowed |-> {}, ignore |-> {}],
     [blocked |-> {"/apps/game"}, allowed |-> {"game"}, ignore |-> {"/usr/bin"}]}
==============================================================================
