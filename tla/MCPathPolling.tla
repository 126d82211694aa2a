---------------------------- MODULE MCPathPolling ----------------------------
(***************************************************************************)
(* Two monitored roots that share a path: outer holds both paths, inner    *)
(* one of them again.                                                      *)
(***************************************************************************)
EXTENDS PathPolling, TLC

CONSTANTS a, b, outer, inner, p1, p2

MCPaths == {a, b}

MCRoots == <<outer, inner>>

MCBelow == (outer :> {a, b}) @@ (inner :> {b})
==============================================================================
