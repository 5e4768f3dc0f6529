--------------------------- MODULE MCRuntimeEdges ---------------------------
(* Two hosts and two daemons, of two releases; two requests at once.         *)
EXTENDS RuntimeEdges, TLC

CONSTANTS d1, d2, h1, h2, v1, v2, r1, r2
=============================================================================
