--------------------------- MODULE MCPriorityQueue ---------------------------
(* Instances of PriorityQueue for TLC.                                     *)
EXTENDS PriorityQueue, TLC

CONSTANTS e1, e2, e3, e4

\* Three notifications, of which "10" and "11" sort before "9"; the first of
\* them is enqueued a second time.
MCId == {9, 10, 11}
MCPriorityOf == (9 :> 2) @@ (10 :> 2) @@ (11 :> 1)
MCNameRank == (9 :> 3) @@ (10 :> 1) @@ (11 :> 2)
MCIdOf == (e1 :> 9) @@ (e2 :> 10) @@ (e3 :> 11) @@ (e4 :> 9)
=============================================================================
