---------------------------- MODULE MCQueueConn ----------------------------
(* Model-checking instance of QueueConn: two application goroutines, three *)
(* packets, a send channel of capacity 2.                                  *)
EXTENDS QueueConn, TLC

CONSTANTS u1, u2, p1, p2, p3

MCUsers == {u1, u2}
MCPkts == {p1, p2, p3}

Symmetry == Permutations(MCUsers) \cup Permutations(MCPkts)
=============================================================================
