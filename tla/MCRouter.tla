------------------------------ MODULE MCRouter ------------------------------
(* Router instantiated for TLC: two handler functions, one kind, one      *)
(* message id.                                                             *)
EXTENDS Router, TLC

CONSTANTS h1, h2, k1, m1

MCHandlers == {h1, h2}
MCKinds == {k1}
MCMsgIds == {m1}
MCHandlerArgs == {<<h1>>, <<h2>>, <<h1, h2>>}
MCAbortIndex == 127 \div 2
=============================================================================
