---------------------------- MODULE MCAgentTurn ----------------------------
(* One fingerprint under two or three call ids: a call, its retry and a    *)
(* deliberate repetition, by three executions when only the connection     *)
(* fails, by two when anything may happen.                                 *)
EXTENDS AgentTurn, TLC

Symmetry == Permutations(Fingerprint) \cup Permutations(CallId) \cup Permutations(OpId)

Calm  == [faults |-> {"connection"}, reusesIds |-> FALSE, operations |-> 3]
Rough == [faults |-> FaultKind, reusesIds |-> TRUE, operations |-> 2]

CalmAndRough == {Calm, Rough}

LongConversation == {[Calm EXCEPT !.faults = @ \cup {"context"}]}
=============================================================================
