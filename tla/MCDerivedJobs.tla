---------------------------- MODULE MCDerivedJobs ----------------------------
(* An instance of DerivedJobs for TLC: two verifications of one target over   *)
(* the same window, and a materialization of two chunks of its outturn.       *)
EXTENDS DerivedJobs

CONSTANTS m, u, v, chunk1, chunk2, target

Chunk(k) == [key |-> k, inputs |-> <<2>>, cells |-> {k}]
Both == [key |-> target, inputs |-> <<1, 2>>, cells |-> {target}]
MCTasks == [j \in {m, u, v} |-> IF j = m THEN <<Chunk(chunk1), Chunk(chunk2)>> ELSE <<Both>>]
=============================================================================
