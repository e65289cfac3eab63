----------------------------- MODULE MCIngestion -----------------------------
(* Instances of Ingestion for TLC. *)
EXTENDS Ingestion, TLC

NoChunks == <<>>
TwoChunks == <<[from |-> 0, to |-> 1], [from |-> 1, to |-> 2]>>
NoSkew == [p \in Proc |-> 0]

\* One replica's clock is two instants ahead of the others.
OneAhead == [p \in Proc |-> IF p = CHOOSE q \in Workers : TRUE THEN 2 ELSE 0]

Symmetry == Permutations(Fact)
=============================================================================
