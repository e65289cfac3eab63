--------------------------- MODULE MCObservedEvents ---------------------------
(* Instances of ObservedEvents for TLC. *)
EXTENDS ObservedEvents

CONSTANTS calm, hot, hotter, share, leader

\* Two readings satisfy the stateful rule, one of them also the momentary one.
OneRule == [v \in Value |-> IF v = calm THEN {} ELSE {share}]
TwoRules == [v \in Value |-> IF v = calm THEN {} ELSE
                IF v = hot THEN {share} ELSE {share, leader}]
OneInstant == [r \in Rule |-> 1]
=============================================================================
