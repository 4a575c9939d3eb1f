---------------------------- MODULE MCRuleChains ----------------------------
(* RuleChains for TLC: heap cells are interchangeable.                       *)
EXTENDS RuleChains, TLC

Symmetry == Permutations(Nodes)

\* The firewall as it starts, and switched off with the other default action.
Start == [Invalid |-> FALSE, DefaultAction |-> "ACCEPT", LogPause |-> FALSE]
Other == [Invalid |-> TRUE, DefaultAction |-> "DROP", LogPause |-> TRUE]
Strict == [Invalid |-> FALSE, DefaultAction |-> "DROP", LogPause |-> TRUE]
\* Rule numbers: none, the head, the second, one past two; 0 is what `-u 0` gives.
FewPositions == {-1, 1, 2}
MorePositions == {-1, 0, 1, 2, 3}

NoSettings == {}
SomeSettings == {Start, Strict, Other}
=============================================================================
