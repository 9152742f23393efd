-------------------------- MODULE MCRuleRefinement --------------------------
EXTENDS RuleRefinement, TLC

Symmetry == Permutations(Agents) \cup Permutations(Examples)
=============================================================================
