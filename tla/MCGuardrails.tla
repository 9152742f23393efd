----------------------------- MODULE MCGuardrails -----------------------------
EXTENDS Guardrails, TLC

Symmetry == Permutations(Callers) \cup Permutations(Hosts)
=============================================================================
