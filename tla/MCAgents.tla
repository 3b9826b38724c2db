------------------------------ MODULE MCAgents ------------------------------
EXTENDS Agents, TLC
Symmetric == Permutations(Call)
=============================================================================
