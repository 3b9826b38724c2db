------------------------------ MODULE MCTasks -------------------------------
EXTENDS Tasks, TLC
Symmetric == Permutations(Worker) \cup Permutations(Agent)
=============================================================================
