---------------------------- MODULE MCAgentLoop ----------------------------
EXTENDS AgentLoop, TLC

Symmetry == Permutations(Clients)
=============================================================================
