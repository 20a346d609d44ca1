--------------------------- MODULE MCWorkerClient ---------------------------
EXTENDS WorkerClient, TLC

Symmetry == Permutations(Callers) \cup Permutations(Traces)
=============================================================================
