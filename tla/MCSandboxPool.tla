--------------------------- MODULE MCSandboxPool ---------------------------
EXTENDS SandboxPool, TLC

\* Processes and sandboxes are interchangeable; no liveness is checked here.
Symmetry == Permutations(Procs) \cup Permutations(Sandboxes)
=============================================================================
