--------------------------- MODULE MCRunLifecycle ---------------------------
EXTENDS RunLifecycle, TLC

\* Replicas and runs are interchangeable in every safety run.
Symmetry == Permutations(Replicas) \cup Permutations(Runs)
=============================================================================
