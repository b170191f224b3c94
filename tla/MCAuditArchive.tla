--------------------------- MODULE MCAuditArchive ---------------------------
EXTENDS AuditArchive, TLC

Symmetry == Permutations(Events) \cup Permutations(Sweepers)

=============================================================================
