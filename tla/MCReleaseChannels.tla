------------------------- MODULE MCReleaseChannels -------------------------
EXTENDS ReleaseChannels, TLC

Symmetry == Permutations(Clients) \cup Permutations(Versions)

=============================================================================
