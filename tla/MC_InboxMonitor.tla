------------------------- MODULE MC_InboxMonitor -------------------------
EXTENDS InboxMonitor, TLC

Symmetry == Permutations(Monitors)

==========================================================================
