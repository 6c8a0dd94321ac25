--------------------------- MODULE MCInboxWatcher ---------------------------
EXTENDS InboxWatcher, TLC
Symmetry == Permutations(Docs) \cup Permutations(Stems) \cup Permutations(Watchers)
=============================================================================
