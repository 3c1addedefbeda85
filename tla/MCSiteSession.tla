--------------------------- MODULE MCSiteSession ----------------------------
\* The verified accounts and the handlers are interchangeable.
EXTENDS SiteSession, TLC

Alike == Permutations(User \ Unverified) \cup Permutations(Task)
=============================================================================
