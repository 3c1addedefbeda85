------------------------ MODULE MCBookmarkletSession ------------------------
EXTENDS BookmarkletSession, TLC

Symmetry == Permutations(Token) \cup Permutations(Id) \cup Permutations(Request)
=============================================================================
