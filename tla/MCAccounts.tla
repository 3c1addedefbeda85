----------------------------- MODULE MCAccounts -----------------------------
EXTENDS Accounts, TLC

Symmetry == Permutations(Request) \cup Permutations(Sid)
                \cup Permutations(ResetToken)
=============================================================================
