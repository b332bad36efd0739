----------------------------- MODULE MCAccounts -----------------------------
EXTENDS Accounts, TLC

\* Requests are interchangeable.
Symmetry == Permutations(Requests)
=============================================================================
