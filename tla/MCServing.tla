------------------------------ MODULE MCServing ------------------------------
EXTENDS Serving, TLC
MCBudgets == {<<3, 0>>, <<2, 5>>}
\* Two tenants give their apps one name.
MCName == [p \in Projects |-> "site"]
Symm == Permutations(Callers) \cup Permutations(Projects)
=============================================================================
