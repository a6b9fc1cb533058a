---------------------------- MODULE MCRiskEngine -----------------------------
\* RiskEngine with interchangeable calls and customers, for TLC.
EXTENDS RiskEngine, TLC

Symmetry == Permutations(Calls) \cup Permutations(Customers)
=============================================================================
