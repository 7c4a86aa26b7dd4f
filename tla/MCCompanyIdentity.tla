-------------------------- MODULE MCCompanyIdentity --------------------------
EXTENDS CompanyIdentity, TLC
Symmetry == Permutations(Subs) \cup Permutations(Requests)
=============================================================================
