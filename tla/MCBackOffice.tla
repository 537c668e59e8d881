---------------------------- MODULE MCBackOffice ---------------------------
EXTENDS BackOffice, TLC

\* No definition and no property names a member of its own.
OfficeSymmetry == Permutations(Member)

============================================================================
