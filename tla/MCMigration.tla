---------------------------- MODULE MCMigration ----------------------------
\* Instance of MigrationPages: two requests at a time, three addresses.
EXTENDS MigrationPages

CONSTANTS t1, t2, a, b, c

TwoSlots == {t1, t2}
ThreeEmails == {a, b, c}

\* Neither slots nor addresses are told apart.
Symmetric == Permutations(TwoSlots) \cup Permutations(ThreeEmails)
=============================================================================
