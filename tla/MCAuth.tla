------------------------------- MODULE MCAuth -------------------------------
\* Instance of AuthClient: two tabs, in one browser or in two.
EXTENDS AuthClient, TLC

CONSTANTS t1, t2, j1, j2

TwoTabs == {t1, t2}
TwoJars == {j1, j2}

\* Neither tabs nor jars are told apart.
Symmetric == Permutations(TwoTabs) \cup Permutations(TwoJars)
=============================================================================
