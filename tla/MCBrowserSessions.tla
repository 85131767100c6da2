------------------------- MODULE MCBrowserSessions -------------------------
\* Instances of BrowserSessions for TLC.
EXTENDS BrowserSessions, TLC

CONSTANTS b1, b2, t1, t2, i1, i2, r1

\* One browser comes from a client and has a request to approve, the other wants its account.
ClientAndAccount == {<<b1, r1>>, <<b2, None>>}

Symmetry == Permutations(Task) \cup Permutations(Identity)
=============================================================================
