----------------------------- MODULE MCJobPage -----------------------------
\* One reader; every upload is theirs.
EXTENDS JobPage, TLC
CONSTANT c1
MCOwner == [u \in Uploads |-> c1]
\* Bound: the tab is closed once the session has ended.  What it would show
\* then are errors, which may come at any time before as well.
ClosedAfterExpiry == Reader \in expired => ~page.open
Symmetry == Permutations(Requests) \union Permutations(Uploads)
=============================================================================
