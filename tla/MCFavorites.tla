----------------------------- MODULE MCFavorites -----------------------------
\* Instances of Favorites for TLC.
EXTENDS Favorites, TLC

CONSTANT u1

MCOwner == [p \in Post |-> u1]

\* Threads are interchangeable.
MCSymmetry == Permutations(Thread)
=============================================================================
