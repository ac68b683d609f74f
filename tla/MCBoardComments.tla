--------------------------- MODULE MCBoardComments ---------------------------
\* Instances of BoardComments for TLC: boards of u1, answered by everyone.
EXTENDS BoardComments, TLC

CONSTANT u1  \* the owner of every board

MCOwner == [b \in Board |-> u1]

\* Threads and boards are interchangeable, and so are the users who own no board.
MCSymmetry == Permutations(Thread) \cup Permutations(Board) \cup Permutations(User \ {u1})
=============================================================================
