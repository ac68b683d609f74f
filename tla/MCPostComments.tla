--------------------------- MODULE MCPostComments ---------------------------
\* Instances of PostComments for TLC: posts of u1, commented by everyone.
EXTENDS PostComments

CONSTANT u1  \* the author of every post

MCOwner == [p \in Post |-> u1]
=============================================================================
