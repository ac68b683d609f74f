----------------------------- MODULE MCPostForms -----------------------------
\* Instances of PostForms for TLC.
EXTENDS PostForms, TLC

CONSTANT u1  \* the author of every post

MCOwner == [p \in Post |-> u1]

\* Threads, posts, pens and softwares are interchangeable.
MCSymmetry == Permutations(Thread) \cup Permutations(Post) \cup Permutations(Pen)
                \cup Permutations(Software)

\* A row that is gone does not come back and is passed over, so that what a request is
\* about to destroy is told apart by the rows that are there: no action, and no property
\* but the type of doomed, sees more of it.
MCView ==
  LET ahead(t) == IF req[t] = Idle THEN Idle ELSE [req[t] EXCEPT !.doomed = @ \cap pens]
  IN  <<posts, pens, parents, lastForm, [t \in Thread |-> ahead(t)], cut, claim, met>>
=============================================================================
