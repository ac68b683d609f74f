------------------------------ MODULE MCTagging ------------------------------
\* Instances of Tagging for TLC.
EXTENDS Tagging, TLC

\* Threads, posts and names are interchangeable.
MCSymmetry == Permutations(Thread) \cup Permutations(Post) \cup Permutations(Name)

\* What TLC tells apart.  Of the rows that a transaction has read only those that are still
\* there matter to it, of a form only which names it has once the tags to add are known, of
\* the history only what concerns posts that are there, and lastId serves only to give out
\* ids that no row has had.
MCView ==
  LET ahead(t) == IF Destroys(t) THEN [req[t] EXCEPT !.doomed = @ \cap tagmaps]
                  ELSE IF Works(t) THEN [req[t] EXCEPT !.form = Named(@)]
                  ELSE req[t]
      claimed(p) == IF claim[p].known THEN {claim[p].names} ELSE {}
  IN  <<posts, tags, tagmaps, saves, [t \in Thread |-> ahead(t)], [p \in posts |-> claimed(p)],
        contended, raced, crowded \cap posts>>
=============================================================================
