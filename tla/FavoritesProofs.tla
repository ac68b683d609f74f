--------------------------- MODULE FavoritesProofs ---------------------------
(***************************************************************************)
(* Theorems about Favorites, for any number of users, posts and threads.   *)
(***************************************************************************)
EXTENDS Favorites, FiniteSetTheorems, TLAPS

LEMMA RequestKinds ==
  ASSUME TypeOK, NEW t \in Thread
  PROVE  /\ req[t].pc \in {"create", "check", "notify"} =>
              req[t] \in Liking /\ req[t].row \in Favorite
         /\ req[t].pc = "unlike" => req[t].row \in Favorite
         /\ req[t].pc = "destroy" =>
              /\ req[t].users \subseteq User
              /\ req[t].posts \subseteq Post
              /\ req[t].rows \subseteq Favorite
              /\ req[t].notes \subseteq Notification
<1>1. req[t] \in {Idle} \cup Liking \cup Unliking \cup Destroying
  BY DEF TypeOK
<1>2. CASE req[t] = Idle
  BY <1>2 DEF Idle
<1>3. CASE req[t] \in Liking
  BY <1>3 DEF Liking
<1>4. CASE req[t] \in Unliking
  BY <1>4 DEF Unliking
<1>5. CASE req[t] \in Destroying
  BY <1>5 DEF Destroying
<1>6. QED
  BY <1>1, <1>2, <1>3, <1>4, <1>5

LEMMA TypeInvariant == TypeOK /\ [Next]_vars => TypeOK'
<1> SUFFICES ASSUME TypeOK, [Next]_vars PROVE TypeOK'
  OBVIOUS
<1> USE DEF TypeOK
<1>1. ASSUME NEW t \in Thread, NEW u \in User, NEW p \in Post, Like(t, u, p) PROVE TypeOK'
  <2>1. [pc |-> "create", row |-> [id |-> 0, user |-> u, post |-> p]] \in Liking
    BY DEF Liking, Favorite
  <2>2. QED
    BY <1>1, <2>1 DEF Like
<1>2. ASSUME NEW t \in Thread, CreateFavorite(t) PROVE TypeOK'
  <2> DEFINE row == [req[t].row EXCEPT !.id = lastId + 1]
  <2>1. row \in Favorite /\ req[t].row \in Favorite
    BY <1>2, RequestKinds DEF CreateFavorite, Favorite
  <2>2. [pc |-> "check", row |-> row] \in Liking /\ [pc |-> "check", row |-> req[t].row] \in Liking
    BY <2>1 DEF Liking
  <2>3. QED
    BY <1>2, <2>1, <2>2 DEF CreateFavorite
<1>3. ASSUME NEW t \in Thread, CheckNotified(t) PROVE TypeOK'
  <2>1. [pc |-> "notify", row |-> req[t].row] \in Liking
    BY <1>3, RequestKinds DEF CheckNotified, Liking
  <2>2. QED
    BY <1>3, <2>1 DEF CheckNotified
<1>4. ASSUME NEW t \in Thread, Notify(t) PROVE TypeOK'
  <2>1. [id |-> lastNotice + 1, visitor |-> req[t].row.user, post |-> req[t].row.post]
          \in Notification
    BY <1>4, RequestKinds DEF Notify, Notification, Favorite
  <2>2. QED
    BY <1>4, <2>1 DEF Notify
<1>5. ASSUME NEW t \in Thread, NEW f \in favorites, Unlike(t, f) PROVE TypeOK'
  <2>1. [pc |-> "unlike", row |-> f] \in Unliking
    BY DEF Unliking
  <2>2. QED
    BY <1>5, <2>1 DEF Unlike
<1>6. ASSUME NEW t \in Thread, DeleteFavorite(t) PROVE TypeOK'
  BY <1>6 DEF DeleteFavorite
<1>7. ASSUME NEW t \in Thread, NEW ps \in SUBSET posts, DestroyPosts(t, ps) PROVE TypeOK'
  <2>1. [pc |-> "destroy", users |-> {}, posts |-> ps, rows |-> {f \in favorites : f.post \in ps},
         notes |-> {n \in notifications : n.post \in ps}] \in Destroying
    BY DEF Destroying
  <2>2. QED
    BY <1>7, <2>1 DEF DestroyPosts
<1>7a. ASSUME NEW t \in Thread, NEW u \in User, DestroyAccount(t, u) PROVE TypeOK'
  <2>1. PostsOf(u) \subseteq posts
    BY DEF PostsOf
  <2>2. [pc |-> "destroy", users |-> {u}, posts |-> PostsOf(u),
         rows |-> {f \in favorites : f.user = u \/ f.post \in PostsOf(u)},
         notes |-> {n \in notifications : n.visitor = u \/ Owner[n.post] = u}] \in Destroying
    BY <2>1 DEF Destroying
  <2>3. QED
    BY <1>7a, <2>1, <2>2 DEF DestroyAccount
<1>8. ASSUME NEW t \in Thread, CommitDestroy(t) PROVE TypeOK'
  BY <1>8 DEF CommitDestroy
<1>9. ASSUME NEW t \in Thread, Abort(t) PROVE TypeOK'
  <2>1. req[t].pc \in {"check", "notify"} => req[t].row.id \in Nat
    BY RequestKinds DEF Favorite
  <2>2. QED
    BY <1>9, <2>1 DEF Abort
<1>10. CASE UNCHANGED vars
  BY <1>10 DEF vars
<1>11. QED
  BY <1>1, <1>2, <1>3, <1>4, <1>5, <1>6, <1>7, <1>7a, <1>8, <1>9, <1>10 DEF Next

\* The tables and the requests always hold rows of the shape the schema gives them.
THEOREM TypeCorrect == Spec => []TypeOK
<1>1. Init => TypeOK
  BY FavoritesAssumption DEF Init, TypeOK
<1>2. QED
  BY <1>1, TypeInvariant, PTL DEF Spec

-----------------------------------------------------------------------------
\* A destroy deletes a notification together with the post or the visitor, or after the post.
DestroysOwnNotices ==
  \A t \in Thread : req[t].pc = "destroy" =>
    \A n \in req[t].notes :
      n.post \in req[t].posts \/ n.visitor \in req[t].users \/ n.post \notin posts

AnnounceInv == TypeOK /\ LikesNameWhatExists /\ DestroysOwnNotices /\ LikesAreAnnounced

LEMMA AnnounceInductive == AnnounceInv /\ [Next]_vars => AnnounceInv'
<1> SUFFICES ASSUME AnnounceInv, [Next]_vars PROVE AnnounceInv'
  OBVIOUS
<1> USE DEF AnnounceInv, LikesNameWhatExists, LikesAreAnnounced, DestroysOwnNotices
<1>1. TypeOK'
  BY TypeInvariant
<1>2. \A t \in Thread : req[t] = Idle => req[t].pc = "idle"
  BY DEF Idle
<1>3. SUFFICES LikesNameWhatExists' /\ DestroysOwnNotices' /\ LikesAreAnnounced'
  BY <1>1
<1>4. ASSUME NEW t \in Thread, NEW u \in User, NEW p \in Post, Like(t, u, p)
      PROVE  LikesNameWhatExists' /\ DestroysOwnNotices' /\ LikesAreAnnounced'
  BY <1>2, <1>4 DEF Like, TypeOK, Told
<1>5. ASSUME NEW t \in Thread, CreateFavorite(t)
      PROVE  LikesNameWhatExists' /\ DestroysOwnNotices' /\ LikesAreAnnounced'
  <2> DEFINE row == [req[t].row EXCEPT !.id = lastId + 1]
  <2>1. /\ req[t].pc = "create" /\ req'[t].pc = "check"
        /\ \A s \in Thread : s # t => req'[s] = req[s]
        /\ UNCHANGED <<users, posts, notifications, silent>>
    BY <1>5 DEF CreateFavorite, TypeOK
  <2>0. row.post = req[t].row.post /\ row.user = req[t].row.user
    BY <1>5, RequestKinds DEF CreateFavorite, Favorite
  <2>2. \/ favorites' = favorites
        \/ /\ favorites' = favorites \cup {row} /\ req'[t].row = row
           /\ row.post \in posts /\ row.user \in users
    BY <1>5, <2>0 DEF CreateFavorite, TypeOK
  <2> HIDE DEF row
  <2>3. DestroysOwnNotices'
    BY <2>1
  <2>4. LikesAreAnnounced'
    BY <2>1, <2>2 DEF Told
  <2>5. QED
    BY <2>1, <2>2, <2>3, <2>4
<1>6. ASSUME NEW t \in Thread, CheckNotified(t)
      PROVE  LikesNameWhatExists' /\ DestroysOwnNotices' /\ LikesAreAnnounced'
  BY <1>6 DEF CheckNotified, TypeOK, Told, Idle
<1>7. ASSUME NEW t \in Thread, Notify(t)
      PROVE  LikesNameWhatExists' /\ DestroysOwnNotices' /\ LikesAreAnnounced'
  <2>1. /\ req[t].pc = "notify" /\ req'[t] = Idle
        /\ \A s \in Thread : s # t => req'[s] = req[s]
        /\ UNCHANGED <<users, posts, favorites, silent>>
    BY <1>7 DEF Notify, TypeOK
  <2>2. \A f \in favorites : Told(f.user, f.post) \subseteq Told(f.user, f.post)'
    BY <1>7 DEF Notify, Told
  <2>3. \A f \in favorites : f = req[t].row => Told(f.user, f.post)' # {}
    <3> DEFINE n == [id |-> lastNotice + 1, visitor |-> req[t].row.user, post |-> req[t].row.post]
    <3>1. n \in notifications' /\ n.visitor = req[t].row.user /\ n.post = req[t].row.post
      BY <1>7 DEF Notify
    <3> HIDE DEF n
    <3>2. \A f \in favorites : f = req[t].row => n \in Told(f.user, f.post)'
      BY <3>1 DEF Told
    <3>3. QED
      BY <3>2
  <2>4. \A f \in favorites : Told(f.user, f.post) # {} => Told(f.user, f.post)' # {}
    BY <2>2
  <2>5. LikesAreAnnounced'
    BY <2>1, <2>3, <2>4
  <2>6. DestroysOwnNotices'
    BY <2>1 DEF Idle
  <2>7. QED
    BY <2>1, <2>5, <2>6
<1>8. ASSUME NEW t \in Thread, NEW f \in favorites, Unlike(t, f)
      PROVE  LikesNameWhatExists' /\ DestroysOwnNotices' /\ LikesAreAnnounced'
  BY <1>2, <1>8 DEF Unlike, TypeOK, Told
<1>9. ASSUME NEW t \in Thread, DeleteFavorite(t)
      PROVE  LikesNameWhatExists' /\ DestroysOwnNotices' /\ LikesAreAnnounced'
  BY <1>9 DEF DeleteFavorite, TypeOK, Told, Idle
<1>10. ASSUME NEW t \in Thread, NEW ps \in SUBSET posts, DestroyPosts(t, ps)
       PROVE  LikesNameWhatExists' /\ DestroysOwnNotices' /\ LikesAreAnnounced'
  <2>1. /\ req[t] = Idle /\ req'[t].posts = ps
        /\ req'[t].notes = {n \in notifications : n.post \in ps}
        /\ \A s \in Thread : s # t => req'[s] = req[s]
        /\ UNCHANGED <<users, posts, favorites, notifications, silent>>
    BY <1>10 DEF DestroyPosts, TypeOK
  <2>2. DestroysOwnNotices'
    BY <2>1
  <2>3. LikesAreAnnounced'
    BY <1>2, <2>1 DEF Told
  <2>4. QED
    BY <2>1, <2>2, <2>3
<1>10a. ASSUME NEW t \in Thread, NEW u \in User, DestroyAccount(t, u)
        PROVE  LikesNameWhatExists' /\ DestroysOwnNotices' /\ LikesAreAnnounced'
  <2>1. /\ req[t] = Idle /\ req'[t].posts = PostsOf(u) /\ req'[t].users = {u}
        /\ req'[t].notes = {n \in notifications : n.visitor = u \/ Owner[n.post] = u}
        /\ \A s \in Thread : s # t => req'[s] = req[s]
        /\ UNCHANGED <<users, posts, favorites, notifications, silent>>
    BY <1>10a DEF DestroyAccount, TypeOK
  <2>2. DestroysOwnNotices'
    BY <2>1 DEF PostsOf
  <2>3. LikesAreAnnounced'
    BY <1>2, <2>1 DEF Told
  <2>4. QED
    BY <2>1, <2>2, <2>3
<1>11. ASSUME NEW t \in Thread, CommitDestroy(t)
       PROVE  LikesNameWhatExists' /\ DestroysOwnNotices' /\ LikesAreAnnounced'
  <2>1. /\ req[t].pc = "destroy" /\ req'[t] = Idle
        /\ \A s \in Thread : s # t => req'[s] = req[s]
        /\ silent' = silent
    BY <1>11 DEF CommitDestroy, TypeOK
  <2>2. \/ UNCHANGED <<users, posts, favorites, notifications>>
        \/ /\ users' = users \ req[t].users
           /\ posts' = posts \ req[t].posts
           /\ \A f \in favorites' :
                f \in favorites /\ f.post \notin req[t].posts /\ f.user \notin req[t].users
           /\ notifications' = notifications \ req[t].notes
    BY <1>11 DEF CommitDestroy
  <2>3. LikesNameWhatExists'
    BY <2>2
  <2>4. \A f \in favorites' : Told(f.user, f.post)' = Told(f.user, f.post)
    BY <2>1, <2>2 DEF Told
  <2>5. DestroysOwnNotices'
    BY <2>1, <2>2 DEF Idle
  <2>6. LikesAreAnnounced'
    BY <2>1, <2>2, <2>4
  <2>7. QED
    BY <2>3, <2>5, <2>6
<1>12. ASSUME NEW t \in Thread, Abort(t)
       PROVE  LikesNameWhatExists' /\ DestroysOwnNotices' /\ LikesAreAnnounced'
  BY <1>12 DEF Abort, TypeOK, Told, Idle
<1>13. CASE UNCHANGED vars
  BY <1>13 DEF vars, Told
<1>14. QED
  BY <1>4, <1>5, <1>6, <1>7, <1>8, <1>9, <1>10, <1>10a, <1>11, <1>12, <1>13 DEF Next

LEMMA AnnounceInit == Init => AnnounceInv
BY FavoritesAssumption
   DEF Init, AnnounceInv, TypeOK, LikesNameWhatExists, LikesAreAnnounced, DestroysOwnNotices, Idle

\* A like that stands has been announced once its request has ended (post.rb:71-90).
THEOREM Announced == Spec => []LikesAreAnnounced
<1>1. Init => AnnounceInv
  BY AnnounceInit
<1>2. AnnounceInv => LikesAreAnnounced
  BY DEF AnnounceInv
<1>3. QED
  BY <1>1, <1>2, AnnounceInductive, PTL DEF Spec

\* No like is left without its post or its account, whichever destroys and likes race
\* (schema.rb:188-189, user.rb:8-9).
THEOREM LikesNameTheLiving == Spec => []LikesNameWhatExists
<1>1. AnnounceInv => LikesNameWhatExists
  BY DEF AnnounceInv
<1>2. QED
  BY <1>1, AnnounceInit, AnnounceInductive, PTL DEF Spec

-----------------------------------------------------------------------------
BoundInv == TypeOK /\ IsFiniteSet(notifications) /\ DuplicatesBounded

\* Fewer notifications and fewer threads about to write one keep the bound.
LEMMA BoundShrinks ==
  ASSUME BoundInv, NEW u \in User, NEW p \in Post,
         Told(u, p)' \subseteq Told(u, p), AboutToTell(u, p)' \subseteq AboutToTell(u, p)
  PROVE  Cardinality(Told(u, p)') + Cardinality(AboutToTell(u, p)') <= Cardinality(Thread)
<1>1. IsFiniteSet(Told(u, p)) /\ IsFiniteSet(AboutToTell(u, p))
  <2>1. Told(u, p) \in SUBSET notifications /\ AboutToTell(u, p) \in SUBSET Thread
    BY DEF Told, AboutToTell
  <2>2. QED
    BY <2>1, FS_Subset, FavoritesAssumption DEF BoundInv
<1>2. /\ IsFiniteSet(Told(u, p)') /\ Cardinality(Told(u, p)') <= Cardinality(Told(u, p))
      /\ IsFiniteSet(AboutToTell(u, p)')
      /\ Cardinality(AboutToTell(u, p)') <= Cardinality(AboutToTell(u, p))
  BY <1>1, FS_Subset
<1>3. /\ Cardinality(Told(u, p)) \in Nat /\ Cardinality(Told(u, p)') \in Nat
      /\ Cardinality(AboutToTell(u, p)) \in Nat /\ Cardinality(AboutToTell(u, p)') \in Nat
      /\ Cardinality(Thread) \in Nat
  BY <1>1, <1>2, FS_CardinalityType, FavoritesAssumption
<1>4. Cardinality(Told(u, p)) + Cardinality(AboutToTell(u, p)) <= Cardinality(Thread)
  BY DEF BoundInv, DuplicatesBounded
<1>5. QED
  BY <1>2, <1>3, <1>4

LEMMA BoundInductive == BoundInv /\ [Next]_vars => BoundInv'
<1> SUFFICES ASSUME BoundInv, [Next]_vars PROVE BoundInv'
  OBVIOUS
<1>1. TypeOK'
  BY TypeInvariant DEF BoundInv
<1>2. IsFiniteSet(notifications')
  <2>1. \/ notifications' \subseteq notifications
        \/ \E n : notifications' = notifications \cup {n}
    BY DEF Next, Like, CreateFavorite, CheckNotified, Notify, Unlike, DeleteFavorite,
           DestroyPosts, DestroyAccount, CommitDestroy, Abort, vars
  <2>2. QED
    BY <2>1, FS_Subset, FS_AddElement DEF BoundInv
<1>3. SUFFICES ASSUME NEW u \in User, NEW p \in Post
               PROVE  Cardinality(Told(u, p)') + Cardinality(AboutToTell(u, p)')
                        <= Cardinality(Thread)
  BY <1>1, <1>2 DEF BoundInv, DuplicatesBounded
<1>4. ASSUME NEW t \in Thread, CheckNotified(t), AboutToTell(u, p)' # AboutToTell(u, p)
      PROVE  Cardinality(Told(u, p)') + Cardinality(AboutToTell(u, p)') <= Cardinality(Thread)
  <2>1. CASE Told(u, p) = {}
    <3>1. Told(u, p)' = {}
      BY <1>4, <2>1 DEF CheckNotified, Told
    <3>2. AboutToTell(u, p)' \in SUBSET Thread
      BY DEF AboutToTell
    <3>3. Cardinality(AboutToTell(u, p)') <= Cardinality(Thread)
      BY <3>2, FS_Subset, FavoritesAssumption
    <3>4. Cardinality(AboutToTell(u, p)') \in Nat /\ Cardinality(Thread) \in Nat
      BY <3>2, FS_Subset, FS_CardinalityType, FavoritesAssumption
    <3>5. QED
      BY <3>1, <3>3, <3>4, FS_EmptySet
  <2>2. CASE Told(u, p) # {}
    <3>1. Told(u, p)' = Told(u, p)
      BY <1>4 DEF CheckNotified, Told
    <3>2. AboutToTell(u, p)' \subseteq AboutToTell(u, p)
      BY <1>4, <2>2 DEF CheckNotified, AboutToTell, BoundInv, TypeOK, Idle
    <3>3. QED
      BY <3>1, <3>2, BoundShrinks
  <2>3. QED
    BY <2>1, <2>2
<1>5. ASSUME NEW t \in Thread, Notify(t), t \in AboutToTell(u, p)
      PROVE  Cardinality(Told(u, p)') + Cardinality(AboutToTell(u, p)') <= Cardinality(Thread)
  <2> DEFINE n == [id |-> lastNotice + 1, visitor |-> req[t].row.user, post |-> req[t].row.post]
  <2>1. Told(u, p)' = Told(u, p) \cup {n}
    BY <1>5 DEF Notify, Told, AboutToTell
  <2>2. AboutToTell(u, p)' = AboutToTell(u, p) \ {t}
    BY <1>5 DEF Notify, AboutToTell, BoundInv, TypeOK, Idle
  <2>3. IsFiniteSet(Told(u, p)) /\ IsFiniteSet(AboutToTell(u, p))
    <3>1. Told(u, p) \in SUBSET notifications /\ AboutToTell(u, p) \in SUBSET Thread
      BY DEF Told, AboutToTell
    <3>2. QED
      BY <3>1, FS_Subset, FavoritesAssumption DEF BoundInv
  <2> HIDE DEF n
  <2>4. Cardinality(Told(u, p)') \in {Cardinality(Told(u, p)), Cardinality(Told(u, p)) + 1}
    BY <2>1, <2>3, FS_AddElement
  <2>5. Cardinality(AboutToTell(u, p)') = Cardinality(AboutToTell(u, p)) - 1
    BY <1>5, <2>2, <2>3, FS_RemoveElement
  <2>6. /\ Cardinality(Told(u, p)) \in Nat /\ Cardinality(AboutToTell(u, p)) \in Nat
        /\ Cardinality(Thread) \in Nat
    BY <2>3, FS_CardinalityType, FavoritesAssumption
  <2>7. Cardinality(Told(u, p)) + Cardinality(AboutToTell(u, p)) <= Cardinality(Thread)
    BY DEF BoundInv, DuplicatesBounded
  <2>8. QED
    BY <2>4, <2>5, <2>6, <2>7
<1>6. ASSUME NEW t \in Thread, Notify(t), t \notin AboutToTell(u, p)
      PROVE  Told(u, p)' = Told(u, p) /\ AboutToTell(u, p)' = AboutToTell(u, p)
  BY <1>6 DEF Notify, Told, AboutToTell, BoundInv, TypeOK, Idle
<1>7. ASSUME NEW t \in Thread,
             \/ \E v \in User, q \in Post : Like(t, v, q)
             \/ CreateFavorite(t)
             \/ \E f \in favorites : Unlike(t, f)
             \/ DeleteFavorite(t)
             \/ \E ps \in SUBSET posts : DestroyPosts(t, ps)
             \/ \E v \in User : DestroyAccount(t, v)
             \/ CommitDestroy(t)
             \/ Abort(t)
      PROVE  Told(u, p)' \subseteq Told(u, p) /\ AboutToTell(u, p)' \subseteq AboutToTell(u, p)
  <2>1. notifications' \subseteq notifications
    BY <1>7 DEF Like, CreateFavorite, Unlike, DeleteFavorite, DestroyPosts, DestroyAccount,
                CommitDestroy, Abort
  <2>2. \E r : r.pc # "notify" /\ req' = [req EXCEPT ![t] = r]
    <3>1. Idle.pc # "notify"
      BY DEF Idle
    <3>2. CASE CreateFavorite(t)
      BY <3>2 DEF CreateFavorite
    <3>3. CASE ~CreateFavorite(t)
      BY <1>7, <3>1, <3>3 DEF Like, Unlike, DeleteFavorite, DestroyPosts, DestroyAccount,
                CommitDestroy, Abort
    <3>4. QED
      BY <3>2, <3>3
  <2>3. req'[t].pc # "notify" /\ \A s \in Thread : s # t => req'[s] = req[s]
    BY <2>2 DEF BoundInv, TypeOK
  <2>4. QED
    BY <2>1, <2>3 DEF Told, AboutToTell
<1>8. CASE UNCHANGED vars
  <2>1. Told(u, p)' = Told(u, p) /\ AboutToTell(u, p)' = AboutToTell(u, p)
    BY <1>8 DEF vars, Told, AboutToTell
  <2>2. QED
    BY <2>1, BoundShrinks
<1>9. ASSUME NEW t \in Thread, CheckNotified(t), AboutToTell(u, p)' = AboutToTell(u, p)
      PROVE  Told(u, p)' = Told(u, p)
  BY <1>9 DEF CheckNotified, Told
<1>10. QED
  BY <1>4, <1>5, <1>6, <1>7, <1>8, <1>9, BoundShrinks DEF Next

LEMMA BoundInit == Init => BoundInv
<1> SUFFICES ASSUME Init PROVE BoundInv
  OBVIOUS
<1>1. \A u \in User, p \in Post : Told(u, p) = {} /\ AboutToTell(u, p) = {}
  BY DEF Init, Told, AboutToTell, Idle
<1>2. Cardinality(Thread) \in Nat /\ Cardinality({}) = 0
  BY FS_CardinalityType, FS_EmptySet, FavoritesAssumption
<1>3. DuplicatesBounded
  BY <1>1, <1>2 DEF DuplicatesBounded
<1>4. TypeOK
  BY FavoritesAssumption DEF Init, TypeOK
<1>5. QED
  BY <1>3, <1>4, FS_EmptySet DEF Init, BoundInv

\* The notifications about one user's likes of one post never outnumber the threads:
\* the check-then-insert of post.rb:76-89 leaks at most one per racing request.
THEOREM BoundedDuplicates == Spec => []DuplicatesBounded
<1>1. BoundInv => DuplicatesBounded
  BY DEF BoundInv
<1>2. QED
  BY <1>1, BoundInit, BoundInductive, PTL DEF Spec

\* With one thread the owner is told at most once however often a user likes and
\* unlikes the post, which is what the comment at post.rb:77 asks for.
THEOREM SerialToldOnce ==
  ASSUME Cardinality(Thread) = 1
  PROVE  Spec => []ToldAtMostOnce
<1>1. BoundInv => ToldAtMostOnce
  <2> SUFFICES ASSUME BoundInv, NEW u \in User, NEW p \in Post
               PROVE  Cardinality(Told(u, p)) <= 1
    BY DEF ToldAtMostOnce
  <2>1. Told(u, p) \in SUBSET notifications /\ AboutToTell(u, p) \in SUBSET Thread
    BY DEF Told, AboutToTell
  <2>2. Cardinality(Told(u, p)) \in Nat /\ Cardinality(AboutToTell(u, p)) \in Nat
    BY <2>1, FS_Subset, FS_CardinalityType, FavoritesAssumption DEF BoundInv
  <2>3. Cardinality(Told(u, p)) + Cardinality(AboutToTell(u, p)) <= 1
    BY DEF BoundInv, DuplicatesBounded
  <2>4. QED
    BY <2>2, <2>3
<1>2. QED
  BY <1>1, BoundInit, BoundInductive, PTL DEF Spec

-----------------------------------------------------------------------------
\* A like on its way keeps its post and its user, and a destroy knows all notifications
\* about the one and from the other, unless the two have met.
PostRace(t, p) ==
  /\ Liked(t, p) => p \in posts \cup contended
  /\ Deleting(t, p) /\ p \notin contended =>
       /\ \A s \in Thread : ~Liked(s, p)
       /\ \A n \in notifications : n.post = p => n \in req[t].notes

AccountRace(t, u) ==
  /\ Likes(t, u) => u \in users \cup contended
  /\ Closing(t, u) /\ u \notin contended =>
       /\ \A s \in Thread : ~Likes(s, u)
       /\ \A n \in notifications : n.visitor = u => n \in req[t].notes

RacesAreNoticed ==
  /\ \A t \in Thread, p \in Post : PostRace(t, p)
  /\ \A t \in Thread, u \in User : AccountRace(t, u)

LeakInv == TypeOK /\ OnlyRacesLeak /\ RacesAreNoticed

\* A step of a thread that takes up a like, goes on with it or drops it, and adds no
\* notification but about the post and from the user of the like it has in hand.
LEMMA LikingStep ==
  ASSUME LeakInv, TypeOK', NEW t \in Thread,
         \A s \in Thread : s # t => req'[s] = req[s],
         UNCHANGED <<users, posts>>, contended \subseteq contended',
         \A q \in Post :
           /\ ~Deleting(t, q)'
           /\ Liked(t, q)' =>
                Liked(t, q)
                \/ (q \in posts /\ ((\E s \in Thread : Deleting(s, q)) => q \in contended')),
         \A v \in User :
           /\ ~Closing(t, v)'
           /\ Likes(t, v)' =>
                Likes(t, v)
                \/ (v \in users /\ ((\E s \in Thread : Closing(s, v)) => v \in contended')),
         \A n \in notifications' \ notifications : Liked(t, n.post) /\ Likes(t, n.visitor)
  PROVE  OnlyRacesLeak' /\ RacesAreNoticed'
<1>1. \A n \in notifications' : n.post \in Post /\ n.visitor \in User
  BY DEF TypeOK, Notification
<1>2. OnlyRacesLeak'
  <2>1. \A q \in Post : Liked(t, q) => q \in posts \cup contended
    BY DEF LeakInv, RacesAreNoticed, PostRace
  <2>2. \A v \in User : Likes(t, v) => v \in users \cup contended
    BY DEF LeakInv, RacesAreNoticed, AccountRace
  <2>3. QED
    BY <1>1, <2>1, <2>2 DEF LeakInv, OnlyRacesLeak
<1>3. ASSUME NEW s \in Thread, NEW q \in Post PROVE PostRace(s, q)'
  <2>1. Liked(s, q)' => q \in posts' \cup contended'
    BY DEF LeakInv, RacesAreNoticed, PostRace, Liked
  <2>2. ASSUME Deleting(s, q)', q \notin contended'
        PROVE  /\ \A r \in Thread : ~Liked(r, q)'
               /\ \A n \in notifications' : n.post = q => n \in req'[s].notes
    <3>1. s # t /\ Deleting(s, q) /\ req'[s] = req[s] /\ q \notin contended
      BY <2>2 DEF Deleting
    <3>2. /\ \A r \in Thread : ~Liked(r, q)
          /\ \A n \in notifications : n.post = q => n \in req[s].notes
      BY <3>1 DEF LeakInv, RacesAreNoticed, PostRace
    <3>3. ~Liked(t, q)'
      BY <2>2, <3>1, <3>2
    <3>4. \A r \in Thread : ~Liked(r, q)'
      BY <3>2, <3>3 DEF Liked
    <3>5. QED
      BY <3>1, <3>2, <3>4
  <2>3. QED
    BY <2>1, <2>2 DEF PostRace
<1>4. ASSUME NEW s \in Thread, NEW v \in User PROVE AccountRace(s, v)'
  <2>1. Likes(s, v)' => v \in users' \cup contended'
    BY DEF LeakInv, RacesAreNoticed, AccountRace, Likes
  <2>2. ASSUME Closing(s, v)', v \notin contended'
        PROVE  /\ \A r \in Thread : ~Likes(r, v)'
               /\ \A n \in notifications' : n.visitor = v => n \in req'[s].notes
    <3>1. s # t /\ Closing(s, v) /\ req'[s] = req[s] /\ v \notin contended
      BY <2>2 DEF Closing
    <3>2. /\ \A r \in Thread : ~Likes(r, v)
          /\ \A n \in notifications : n.visitor = v => n \in req[s].notes
      BY <3>1 DEF LeakInv, RacesAreNoticed, AccountRace
    <3>3. ~Likes(t, v)'
      BY <2>2, <3>1, <3>2
    <3>4. \A r \in Thread : ~Likes(r, v)'
      BY <3>2, <3>3 DEF Likes
    <3>5. QED
      BY <3>1, <3>2, <3>4
  <2>3. QED
    BY <2>1, <2>2 DEF AccountRace
<1>5. QED
  BY <1>2, <1>3, <1>4 DEF RacesAreNoticed

\* A destroy that has read all there is of its posts and of its accounts.
LEMMA DestroyingStep ==
  ASSUME LeakInv, NEW t \in Thread,
         \A s \in Thread : s # t => req'[s] = req[s],
         UNCHANGED <<users, posts, notifications>>, contended \subseteq contended',
         req'[t].pc = "destroy",
         \A q \in req'[t].posts \ contended' :
           /\ \A s \in Thread : ~Liked(s, q)
           /\ \A n \in notifications : n.post = q => n \in req'[t].notes,
         \A v \in req'[t].users \ contended' :
           /\ \A s \in Thread : ~Likes(s, v)
           /\ \A n \in notifications : n.visitor = v => n \in req'[t].notes
  PROVE  OnlyRacesLeak' /\ RacesAreNoticed'
<1>1. OnlyRacesLeak'
  BY DEF LeakInv, OnlyRacesLeak
<1>2. \A s \in Thread, q \in Post : Liked(s, q)' => s # t /\ Liked(s, q)
  BY DEF Liked
<1>3. \A s \in Thread, v \in User : Likes(s, v)' => s # t /\ Likes(s, v)
  BY DEF Likes
<1>4. ASSUME NEW s \in Thread, NEW q \in Post PROVE PostRace(s, q)'
  <2>1. CASE s = t
    BY <1>2, <2>1 DEF PostRace, Deleting
  <2>2. CASE s # t
    BY <1>2, <2>2 DEF LeakInv, RacesAreNoticed, PostRace, Deleting
  <2>3. QED
    BY <2>1, <2>2
<1>5. ASSUME NEW s \in Thread, NEW v \in User PROVE AccountRace(s, v)'
  <2>1. CASE s = t
    BY <1>3, <2>1 DEF AccountRace, Closing
  <2>2. CASE s # t
    BY <1>3, <2>2 DEF LeakInv, RacesAreNoticed, AccountRace, Closing
  <2>3. QED
    BY <2>1, <2>2
<1>6. QED
  BY <1>1, <1>4, <1>5 DEF RacesAreNoticed

LEMMA LeakCommitStep ==
  ASSUME LeakInv, TypeOK', NEW t \in Thread, CommitDestroy(t)
  PROVE  OnlyRacesLeak' /\ RacesAreNoticed'
<1>1. /\ req[t].pc = "destroy" /\ req'[t].pc = "idle" /\ contended' = contended
      /\ \A s \in Thread : s # t => req'[s] = req[s]
  BY DEF CommitDestroy, LeakInv, TypeOK, Idle
<1>2. CASE UNCHANGED <<users, posts, notifications>>
  <2>1. /\ \A q \in Post : ~Deleting(t, q)' /\ ~Liked(t, q)'
        /\ \A v \in User : ~Closing(t, v)' /\ ~Likes(t, v)'
    BY <1>1 DEF Deleting, Liked, Closing, Likes
  <2>2. QED
    BY <1>1, <1>2, <2>1, LikingStep
<1>3. CASE /\ users' = users \ req[t].users /\ posts' = posts \ req[t].posts
           /\ notifications' = notifications \ req[t].notes
  <2>1. \A s \in Thread, q \in Post :
          /\ Liked(s, q)' => Liked(s, q)
          /\ Deleting(s, q)' => Deleting(s, q) /\ req'[s] = req[s]
    BY <1>1 DEF Liked, Deleting
  <2>2. \A s \in Thread, v \in User :
          /\ Likes(s, v)' => Likes(s, v)
          /\ Closing(s, v)' => Closing(s, v) /\ req'[s] = req[s]
    BY <1>1 DEF Likes, Closing
  <2>3. \A q \in Post : q \in req[t].posts /\ q \notin contended =>
          (\A s \in Thread : ~Liked(s, q)) /\ (\A n \in notifications' : n.post # q)
    BY <1>1, <1>3 DEF LeakInv, RacesAreNoticed, PostRace, Deleting
  <2>4. \A v \in User : v \in req[t].users /\ v \notin contended =>
          (\A s \in Thread : ~Likes(s, v)) /\ (\A n \in notifications' : n.visitor # v)
    BY <1>1, <1>3 DEF LeakInv, RacesAreNoticed, AccountRace, Closing
  <2>5. ASSUME NEW n \in notifications'
        PROVE  n.post \in posts' \cup contended' /\ n.visitor \in users' \cup contended'
    <3>1. n \in notifications /\ n.post \in Post /\ n.visitor \in User
      BY <1>3 DEF LeakInv, TypeOK, Notification
    <3>2. n.post \in posts \cup contended /\ n.visitor \in users \cup contended
      BY <3>1 DEF LeakInv, OnlyRacesLeak
    <3>3. QED
      BY <1>1, <1>3, <2>3, <2>4, <3>1, <3>2
  <2>6. ASSUME NEW s \in Thread, NEW q \in Post PROVE PostRace(s, q)'
    BY <1>1, <1>3, <2>1, <2>3 DEF LeakInv, RacesAreNoticed, PostRace
  <2>7. ASSUME NEW s \in Thread, NEW v \in User PROVE AccountRace(s, v)'
    BY <1>1, <1>3, <2>2, <2>4 DEF LeakInv, RacesAreNoticed, AccountRace
  <2>8. QED
    BY <2>5, <2>6, <2>7 DEF OnlyRacesLeak, RacesAreNoticed
<1>4. QED
  BY <1>2, <1>3 DEF CommitDestroy

LEMMA LeakInductive == LeakInv /\ [Next]_vars => LeakInv'
<1> SUFFICES ASSUME LeakInv, [Next]_vars PROVE LeakInv'
  OBVIOUS
<1>1. TypeOK /\ TypeOK'
  BY TypeInvariant DEF LeakInv
<1>2. SUFFICES OnlyRacesLeak' /\ RacesAreNoticed'
  BY <1>1 DEF LeakInv
\* A step of t that tells nobody and takes up nothing.
<1>3. ASSUME NEW t \in Thread,
             \A s \in Thread : s # t => req'[s] = req[s],
             UNCHANGED <<users, posts, notifications, contended>>,
             req'[t].pc # "destroy",
             req'[t].pc \in {"create", "check", "notify"} =>
               /\ req[t].pc \in {"create", "check", "notify"}
               /\ req'[t].row.post = req[t].row.post /\ req'[t].row.user = req[t].row.user
      PROVE  OnlyRacesLeak' /\ RacesAreNoticed'
  <2>1. /\ \A q \in Post : ~Deleting(t, q)' /\ (Liked(t, q)' => Liked(t, q))
        /\ \A v \in User : ~Closing(t, v)' /\ (Likes(t, v)' => Likes(t, v))
    BY <1>3 DEF Deleting, Liked, Closing, Likes
  <2>2. QED
    BY <1>1, <1>3, <2>1, LikingStep
<1>4. ASSUME NEW t \in Thread, NEW u \in User, NEW p \in Post, Like(t, u, p)
      PROVE  OnlyRacesLeak' /\ RacesAreNoticed'
  <2>1. /\ p \in posts /\ u \in users
        /\ UNCHANGED <<users, posts, notifications>>
        /\ contended \subseteq contended'
        /\ (\E s \in Thread : Deleting(s, p)) => p \in contended'
        /\ (\E s \in Thread : Closing(s, u)) => u \in contended'
        /\ req'[t].pc = "create"
        /\ req'[t].row.post = p /\ req'[t].row.user = u
        /\ \A s \in Thread : s # t => req'[s] = req[s]
    BY <1>1, <1>4 DEF Like, TypeOK
  <2>2. /\ \A q \in Post : ~Deleting(t, q)' /\ (Liked(t, q)' => q = p)
        /\ \A v \in User : ~Closing(t, v)' /\ (Likes(t, v)' => v = u)
    BY <2>1 DEF Deleting, Liked, Closing, Likes
  <2>3. QED
    BY <1>1, <2>1, <2>2, LikingStep
<1>5. ASSUME NEW t \in Thread, CreateFavorite(t) PROVE OnlyRacesLeak' /\ RacesAreNoticed'
  <2> DEFINE row == [req[t].row EXCEPT !.id = lastId + 1]
  <2>1. row.post = req[t].row.post /\ row.user = req[t].row.user
    BY <1>1, <1>5, RequestKinds DEF CreateFavorite, Favorite
  <2>2. /\ req[t].pc = "create" /\ req'[t].pc = "check" /\ req'[t].row \in {row, req[t].row}
        /\ \A s \in Thread : s # t => req'[s] = req[s]
        /\ UNCHANGED <<users, posts, notifications, contended>>
    BY <1>1, <1>5 DEF CreateFavorite, TypeOK
  <2> HIDE DEF row
  <2>3. QED
    BY <1>3, <2>1, <2>2
<1>6. ASSUME NEW t \in Thread, CheckNotified(t) PROVE OnlyRacesLeak' /\ RacesAreNoticed'
  <2>1. /\ req[t].pc = "check"
        /\ req'[t] = Idle \/ (req'[t].pc = "notify" /\ req'[t].row = req[t].row)
        /\ \A s \in Thread : s # t => req'[s] = req[s]
        /\ UNCHANGED <<users, posts, notifications, contended>>
    BY <1>1, <1>6 DEF CheckNotified, TypeOK
  <2>2. QED
    BY <1>3, <2>1 DEF Idle
<1>7. ASSUME NEW t \in Thread, Notify(t) PROVE OnlyRacesLeak' /\ RacesAreNoticed'
  <2> DEFINE n == [id |-> lastNotice + 1, visitor |-> req[t].row.user, post |-> req[t].row.post]
  <2>1. n.post = req[t].row.post /\ n.visitor = req[t].row.user
    OBVIOUS
  <2>2. /\ req[t].pc = "notify" /\ req'[t].pc = "idle" /\ notifications' = notifications \cup {n}
        /\ \A s \in Thread : s # t => req'[s] = req[s]
        /\ UNCHANGED <<users, posts, contended>>
    BY <1>1, <1>7 DEF Notify, TypeOK, Idle
  <2> HIDE DEF n
  <2>3. /\ Liked(t, n.post) /\ Likes(t, n.visitor)
        /\ \A q \in Post : ~Deleting(t, q)' /\ ~Liked(t, q)'
        /\ \A v \in User : ~Closing(t, v)' /\ ~Likes(t, v)'
    BY <2>1, <2>2 DEF Deleting, Liked, Closing, Likes
  <2>4. QED
    BY <1>1, <2>2, <2>3, LikingStep
<1>8. ASSUME NEW t \in Thread, NEW f \in favorites, Unlike(t, f)
      PROVE  OnlyRacesLeak' /\ RacesAreNoticed'
  BY <1>1, <1>3, <1>8 DEF Unlike, TypeOK
<1>9. ASSUME NEW t \in Thread, DeleteFavorite(t) PROVE OnlyRacesLeak' /\ RacesAreNoticed'
  BY <1>1, <1>3, <1>9 DEF DeleteFavorite, TypeOK, Idle
<1>10. ASSUME NEW t \in Thread, NEW ps \in SUBSET posts, DestroyPosts(t, ps)
       PROVE  OnlyRacesLeak' /\ RacesAreNoticed'
  <2>1. /\ UNCHANGED <<users, posts, notifications>>
        /\ contended' = contended \cup {p \in ps : \E s \in Thread : Liked(s, p)}
        /\ req'[t].pc = "destroy" /\ req'[t].posts = ps /\ req'[t].users = {}
        /\ req'[t].notes = {n \in notifications : n.post \in ps}
        /\ \A s \in Thread : s # t => req'[s] = req[s]
    BY <1>1, <1>10 DEF DestroyPosts, TypeOK
  <2>2. QED
    BY <2>1, DestroyingStep
<1>11. ASSUME NEW t \in Thread, NEW u \in User, DestroyAccount(t, u)
       PROVE  OnlyRacesLeak' /\ RacesAreNoticed'
  <2>1. /\ UNCHANGED <<users, posts, notifications>>
        /\ contended' = contended
             \cup {p \in PostsOf(u) : \E s \in Thread : Liked(s, p)}
             \cup {v \in {u} : \E s \in Thread : Likes(s, v)}
        /\ req'[t].pc = "destroy" /\ req'[t].posts = PostsOf(u) /\ req'[t].users = {u}
        /\ req'[t].notes = {n \in notifications : n.visitor = u \/ Owner[n.post] = u}
        /\ \A s \in Thread : s # t => req'[s] = req[s]
    BY <1>1, <1>11 DEF DestroyAccount, TypeOK
  <2>2. \A q \in PostsOf(u) : Owner[q] = u
    BY DEF PostsOf
  <2>3. QED
    BY <2>1, <2>2, DestroyingStep
<1>12. ASSUME NEW t \in Thread, Abort(t) PROVE OnlyRacesLeak' /\ RacesAreNoticed'
  BY <1>1, <1>3, <1>12 DEF Abort, TypeOK, Idle
<1>13. CASE UNCHANGED vars
  BY <1>13 DEF vars, LeakInv, OnlyRacesLeak, RacesAreNoticed, PostRace, AccountRace,
       Liked, Deleting, Likes, Closing
<1>14. QED
  BY <1>1, <1>4, <1>5, <1>6, <1>7, <1>8, <1>9, <1>10, <1>11, <1>12, <1>13, LeakCommitStep
     DEF Next

\* The cascades of post.rb:10 and user.rb:8-12 leave no notification of a like without its
\* post or its visitor, in any number of threads, but where a like and a destroy meet.
THEOREM RacesAloneLeak == Spec => []OnlyRacesLeak
<1>1. Init => LeakInv
  BY FavoritesAssumption
     DEF Init, LeakInv, TypeOK, OnlyRacesLeak, RacesAreNoticed, PostRace, AccountRace,
         Liked, Deleting, Likes, Closing, Idle
<1>2. LeakInv => OnlyRacesLeak
  BY DEF LeakInv
<1>3. QED
  BY <1>1, <1>2, LeakInductive, PTL DEF Spec

-----------------------------------------------------------------------------
\* The destroy of a post, a software or an account has the application to itself.
CascadesAlone ==
  \A s, t \in Thread : req[s].pc = "destroy" /\ req[t] # Idle => s = t

\* What dependent: :destroy promises, with nothing excepted.
NothingLeft == \A n \in notifications : n.post \in posts /\ n.visitor \in users

LEMMA NothingContends ==
  ASSUME TypeOK, contended = {}, [Next]_vars, CascadesAlone, CascadesAlone'
  PROVE  contended' = {}
<1>1. ASSUME NEW t \in Thread, NEW u \in User, NEW p \in Post, Like(t, u, p)
      PROVE  contended' = {}
  <2>1. /\ req[t] = Idle /\ req'[t].pc = "create" /\ \A s \in Thread : s # t => req'[s] = req[s]
        /\ contended' = contended \cup {q \in {p} : \E s \in Thread : Deleting(s, q)}
                                  \cup {v \in {u} : \E s \in Thread : Closing(s, v)}
    BY <1>1 DEF Like, TypeOK
  <2>2. ASSUME NEW s \in Thread PROVE ~Deleting(s, p) /\ ~Closing(s, u)
    <3>1. req'[t] # Idle
      BY <2>1 DEF Idle
    <3>2. CASE s = t
      BY <2>1, <3>2 DEF Deleting, Closing, Idle
    <3>3. CASE s # t
      BY <2>1, <3>1, <3>3 DEF Deleting, Closing, CascadesAlone
    <3>4. QED
      BY <3>2, <3>3
  <2>3. QED
    BY <2>1, <2>2
<1>2. ASSUME NEW t \in Thread, NEW ps \in SUBSET posts, DestroyPosts(t, ps)
      PROVE  contended' = {}
  <2>1. /\ req[t] = Idle /\ req'[t].pc = "destroy"
        /\ \A s \in Thread : s # t => req'[s] = req[s]
        /\ contended' = contended \cup {p \in ps : \E s \in Thread : Liked(s, p)}
    BY <1>2 DEF DestroyPosts, TypeOK
  <2>2. ASSUME NEW p \in ps, NEW s \in Thread PROVE ~Liked(s, p)
    BY <2>1 DEF Liked, Idle, CascadesAlone
  <2>3. QED
    BY <2>1, <2>2
<1>3. ASSUME NEW t \in Thread, NEW u \in User, DestroyAccount(t, u) PROVE contended' = {}
  <2>1. /\ req[t] = Idle /\ req'[t].pc = "destroy"
        /\ \A s \in Thread : s # t => req'[s] = req[s]
        /\ contended' = contended
             \cup {p \in PostsOf(u) : \E s \in Thread : Liked(s, p)}
             \cup {v \in {u} : \E s \in Thread : Likes(s, v)}
    BY <1>3 DEF DestroyAccount, TypeOK
  <2>2. ASSUME NEW s \in Thread, NEW p PROVE ~Liked(s, p) /\ ~Likes(s, u)
    BY <2>1 DEF Liked, Likes, Idle, CascadesAlone
  <2>3. QED
    BY <2>1, <2>2
<1>4. QED
  BY <1>1, <1>2, <1>3 DEF Next, vars, CreateFavorite, CheckNotified, Notify, Unlike,
     DeleteFavorite, CommitDestroy, Abort

\* If whoever destroys a post, a software or an account were alone with the database, no
\* notification of a like would be left behind (post.rb:10, user.rb:8-12), however many
\* likes come at once.
THEOREM AloneNothingLeaks == Spec /\ []CascadesAlone => []NothingLeft
<1> DEFINE Inv == TypeOK /\ contended = {}
<1>1. Init => Inv
  BY FavoritesAssumption DEF Init, TypeOK, Idle
<1>2. Inv /\ CascadesAlone /\ CascadesAlone' /\ [Next]_vars => Inv'
  BY TypeInvariant, NothingContends
<1>3. OnlyRacesLeak /\ Inv => NothingLeft
  BY DEF OnlyRacesLeak, NothingLeft
<1> HIDE DEF Inv
<1>4. QED
  BY <1>1, <1>2, <1>3, RacesAloneLeak, PTL DEF Spec

-----------------------------------------------------------------------------
\* One button is not served twice at once: a user's likes of a post come one after another.
LikesApart ==
  \A s, t \in Thread : /\ req[s].pc \in {"create", "check", "notify"} /\ Likes(t, req[s].row.user)
                       /\ Liked(t, req[s].row.post) => s = t

\* The owner has been told, or is about to be, or neither.
OnceOrSoon ==
  \A u \in User, p \in Post :
    /\ \A m, n \in Told(u, p) : m = n
    /\ AboutToTell(u, p) # {} => Told(u, p) = {}

LEMMA OnceInductive ==
  ASSUME TypeOK, OnceOrSoon, [Next]_vars, LikesApart, LikesApart'
  PROVE  OnceOrSoon'
<1>1. SUFFICES ASSUME NEW u \in User, NEW p \in Post
               PROVE  /\ \A m, n \in Told(u, p)' : m = n
                      /\ AboutToTell(u, p)' # {} => Told(u, p)' = {}
  BY DEF OnceOrSoon
<1>2. /\ \A m, n \in Told(u, p) : m = n
      /\ AboutToTell(u, p) # {} => Told(u, p) = {}
  BY DEF OnceOrSoon
\* A step that tells nobody and makes nobody about to tell.
<1>3. ASSUME notifications' \subseteq notifications,
             \A s \in Thread : req'[s].pc = "notify" => req'[s] = req[s]
      PROVE  /\ \A m, n \in Told(u, p)' : m = n
             /\ AboutToTell(u, p)' # {} => Told(u, p)' = {}
  <2>1. Told(u, p)' \subseteq Told(u, p) /\ AboutToTell(u, p)' \subseteq AboutToTell(u, p)
    BY <1>3 DEF Told, AboutToTell
  <2>2. QED
    BY <1>2, <2>1
<1>4. ASSUME NEW t \in Thread, CheckNotified(t)
      PROVE  /\ \A m, n \in Told(u, p)' : m = n
             /\ AboutToTell(u, p)' # {} => Told(u, p)' = {}
  <2>1. /\ req[t].pc = "check" /\ \A s \in Thread : s # t => req'[s] = req[s]
        /\ notifications' = notifications
        /\ req'[t] = IF Told(req[t].row.user, req[t].row.post) = {}
                     THEN [pc |-> "notify", row |-> req[t].row] ELSE Idle
    BY <1>4 DEF CheckNotified, TypeOK
  <2>2. Told(u, p)' = Told(u, p)
    BY <2>1 DEF Told
  <2>3. AboutToTell(u, p)' \subseteq AboutToTell(u, p) \cup {t}
    BY <2>1 DEF AboutToTell
  <2>4. t \in AboutToTell(u, p)' => Told(u, p) = {}
    BY <2>1 DEF AboutToTell, Idle
  <2>5. QED
    BY <1>2, <2>2, <2>3, <2>4
<1>5. ASSUME NEW t \in Thread, Notify(t)
      PROVE  /\ \A m, n \in Told(u, p)' : m = n
             /\ AboutToTell(u, p)' # {} => Told(u, p)' = {}
  <2> DEFINE note == [id |-> lastNotice + 1, visitor |-> req[t].row.user, post |-> req[t].row.post]
  <2>1. /\ req[t].pc = "notify" /\ \A s \in Thread : s # t => req'[s] = req[s]
        /\ notifications' = notifications \cup {note} /\ req'[t].pc = "idle"
    BY <1>5 DEF Notify, TypeOK, Idle
  <2>2. note.visitor = req[t].row.user /\ note.post = req[t].row.post
    OBVIOUS
  <2> HIDE DEF note
  <2>3. AboutToTell(u, p)' \subseteq AboutToTell(u, p) \ {t}
    BY <2>1 DEF AboutToTell
  <2>4. CASE req[t].row.user = u /\ req[t].row.post = p
    <3>1. t \in AboutToTell(u, p)
      BY <2>1, <2>4 DEF AboutToTell
    <3>2. \A s \in AboutToTell(u, p) : s = t
      BY <2>1, <2>4 DEF AboutToTell, LikesApart, Likes, Liked
    <3>3. Told(u, p)' = {note}
      BY <1>2, <2>1, <2>2, <2>4, <3>1 DEF Told
    <3>4. QED
      BY <2>3, <3>2, <3>3
  <2>5. CASE ~(req[t].row.user = u /\ req[t].row.post = p)
    <3>1. Told(u, p)' = Told(u, p)
      BY <2>1, <2>2, <2>5 DEF Told
    <3>2. QED
      BY <1>2, <2>3, <3>1
  <2>6. QED
    BY <2>4, <2>5
<1>6. ASSUME NEW t \in Thread,
             \/ \E v \in User, q \in Post : Like(t, v, q)
             \/ CreateFavorite(t)
             \/ \E f \in favorites : Unlike(t, f)
             \/ DeleteFavorite(t) \/ Abort(t)
      PROVE  /\ notifications' = notifications
             /\ \A s \in Thread : s # t => req'[s] = req[s]
             /\ req'[t].pc # "notify"
  <2>1. CASE \E v \in User, q \in Post : Like(t, v, q)
    BY <2>1 DEF Like, TypeOK
  <2>2. CASE CreateFavorite(t)
    BY <2>2 DEF CreateFavorite, TypeOK
  <2>3. CASE \E f \in favorites : Unlike(t, f)
    BY <2>3 DEF Unlike, TypeOK
  <2>4. CASE DeleteFavorite(t) \/ Abort(t)
    BY <2>4 DEF DeleteFavorite, Abort, TypeOK, Idle
  <2>5. QED
    BY <1>6, <2>1, <2>2, <2>3, <2>4
<1>7. ASSUME NEW t \in Thread,
             \/ \E ps \in SUBSET posts : DestroyPosts(t, ps)
             \/ \E v \in User : DestroyAccount(t, v)
             \/ CommitDestroy(t)
      PROVE  /\ notifications' \subseteq notifications
             /\ \A s \in Thread : s # t => req'[s] = req[s]
             /\ req'[t].pc # "notify"
  BY <1>7 DEF DestroyPosts, DestroyAccount, CommitDestroy, TypeOK, Idle
<1>8. CASE UNCHANGED vars
  BY <1>3, <1>8 DEF vars
<1>9. QED
  BY <1>3, <1>4, <1>5, <1>6, <1>7, <1>8 DEF Next

\* If the clicks of one user on one button were served one after another, the owner would
\* be told once, however often the user likes and unlikes the post and whatever else goes
\* on: the comment at post.rb:77 asks for just this, and the check of post.rb:76 gives it.
THEOREM ToldOnceIfLikesAreApart == Spec /\ []LikesApart => []ToldAtMostOnce
<1>1. Init => TypeOK /\ OnceOrSoon
  BY FavoritesAssumption DEF Init, TypeOK, OnceOrSoon, Told, AboutToTell, Idle
<1>2. TypeOK /\ OnceOrSoon /\ LikesApart /\ LikesApart' /\ [Next]_vars => TypeOK' /\ OnceOrSoon'
  BY TypeInvariant, OnceInductive
<1>3. OnceOrSoon => ToldAtMostOnce
  <2> SUFFICES ASSUME OnceOrSoon, NEW u \in User, NEW p \in Post
               PROVE  Cardinality(Told(u, p)) <= 1
    BY DEF ToldAtMostOnce
  <2>1. CASE Told(u, p) = {}
    BY <2>1, FS_EmptySet
  <2>2. CASE Told(u, p) # {}
    <3>1. PICK n \in Told(u, p) : TRUE
      BY <2>2
    <3>2. Told(u, p) = {n}
      BY <3>1 DEF OnceOrSoon
    <3>3. QED
      BY <3>2, FS_Singleton
  <2>3. QED
    BY <2>1, <2>2
<1>4. QED
  BY <1>1, <1>2, <1>3, PTL DEF Spec
=============================================================================
