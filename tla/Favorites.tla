------------------------------ MODULE Favorites ------------------------------
(***************************************************************************)
(* Likes on an illustration post and the notification each sends to the    *)
(* owner (favorites_controller.rb, post.rb).  Requests run in the threads  *)
(* of the Puma pool; a step is one statement or one transaction.           *)
(***************************************************************************)
EXTENDS Naturals, FiniteSets

CONSTANTS User, Post,   \* accounts and published posts at the start
          Owner,        \* Owner[p] is posts.user_id of p
          Thread,       \* the Puma threads that serve requests
          MaxFavorite,  \* bound: how many rows table favorites ever holds
          Leaver        \* bound: the accounts that may be deleted

ASSUME FavoritesAssumption ==
  IsFiniteSet(Thread) /\ MaxFavorite \in Nat /\ Owner \in [Post -> User]

VARIABLES users,          \* ids of the rows of table users
          posts,          \* ids of the rows of table posts
          favorites,      \* rows of table favorites
          notifications,  \* rows of table notifications with action 'favorite'
          lastId,         \* the last id that table favorites handed out
          lastNotice,     \* the last id that table notifications handed out
          req,            \* req[t] is the request that thread t serves
          silent,         \* history: favorites whose request was cut short
          contended       \* history: posts and accounts that went while a like of the one
                          \* or by the other was on its way

vars == <<users, posts, favorites, notifications, lastId, lastNotice, req, silent, contended>>

-----------------------------------------------------------------------------
\* Nothing keeps (user, post) unique, only the id is.
Favorite == [id : Nat, user : User, post : Post]

\* visited_id is the owner of post.
Notification == [id : Nat, visitor : User, post : Post]

Idle == [pc |-> "idle"]
Liking == [pc : {"create", "check", "notify"}, row : Favorite]
Unliking == [pc : {"unlike"}, row : Favorite]
Destroying == [pc : {"destroy"}, users : SUBSET User, posts : SUBSET Post,
               rows : SUBSET Favorite, notes : SUBSET Notification]

TypeOK ==
  /\ users \subseteq User
  /\ posts \subseteq Post
  /\ favorites \subseteq Favorite
  /\ notifications \subseteq Notification
  /\ lastId \in Nat
  /\ lastNotice \in Nat
  /\ req \in [Thread -> {Idle} \cup Liking \cup Unliking \cup Destroying]
  /\ silent \subseteq Nat
  /\ contended \subseteq Post \cup User

Init ==
  /\ users = User
  /\ posts = Post
  /\ favorites = {}
  /\ notifications = {}
  /\ lastId = 0
  /\ lastNotice = 0
  /\ req = [t \in Thread |-> Idle]
  /\ silent = {}
  /\ contended = {}

\* The notifications that tell the owner of p that u likes it.
Told(u, p) == {n \in notifications : n.visitor = u /\ n.post = p}

\* t has a like of p, by u, to save or to announce; t is about to delete p, or u.
Liked(t, p) == req[t].pc \in {"create", "check", "notify"} /\ req[t].row.post = p
Likes(t, u) == req[t].pc \in {"create", "check", "notify"} /\ req[t].row.user = u
Deleting(t, p) == req[t].pc = "destroy" /\ p \in req[t].posts
Closing(t, u) == req[t].pc = "destroy" /\ u \in req[t].users

-----------------------------------------------------------------------------
\* POST /favorite/:id gets past Post.find.  The page hides the button from whoever has
\* liked the post, but a second tab or a second click still sends the request.
Like(t, u, p) ==
  /\ req[t] = Idle
  /\ u \in users
  /\ p \in posts
  /\ lastId + Cardinality({s \in Thread : req[s].pc = "create"}) < MaxFavorite
  /\ req' = [req EXCEPT ![t] = [pc |-> "create", row |-> [id |-> 0, user |-> u, post |-> p]]]
  /\ contended' = contended \cup {q \in {p} : \E s \in Thread : Deleting(s, q)}
                            \cup {v \in {u} : \E s \in Thread : Closing(s, v)}
  /\ UNCHANGED <<users, posts, favorites, notifications, lastId, lastNotice, silent>>

\* Favorite.create: without its post or its user the row is not valid, it is not saved
\* and the request goes on all the same.
CreateFavorite(t) ==
  /\ req[t].pc = "create"
  /\ IF req[t].row.post \in posts /\ req[t].row.user \in users
     THEN LET row == [req[t].row EXCEPT !.id = lastId + 1]
          IN  /\ favorites' = favorites \cup {row}
              /\ lastId' = lastId + 1
              /\ req' = [req EXCEPT ![t] = [pc |-> "check", row |-> row]]
     ELSE /\ req' = [req EXCEPT ![t] = [pc |-> "check", row |-> req[t].row]]
          /\ UNCHANGED <<favorites, lastId>>
  /\ UNCHANGED <<users, posts, notifications, lastNotice, silent, contended>>

\* Mutated: without the check for an existing notification.
CheckNothing(t) ==
  /\ req[t].pc = "check"
  /\ req' = [req EXCEPT ![t] = [pc |-> "notify", row |-> req[t].row]]
  /\ UNCHANGED <<users, posts, favorites, notifications, lastId, lastNotice, silent, contended>>

\* create_notification_favorite! looks whether the owner has been told already.
CheckNotified(t) ==
  /\ req[t].pc = "check"
  /\ req' = [req EXCEPT ![t] = IF Told(req[t].row.user, req[t].row.post) = {}
                               THEN [pc |-> "notify", row |-> req[t].row] ELSE Idle]
  /\ UNCHANGED <<users, posts, favorites, notifications, lastId, lastNotice, silent, contended>>

\* Mutated: the id of the favorite where the id of the post belongs.
NotifyFavorite(t) ==
  /\ req[t].pc = "notify"
  /\ notifications' = notifications \cup
       {[id |-> lastNotice + 1, visitor |-> req[t].row.user, post |-> req[t].row.id]}
  /\ lastNotice' = lastNotice + 1
  /\ req' = [req EXCEPT ![t] = Idle]
  /\ UNCHANGED <<users, posts, favorites, lastId, silent, contended>>

\* No foreign key and no unique index guards the notification.
Notify(t) ==
  /\ req[t].pc = "notify"
  /\ notifications' = notifications \cup
       {[id |-> lastNotice + 1, visitor |-> req[t].row.user, post |-> req[t].row.post]}
  /\ lastNotice' = lastNotice + 1
  /\ req' = [req EXCEPT ![t] = Idle]
  /\ UNCHANGED <<users, posts, favorites, lastId, silent, contended>>

-----------------------------------------------------------------------------
\* DELETE /favorite/:id finds one row of the user; without one it raises on nil.
Unlike(t, f) ==
  /\ req[t] = Idle
  /\ f \in favorites
  /\ f.user \in users
  /\ f.post \in posts
  /\ req' = [req EXCEPT ![t] = [pc |-> "unlike", row |-> f]]
  /\ UNCHANGED <<users, posts, favorites, notifications, lastId, lastNotice, silent, contended>>

\* Only the row goes: the notification stays, and keeps the next like quiet.
DeleteFavorite(t) ==
  /\ req[t].pc = "unlike"
  /\ favorites' = favorites \ {req[t].row}
  /\ req' = [req EXCEPT ![t] = Idle]
  /\ UNCHANGED <<users, posts, notifications, lastId, lastNotice, silent, contended>>

\* The destroy of a post, or of a software with its posts, reads their favorites and
\* notifications first ...
DestroyPosts(t, ps) ==
  /\ req[t] = Idle
  /\ ps # {} /\ ps \subseteq posts
  /\ req' = [req EXCEPT ![t] =
       [pc |-> "destroy", users |-> {}, posts |-> ps,
        rows |-> {f \in favorites : f.post \in ps},
        notes |-> {n \in notifications : n.post \in ps}]]
  /\ contended' = contended \cup {p \in ps : \E s \in Thread : Liked(s, p)}
  /\ UNCHANGED <<users, posts, favorites, notifications, lastId, lastNotice, silent>>

PostsOf(u) == {p \in posts : Owner[p] = u}

\* Mutated: user.rb without the active notifications of line 11.
DestroyAccountQuietly(t, u) ==
  /\ req[t] = Idle
  /\ u \in users \cap Leaver
  /\ req' = [req EXCEPT ![t] =
       [pc |-> "destroy", users |-> {u}, posts |-> PostsOf(u),
        rows |-> {f \in favorites : f.user = u \/ f.post \in PostsOf(u)},
        notes |-> {n \in notifications : Owner[n.post] = u}]]
  /\ contended' = contended
       \cup {p \in PostsOf(u) : \E s \in Thread : Liked(s, p)}
       \cup {v \in {u} : \E s \in Thread : Likes(s, v)}
  /\ UNCHANGED <<users, posts, favorites, notifications, lastId, lastNotice, silent>>

\* ... and so does that of an account: its posts, the likes of them and by it, the
\* notifications from it and to it (user.rb:8-12) ...
DestroyAccount(t, u) ==
  /\ req[t] = Idle
  /\ u \in users \cap Leaver
  /\ req' = [req EXCEPT ![t] =
       [pc |-> "destroy", users |-> {u}, posts |-> PostsOf(u),
        rows |-> {f \in favorites : f.user = u \/ f.post \in PostsOf(u)},
        notes |-> {n \in notifications : n.visitor = u \/ Owner[n.post] = u}]]
  /\ contended' = contended
       \cup {p \in PostsOf(u) : \E s \in Thread : Liked(s, p)}
       \cup {v \in {u} : \E s \in Thread : Likes(s, v)}
  /\ UNCHANGED <<users, posts, favorites, notifications, lastId, lastNotice, silent>>

\* Mutated: without the foreign keys of table favorites.
CommitUnguarded(t) ==
  /\ req[t].pc = "destroy"
  /\ users' = users \ req[t].users
  /\ posts' = posts \ req[t].posts
  /\ favorites' = favorites \ req[t].rows
  /\ notifications' = notifications \ req[t].notes
  /\ req' = [req EXCEPT ![t] = Idle]
  /\ UNCHANGED <<lastId, lastNotice, silent, contended>>

\* ... and deletes exactly those.  A favorite that came in between breaks a foreign key of
\* table favorites and rolls the transaction back.
CommitDestroy(t) ==
  /\ req[t].pc = "destroy"
  /\ IF \E f \in favorites \ req[t].rows : f.post \in req[t].posts \/ f.user \in req[t].users
     THEN UNCHANGED <<users, posts, favorites, notifications>>
     ELSE /\ users' = users \ req[t].users
          /\ posts' = posts \ req[t].posts
          /\ favorites' = favorites \ req[t].rows
          /\ notifications' = notifications \ req[t].notes
  /\ req' = [req EXCEPT ![t] = Idle]
  /\ UNCHANGED <<lastId, lastNotice, silent, contended>>

\* The request ends early: the deploy job kills Puma, or a statement raises.
Abort(t) ==
  /\ req[t] # Idle
  /\ req' = [req EXCEPT ![t] = Idle]
  /\ silent' = IF req[t].pc \in {"check", "notify"} THEN silent \cup {req[t].row.id} ELSE silent
  /\ UNCHANGED <<users, posts, favorites, notifications, lastId, lastNotice, contended>>

-----------------------------------------------------------------------------
Next ==
  \E t \in Thread :
    \/ \E u \in User, p \in Post : Like(t, u, p)
    \/ CreateFavorite(t) \/ CheckNotified(t) \/ Notify(t)
    \/ \E f \in favorites : Unlike(t, f)
    \/ DeleteFavorite(t)
    \/ \E ps \in SUBSET posts : DestroyPosts(t, ps)
    \/ \E u \in User : DestroyAccount(t, u)
    \/ CommitDestroy(t)
    \/ Abort(t)

Spec == Init /\ [][Next]_vars

-----------------------------------------------------------------------------
\* A like that stands has been announced to the owner once its request has ended,
\* although a destroy of the post may be deleting notifications meanwhile (favorites
\* go with them, or the foreign key stops the destroy).
LikesAreAnnounced ==
  \A f \in favorites :
    \/ Told(f.user, f.post) # {}
    \/ f.id \in silent
    \/ \E t \in Thread : req[t].pc \in {"check", "notify"} /\ req[t].row = f

\* Every like names a post and an account that are there, whoever destroys what meanwhile:
\* users_controller.rb:26-27 and posts_controller.rb:22 look up the posts of all likes with
\* find, and that raises for the whole page if one of them is gone.
LikesNameWhatExists == \A f \in favorites : f.post \in posts /\ f.user \in users

\* dependent: :destroy (post.rb:10, user.rb:8-12) leaves no notification of a like behind
\* when its post or its visitor goes, unless a like was on its way meanwhile: such a one
\* tells the owner although nothing was saved (favorites_controller.rb:6-7).
OnlyRacesLeak ==
  \A n \in notifications : n.post \in posts \cup contended /\ n.visitor \in users \cup contended

\* The requests that have found the owner untold and are about to tell.
AboutToTell(u, p) ==
  {t \in Thread : req[t].pc = "notify" /\ req[t].row.user = u /\ req[t].row.post = p}

\* The check before the insert (post.rb:76-78) is not atomic with it, yet the duplicates
\* it lets through never outnumber the threads, however often u likes and unlikes p.
DuplicatesBounded ==
  \A u \in User, p \in Post :
    Cardinality(Told(u, p)) + Cardinality(AboutToTell(u, p)) <= Cardinality(Thread)

\* post.rb:77 has the notification created only if none exists, so that the owner is
\* not told as many times as the button is pressed.
ToldAtMostOnce == \A u \in User, p \in Post : Cardinality(Told(u, p)) <= 1
=============================================================================
