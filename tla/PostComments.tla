---------------------------- MODULE PostComments ----------------------------
(***************************************************************************)
(* Comments under an illustration post and the notifications they fan out  *)
(* (post_comments_controller.rb, admin/post_comments_controller.rb,        *)
(* post.rb, post_comment.rb).                                              *)
(*                                                                         *)
(* Every request runs in a thread of the Puma pool.  A step is one         *)
(* statement or one transaction against the database; between two steps of *)
(* a request the other threads run.  Rows are records, a destroy first     *)
(* reads the rows it is going to delete and then deletes exactly those.    *)
(***************************************************************************)
EXTENDS Naturals, FiniteSets

CONSTANTS User,        \* accounts, all of them signed up before the first step
          Post,        \* posts, all of them published before the first step
          Owner,       \* Owner[p] is posts.user_id of p
          Thread,      \* the Puma threads that serve requests
          MaxComment,  \* bound: how many comments are ever written
          Leaver       \* bound: the accounts that may be deleted

ASSUME PostCommentsAssumption ==
  /\ Owner \in [Post -> User]
  /\ MaxComment \in Nat
  /\ IsFiniteSet(Thread)

VARIABLES users,          \* ids of the rows of table users
          posts,          \* ids of the rows of table posts
          comments,       \* rows of table post_comments
          notifications,  \* rows of table notifications with action 'post_comment'
          lastId,         \* the last id that table post_comments handed out
          req,            \* req[t] is the request that thread t serves
          silent,         \* history: comments that no request will announce in full
          contended       \* history: posts and accounts that went while a comment on
                          \* the one or by the other was on its way

vars == <<users, posts, comments, notifications, lastId, req, silent, contended>>

-----------------------------------------------------------------------------
Comment == [id : Nat, user : User, post : Post]

\* A row is identified by the comment, the receiver and the call that wrote it.
Notification ==
  [post : Post, post_comment : Nat, visitor : User, visited : User,
   checked : BOOLEAN, via : {"commenter", "owner"}]

Idle == [pc |-> "idle"]
Creating == [pc : {"insert", "insert_silent", "select", "notify"}, row : Comment, todo : SUBSET User]
Destroying == [pc : {"destroy"}, users : SUBSET User, posts : SUBSET Post,
               rows : SUBSET Comment, notes : SUBSET Notification]

TypeOK ==
  /\ users \subseteq User
  /\ posts \subseteq Post
  /\ comments \subseteq Comment
  /\ notifications \subseteq Notification
  /\ lastId \in Nat
  /\ req \in [Thread -> {Idle} \cup Creating \cup Destroying]
  /\ silent \subseteq Nat
  /\ contended \subseteq Post \cup User

Init ==
  /\ users = User
  /\ posts = Post
  /\ comments = {}
  /\ notifications = {}
  /\ lastId = 0
  /\ req = [t \in Thread |-> Idle]
  /\ silent = {}
  /\ contended = {}

\* t has a comment on p to save or to announce; t is about to delete p.
Commenting(t, p) == req[t].pc \notin {"idle", "destroy"} /\ req[t].row.post = p
Deleting(t, p) == req[t].pc = "destroy" /\ p \in req[t].posts

\* t has a comment by u to save or to announce; t is about to delete the account u.
Speaking(t, u) == req[t].pc \notin {"idle", "destroy"} /\ req[t].row.user = u
Closing(t, u) == req[t].pc = "destroy" /\ u \in req[t].users

\* What counts against the bound: comments written and comments promised.
Written == lastId + Cardinality({t \in Thread : req[t].pc \in {"insert", "insert_silent"}})

-----------------------------------------------------------------------------
(***************************************************************************)
(* POST /posts/:post_id/post_comments                                      *)
(***************************************************************************)

\* The account is signed in, Post.find succeeds, and so do the validations of @comment.save: the text is
\* not blank, the user and the post exist.  A request that fails one of them
\* answers 404 or renders :error and changes nothing.  The public controller ("insert")
\* goes on to the fan-out, the admin one ("insert_silent") only saves the comment.
Create(t, u, p, pc) ==
  /\ req[t] = Idle
  /\ u \in users
  /\ p \in posts
  /\ Written < MaxComment
  /\ req' = [req EXCEPT ![t] = [pc |-> pc, todo |-> {},
                                row |-> [id |-> 0, user |-> u, post |-> p]]]
  /\ contended' = contended \cup {q \in {p} : \E s \in Thread : Deleting(s, q)}
                            \cup {v \in {u} : \E s \in Thread : Closing(s, v)}
  /\ UNCHANGED <<users, posts, comments, notifications, lastId, silent>>

\* The INSERT of @comment.save.  No foreign key guards post_comments.post_id.
Insert(t) ==
  /\ req[t].pc = "insert"
  /\ LET row == [req[t].row EXCEPT !.id = lastId + 1]
     IN  /\ comments' = comments \cup {row}
         /\ req' = [req EXCEPT ![t] = [pc |-> "select", todo |-> {}, row |-> row]]
  /\ lastId' = lastId + 1
  /\ UNCHANGED <<users, posts, notifications, silent, contended>>

\* The INSERT of comment.save in the admin controller, which tells nobody.
InsertSilent(t) ==
  /\ req[t].pc = "insert_silent"
  /\ comments' = comments \cup {[req[t].row EXCEPT !.id = lastId + 1]}
  /\ lastId' = lastId + 1
  /\ silent' = silent \cup {lastId'}
  /\ req' = [req EXCEPT ![t] = Idle]
  /\ UNCHANGED <<users, posts, notifications, contended>>

\* Mutated: without .where.not(user_id: user_id), the owner is in the loop as well.
TempIdsWithOwner(row) ==
  {c.user : c \in {d \in comments : d.post = row.post}} \ {row.user}

\* temp_ids: everyone else who has commented, but neither the author nor the owner.
TempIds(row) ==
  {c.user : c \in {d \in comments : d.post = row.post}} \ {row.user, Owner[row.post]}

SelectCommenters(t) ==
  /\ req[t].pc = "select"
  /\ req' = [req EXCEPT ![t] = [pc |-> "notify", todo |-> TempIds(req[t].row),
                                row |-> req[t].row]]
  /\ UNCHANGED <<users, posts, comments, notifications, lastId, silent, contended>>

\* Mutated: post_id and post_comment_id swapped.
NewNotificationSwapped(row, visited, via) ==
  [post |-> row.id, post_comment |-> row.post, visitor |-> row.user,
   visited |-> visited, checked |-> row.user = visited, via |-> via]

\* One notification; the author of the comment gets it as already read.
NewNotification(row, visited, via) ==
  [post |-> row.post, post_comment |-> row.id, visitor |-> row.user,
   visited |-> visited, checked |-> row.user = visited, via |-> via]

NotifyCommenter(t) ==
  /\ req[t].pc = "notify"
  /\ \E u \in req[t].todo :
       /\ notifications' = notifications \cup {NewNotification(req[t].row, u, "commenter")}
       /\ req' = [req EXCEPT ![t] = [pc |-> "notify", todo |-> req[t].todo \ {u},
                                     row |-> req[t].row]]
  /\ UNCHANGED <<users, posts, comments, lastId, silent, contended>>

\* Mutated: what the comment at post.rb:100 says, the owner hears if nobody else does.
NotifyOwnerOnlyAlone(t) ==
  /\ req[t].pc = "notify"
  /\ req[t].todo = {}
  /\ LET row == req[t].row
     IN  notifications' = notifications \cup
           {NewNotification(row, u, "owner") :
              u \in IF TempIds(row) = {} THEN {Owner[row.post]} ELSE {}}
  /\ req' = [req EXCEPT ![t] = Idle]
  /\ UNCHANGED <<users, posts, comments, lastId, silent, contended>>

NotifyOwner(t) ==
  /\ req[t].pc = "notify"
  /\ req[t].todo = {}
  /\ LET row == req[t].row
     IN  notifications' = notifications \cup {NewNotification(row, Owner[row.post], "owner")}
  /\ req' = [req EXCEPT ![t] = Idle]
  /\ UNCHANGED <<users, posts, comments, lastId, silent, contended>>

-----------------------------------------------------------------------------
(***************************************************************************)
(* Destroys.  The transaction reads the dependent rows (snapshot of its    *)
(* first read), then deletes them and the parent when it commits.          *)
(***************************************************************************)

\* DELETE /posts/:post_id/post_comments/:id, for the author and for the admin.
DestroyComment(t, c) ==
  /\ req[t] = Idle
  /\ c \in comments
  /\ c.post \in posts
  /\ req' = [req EXCEPT ![t] =
       [pc |-> "destroy", users |-> {}, posts |-> {}, rows |-> {c},
        notes |-> {n \in notifications : n.post_comment = c.id}]]
  /\ UNCHANGED <<users, posts, comments, notifications, lastId, silent, contended>>

\* Mutated: post.rb without dependent: :destroy.
DestroyPostsAlone(t, ps) ==
  /\ req[t] = Idle
  /\ ps # {} /\ ps \subseteq posts
  /\ req' = [req EXCEPT ![t] =
       [pc |-> "destroy", users |-> {}, posts |-> ps, rows |-> {}, notes |-> {}]]
  /\ UNCHANGED <<users, posts, comments, notifications, lastId, silent, contended>>

\* DELETE of a post by its author or the admin, or of a software with the posts that show
\* it (software.rb:2): their comments with the notifications, and their own notifications.
DestroyPosts(t, ps) ==
  /\ req[t] = Idle
  /\ ps # {} /\ ps \subseteq posts
  /\ req' = [req EXCEPT ![t] =
       [pc |-> "destroy", users |-> {}, posts |-> ps,
        rows |-> {c \in comments : c.post \in ps},
        notes |-> {n \in notifications : n.post \in ps}]]
  /\ contended' = contended \cup {p \in ps : \E s \in Thread : Commenting(s, p)}
  /\ UNCHANGED <<users, posts, comments, notifications, lastId, silent>>

\* What the cascade of user.rb:8-12 finds: the posts of u with all that is theirs, the
\* comments of u with their notifications, the notifications from u and to u.
PostsOf(u) == {p \in posts : Owner[p] = u}
CommentsWith(u) == {c \in comments : c.user = u \/ c.post \in PostsOf(u)}

\* Mutated: all notifications about a post on which u has said something.
NoticesAround(u) ==
  {n \in notifications :
     u \in {n.visitor, n.visited} \/ \E c \in CommentsWith(u) : c.post = n.post}

NoticesWith(u) ==
  {n \in notifications :
     \/ u \in {n.visitor, n.visited} \/ n.post \in PostsOf(u)
     \/ \E c \in CommentsWith(u) : c.id = n.post_comment}

\* DELETE /users: the account with everything that hangs on it.
DestroyAccount(t, u) ==
  /\ req[t] = Idle
  /\ u \in users \cap Leaver
  /\ req' = [req EXCEPT ![t] =
       [pc |-> "destroy", users |-> {u}, posts |-> PostsOf(u), rows |-> CommentsWith(u),
        notes |-> NoticesWith(u)]]
  /\ contended' = contended
       \cup {p \in PostsOf(u) : \E s \in Thread : Commenting(s, p)}
       \cup {v \in {u} : \E s \in Thread : Speaking(s, v)}
  /\ UNCHANGED <<users, posts, comments, notifications, lastId, silent>>

CommitDestroy(t) ==
  /\ req[t].pc = "destroy"
  /\ users' = users \ req[t].users
  /\ posts' = posts \ req[t].posts
  /\ comments' = comments \ req[t].rows
  /\ notifications' = notifications \ req[t].notes
  /\ req' = [req EXCEPT ![t] = Idle]
  /\ UNCHANGED <<lastId, silent, contended>>

\* The request ends before its last step: the deploy job kills Puma, or a
\* statement raises.  What was committed stays, an open transaction rolls back.
Abort(t) ==
  /\ req[t] # Idle
  /\ req' = [req EXCEPT ![t] = Idle]
  /\ silent' = IF req[t].pc \in {"select", "notify"}
               THEN silent \cup {req[t].row.id} ELSE silent
  /\ UNCHANGED <<users, posts, comments, notifications, lastId, contended>>

-----------------------------------------------------------------------------
\* The steps a thread takes of its own accord once it serves a request.
Continue(t) ==
  \/ Insert(t) \/ InsertSilent(t) \/ SelectCommenters(t)
  \/ NotifyCommenter(t) \/ NotifyOwner(t) \/ CommitDestroy(t)

Next ==
  \E t \in Thread :
    \/ \E u \in User, p \in Post : Create(t, u, p, "insert") \/ Create(t, u, p, "insert_silent")
    \/ \E c \in comments : DestroyComment(t, c)
    \/ \E ps \in SUBSET posts : DestroyPosts(t, ps)
    \/ \E u \in User : DestroyAccount(t, u)
    \/ Continue(t)
    \/ Abort(t)

Spec == Init /\ [][Next]_vars

\* Puma runs every thread that has work: a request that has begun is not left alone.
FairSpec == Spec /\ \A t \in Thread : WF_vars(Continue(t))

-----------------------------------------------------------------------------
\* A comment sends nobody two notifications: the owner who has also commented
\* is left out of the commenters' loop (post.rb:96) and served by the last call only.
OneNotificationPerComment ==
  \A m, n \in notifications :
    m.post_comment = n.post_comment /\ m.visited = n.visited => m = n

\* c has been fanned out by its own request to the last call.
FannedOut(c) ==
  /\ c.id \notin silent
  /\ \A t \in Thread : req[t].pc \in {"select", "notify"} => req[t].row.id # c.id

Received(u, c) == \E n \in notifications : n.post_comment = c.id /\ n.visited = u

\* u owns the post of c, or has an earlier comment on it that still stands.
HasClaim(u, c) ==
  \/ u = Owner[c.post]
  \/ /\ u # c.user
     /\ \E d \in comments : d.post = c.post /\ d.user = u /\ d.id < c.id

\* Once a comment's request has run to its end, the owner of the post and everyone with
\* an earlier comment that still stands has its notification, as long as the account is
\* there, whatever was written and destroyed meanwhile (post.rb:92-102).
FanOutReachesAll ==
  \A c \in comments : FannedOut(c) =>
    \A u \in users : HasClaim(u, c) => Received(u, c)

\* notifications/_notification.html.erb:16 reads notification.post.user_id, so an inbox
\* renders only while the post of every row that it shows exists.  It shows all but the
\* rows that the receiver has caused (notifications/index.html.erb:7).
InboxRenders == \A n \in notifications : n.visitor # n.visited => n.post \in posts

\* dependent: :destroy (post.rb:6, :10, user.rb:8-12) leaves nothing of a post or of an
\* account behind, neither a comment nor a notification, if no comment on the one or by
\* the other was on its way while it was destroyed.  Without the post or the visitor
\* (_notification.html.erb:6, :16) the inbox of the receiver does not render, unless the
\* receiver is the visitor (index.html.erb:7).
OnlyRacesLeak ==
  /\ \A n \in notifications : n.post \in posts \cup contended /\ n.visitor \in users \cup contended
  /\ \A c \in comments : c.post \in posts \cup contended /\ c.user \in users \cup contended

\* Every comment that a public request inserts is in the end announced to the owner
\* of its post, unless that request is cut short (post.rb:101).
OwnerHearsOfEveryComment ==
  \A i \in 1..MaxComment :
    (\E t \in Thread : req[t].pc = "select" /\ req[t].row.id = i) ~>
       (i \in silent \/ \E n \in notifications : n.post_comment = i /\ n.via = "owner")

-----------------------------------------------------------------------------
(***************************************************************************)
(* The refinement: a request that selects or notifies is an announcement   *)
(* under way.                                                              *)
(***************************************************************************)
Announcing(t) == req[t].pc \in {"select", "notify"}
OpenIds == {req[t].row.id : t \in {s \in Thread : Announcing(s)}}
StandingComments == {[id |-> c.id, user |-> c.user, place |-> c.post] : c \in comments}
Receipts == {[about |-> n.post_comment, to |-> n.visited, via |-> n.via] : n \in notifications}

Promised == (1..lastId) \ (silent \cup OpenIds)

Told == INSTANCE Announcements
  WITH Place <- Post, members <- users, standing <- StandingComments, last <- lastId,
       open <- OpenIds, promised <- Promised, receipts <- Receipts

\* Whatever requests interleave, are cut short and destroy, a comment is announced as
\* Announcements has it (post.rb:92-117).
ImplementsAnnouncements == Told!Spec
=============================================================================
