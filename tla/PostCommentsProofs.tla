------------------------- MODULE PostCommentsProofs -------------------------
(***************************************************************************)
(* Theorems about PostComments, for any number of users, posts, threads    *)
(* and comments.                                                           *)
(***************************************************************************)
EXTENDS PostComments, TLAPS

\* Ids are handed out once, so a row's id names the row and its request.
IdsAreUnique ==
  /\ \A c \in comments : c.id <= lastId
  /\ \A n \in notifications : n.post_comment <= lastId
  /\ \A c, d \in comments : c.id = d.id => c = d
  /\ \A n \in notifications, c \in comments :
       n.post_comment = c.id => n.post = c.post /\ n.visitor = c.user
  /\ \A t \in Thread : Announcing(t) =>
       /\ req[t].row.id <= lastId
       /\ \A c \in comments : c.id = req[t].row.id => c = req[t].row
       /\ \A n \in notifications : n.post_comment = req[t].row.id =>
            n.post = req[t].row.post /\ n.visitor = req[t].row.user
       /\ \A s \in Thread : s # t /\ Announcing(s) => req[s].row.id # req[t].row.id

\* Whom an announcing request has yet to notify, it has not notified.
StillToNotify ==
  \A t \in Thread :
    /\ req[t].pc = "select" =>
         \A n \in notifications : n.post_comment # req[t].row.id
    /\ req[t].pc = "notify" =>
         /\ Owner[req[t].row.post] \notin req[t].todo
         /\ \A n \in notifications : n.post_comment = req[t].row.id =>
              n.visited \notin req[t].todo \cup {Owner[req[t].row.post]}

\* A destroy deletes the notifications of a comment only together with the comment or with
\* the account that received them.
DestroysWholeComments ==
  \A t \in Thread : req[t].pc = "destroy" =>
    \A n \in req[t].notes :
      /\ n.post_comment <= lastId
      /\ \/ n.visited \in req[t].users
         \/ \A c \in comments : c.id = n.post_comment => c \in req[t].rows

\* While the loop runs, everyone it owes a notification is served or still to be served.
LoopServesAll ==
  \A t \in Thread : req[t].pc = "notify" /\ req[t].row \in comments =>
    \A u \in users : HasClaim(u, req[t].row) =>
      u \in req[t].todo \cup {Owner[req[t].row.post]} \/ Received(u, req[t].row)

IInv ==
  /\ TypeOK
  /\ IdsAreUnique
  /\ StillToNotify
  /\ OneNotificationPerComment
  /\ DestroysWholeComments
  /\ LoopServesAll
  /\ FanOutReachesAll

-----------------------------------------------------------------------------
\* What a request carries is determined by where it stands.
LEMMA RequestKinds ==
  ASSUME TypeOK, NEW t \in Thread
  PROVE  /\ req[t].pc \in {"insert", "insert_silent", "select", "notify"} =>
              /\ req[t] \in Creating
              /\ req[t].row \in Comment
              /\ req[t].todo \subseteq User
         /\ req[t].pc = "destroy" =>
              /\ req[t] \in Destroying
              /\ req[t].users \subseteq User
              /\ req[t].posts \subseteq Post
              /\ req[t].rows \subseteq Comment
              /\ req[t].notes \subseteq Notification
<1>1. req[t] \in {Idle} \cup Creating \cup Destroying
  BY DEF TypeOK
<1>2. CASE req[t] = Idle
  BY <1>2 DEF Idle
<1>3. CASE req[t] \in Creating
  BY <1>3 DEF Creating
<1>4. CASE req[t] \in Destroying
  BY <1>4 DEF Destroying
<1>5. QED
  BY <1>1, <1>2, <1>3, <1>4

\* A new notification has the shape of its table and the fields it is given.
LEMMA NewNotificationFields ==
  ASSUME NEW row \in Comment, NEW u \in User, NEW via \in {"commenter", "owner"}
  PROVE  /\ NewNotification(row, u, via) \in Notification
         /\ NewNotification(row, u, via).post = row.post
         /\ NewNotification(row, u, via).post_comment = row.id
         /\ NewNotification(row, u, via).visitor = row.user
         /\ NewNotification(row, u, via).visited = u
         /\ NewNotification(row, u, via).via = via
<1>1. (row.user = u) \in BOOLEAN
  OBVIOUS
<1>2. row.post \in Post /\ row.id \in Nat /\ row.user \in User
  BY DEF Comment
<1>3. QED
  BY <1>1, <1>2 DEF Notification, NewNotification

LEMMA TypeInvariant == TypeOK /\ [Next]_vars => TypeOK'
<1> SUFFICES ASSUME TypeOK, [Next]_vars PROVE TypeOK'
  OBVIOUS
<1> USE PostCommentsAssumption DEF TypeOK
<1>1. ASSUME NEW t \in Thread, NEW u \in User, NEW p \in Post,
             NEW pc \in {"insert", "insert_silent"}, Create(t, u, p, pc)
      PROVE  TypeOK'
  <2>1. [pc |-> pc, todo |-> {}, row |-> [id |-> 0, user |-> u, post |-> p]] \in Creating
    BY DEF Creating, Comment
  <2>2. QED
    BY <1>1, <2>1 DEF Create
<1>2. ASSUME NEW t \in Thread, Insert(t) PROVE TypeOK'
  <2> DEFINE row == [req[t].row EXCEPT !.id = lastId + 1]
  <2>1. row \in Comment
    BY <1>2, RequestKinds DEF Insert, Comment
  <2>2. [pc |-> "select", todo |-> {}, row |-> row] \in Creating
    BY <2>1 DEF Creating
  <2>3. QED
    BY <1>2, <2>1, <2>2 DEF Insert
<1>3. ASSUME NEW t \in Thread, InsertSilent(t) PROVE TypeOK'
  <2>1. [req[t].row EXCEPT !.id = lastId + 1] \in Comment
    BY <1>3, RequestKinds DEF InsertSilent, Comment
  <2>2. QED
    BY <1>3, <2>1 DEF InsertSilent
<1>4. ASSUME NEW t \in Thread, SelectCommenters(t) PROVE TypeOK'
  <2>1. TempIds(req[t].row) \subseteq User
    BY DEF TempIds, Comment
  <2>2. [pc |-> "notify", todo |-> TempIds(req[t].row), row |-> req[t].row] \in Creating
    BY <1>4, <2>1, RequestKinds DEF SelectCommenters, Creating
  <2>3. QED
    BY <1>4, <2>2 DEF SelectCommenters
<1>5. ASSUME NEW t \in Thread, NotifyCommenter(t) PROVE TypeOK'
  <2>1. req[t].row \in Comment /\ req[t].todo \subseteq User
    BY <1>5, RequestKinds DEF NotifyCommenter
  <2>2. PICK u \in req[t].todo :
          /\ notifications' = notifications \cup {NewNotification(req[t].row, u, "commenter")}
          /\ req' = [req EXCEPT ![t] = [pc |-> "notify", todo |-> req[t].todo \ {u},
                                        row |-> req[t].row]]
    BY <1>5 DEF NotifyCommenter
  <2>3. [pc |-> "notify", todo |-> req[t].todo \ {u}, row |-> req[t].row] \in Creating
    BY <2>1 DEF Creating
  <2>4. notifications' \subseteq Notification
    BY <2>1, <2>2, NewNotificationFields
  <2>5. QED
    BY <1>5, <2>2, <2>3, <2>4 DEF NotifyCommenter
<1>6. ASSUME NEW t \in Thread, NotifyOwner(t) PROVE TypeOK'
  <2>1. req[t].row \in Comment
    BY <1>6, RequestKinds DEF NotifyOwner
  <2>2. Owner[req[t].row.post] \in User
    BY <2>1 DEF Comment
  <2>3. notifications' \subseteq Notification
    BY <1>6, <2>1, <2>2, NewNotificationFields DEF NotifyOwner
  <2>4. QED
    BY <1>6, <2>3 DEF NotifyOwner
<1>7. ASSUME NEW t \in Thread, NEW c \in comments, DestroyComment(t, c) PROVE TypeOK'
  <2> DEFINE notes == {n \in notifications : n.post_comment = c.id}
  <2>1. [pc |-> "destroy", users |-> {}, posts |-> {}, rows |-> {c}, notes |-> notes] \in Destroying
    BY DEF Destroying
  <2>2. QED
    BY <1>7, <2>1 DEF DestroyComment
<1>8. ASSUME NEW t \in Thread, NEW ps \in SUBSET posts, DestroyPosts(t, ps) PROVE TypeOK'
  <2> DEFINE rows == {c \in comments : c.post \in ps}
             notes == {n \in notifications : n.post \in ps}
  <2>1. [pc |-> "destroy", users |-> {}, posts |-> ps, rows |-> rows, notes |-> notes]
          \in Destroying
    BY DEF Destroying
  <2>2. QED
    BY <1>8, <2>1 DEF DestroyPosts
<1>8a. ASSUME NEW t \in Thread, NEW u \in User, DestroyAccount(t, u) PROVE TypeOK'
  <2>1. PostsOf(u) \subseteq posts /\ CommentsWith(u) \subseteq comments
        /\ NoticesWith(u) \subseteq notifications
    BY DEF PostsOf, CommentsWith, NoticesWith
  <2>2. [pc |-> "destroy", users |-> {u}, posts |-> PostsOf(u), rows |-> CommentsWith(u),
         notes |-> NoticesWith(u)] \in Destroying
    BY <2>1 DEF Destroying
  <2>3. QED
    BY <1>8a, <2>1, <2>2 DEF DestroyAccount
<1>9. ASSUME NEW t \in Thread, CommitDestroy(t) PROVE TypeOK'
  BY <1>9 DEF CommitDestroy
<1>10. ASSUME NEW t \in Thread, Abort(t) PROVE TypeOK'
  <2>1. req[t].pc \in {"select", "notify"} => req[t].row.id \in Nat
    BY RequestKinds DEF Comment
  <2>2. QED
    BY <1>10, <2>1 DEF Abort
<1>11. CASE UNCHANGED vars
  BY <1>11 DEF vars
<1>12. QED
  BY <1>1, <1>2, <1>3, <1>4, <1>5, <1>6, <1>7, <1>8, <1>8a, <1>9, <1>10, <1>11 DEF Next, Continue

\* Tables and requests always hold rows of the shape the schema gives them.
THEOREM TypeCorrect == Spec => []TypeOK
<1>1. Init => TypeOK
  BY PostCommentsAssumption DEF Init, TypeOK
<1>2. QED
  BY <1>1, TypeInvariant, PTL DEF Spec

-----------------------------------------------------------------------------
\* A step that only begins or ends a request of thread t, without a table in sight.
LEMMA QuietStep ==
  ASSUME IInv, TypeOK', NEW t \in Thread, req'[t].pc \notin {"select", "notify", "destroy"},
         \A s \in Thread : s # t => req'[s] = req[s],
         UNCHANGED <<users, comments, notifications, lastId>>,
         silent \subseteq silent',
         Announcing(t) => req[t].row.id \in silent'
  PROVE  IInv'
<1>1. IdsAreUnique'
  BY DEF IInv, IdsAreUnique, Announcing
<1>2. StillToNotify'
  BY DEF IInv, StillToNotify
<1>3. OneNotificationPerComment'
  BY DEF IInv, OneNotificationPerComment
<1>4. DestroysWholeComments'
  BY DEF IInv, DestroysWholeComments
<1>5. LoopServesAll'
  BY DEF IInv, LoopServesAll, HasClaim, Received
<1>6. FanOutReachesAll'
  <2> SUFFICES ASSUME NEW c \in comments', FannedOut(c)', NEW u \in users', HasClaim(u, c)'
               PROVE  Received(u, c)'
    BY DEF FanOutReachesAll
  <2>1. FannedOut(c)
    BY DEF FannedOut, Announcing
  <2>2. QED
    BY <2>1 DEF IInv, FanOutReachesAll, HasClaim, Received
<1>7. QED
  BY <1>1, <1>2, <1>3, <1>4, <1>5, <1>6 DEF IInv

LEMMA CreateStep ==
  ASSUME IInv, TypeOK', NEW t \in Thread, NEW u \in User, NEW p \in Post,
         NEW pc \in {"insert", "insert_silent"}, Create(t, u, p, pc)
  PROVE  IInv'
<1>1. /\ req'[t].pc \notin {"select", "notify", "destroy"}
      /\ \A s \in Thread : s # t => req'[s] = req[s]
      /\ ~Announcing(t)
  BY DEF Create, Announcing, Idle, IInv, TypeOK
<1>2. QED
  BY <1>1, QuietStep DEF Create

LEMMA AbortStep ==
  ASSUME IInv, TypeOK', NEW t \in Thread, Abort(t)
  PROVE  IInv'
<1>1. /\ req'[t].pc \notin {"select", "notify", "destroy"}
      /\ \A s \in Thread : s # t => req'[s] = req[s]
  BY DEF Abort, Idle, IInv, TypeOK
<1>2. silent \subseteq silent' /\ (Announcing(t) => req[t].row.id \in silent')
  BY DEF Abort, Announcing
<1>3. QED
  BY <1>1, <1>2, QuietStep DEF Abort

\* A destroy that has read its rows: the tables still stand, the promise is kept.
LEMMA CollectStep ==
  ASSUME IInv, TypeOK', NEW t \in Thread, req[t] = Idle, req'[t].pc = "destroy",
         \A s \in Thread : s # t => req'[s] = req[s],
         UNCHANGED <<users, comments, notifications, lastId, silent>>,
         \A n \in req'[t].notes :
           /\ n \in notifications
           /\ \/ n.visited \in req'[t].users
              \/ \A c \in comments : c.id = n.post_comment => c \in req'[t].rows
  PROVE  IInv'
<1>1. IdsAreUnique'
  BY DEF IInv, IdsAreUnique, Announcing
<1>2. StillToNotify'
  BY DEF IInv, StillToNotify
<1>3. OneNotificationPerComment'
  BY DEF IInv, OneNotificationPerComment
<1>4. DestroysWholeComments'
  BY DEF IInv, DestroysWholeComments, IdsAreUnique
<1>5. LoopServesAll'
  BY DEF IInv, LoopServesAll, HasClaim, Received
<1>6. FanOutReachesAll'
  BY DEF IInv, FanOutReachesAll, FannedOut, HasClaim, Received, Idle
<1>7. QED
  BY <1>1, <1>2, <1>3, <1>4, <1>5, <1>6 DEF IInv

LEMMA DestroyCommentStep ==
  ASSUME IInv, TypeOK', NEW t \in Thread, NEW c \in comments, DestroyComment(t, c)
  PROVE  IInv'
<1>1. /\ req'[t].pc = "destroy"
      /\ req'[t].rows = {c}
      /\ req'[t].notes = {n \in notifications : n.post_comment = c.id}
      /\ \A s \in Thread : s # t => req'[s] = req[s]
  BY DEF DestroyComment, IInv, TypeOK
<1>2. \A n \in req'[t].notes, d \in comments : d.id = n.post_comment => d \in req'[t].rows
  BY <1>1 DEF IInv, IdsAreUnique
<1>3. QED
  BY <1>1, <1>2, CollectStep DEF DestroyComment

LEMMA DestroyPostsStep ==
  ASSUME IInv, TypeOK', NEW t \in Thread, NEW ps \in SUBSET posts, DestroyPosts(t, ps)
  PROVE  IInv'
<1>1. /\ req'[t].pc = "destroy"
      /\ req'[t].rows = {c \in comments : c.post \in ps}
      /\ req'[t].notes = {n \in notifications : n.post \in ps}
      /\ \A s \in Thread : s # t => req'[s] = req[s]
  BY DEF DestroyPosts, IInv, TypeOK
<1>2. \A n \in req'[t].notes, d \in comments : d.id = n.post_comment => d \in req'[t].rows
  BY <1>1 DEF IInv, IdsAreUnique
<1>3. QED
  BY <1>1, <1>2, CollectStep DEF DestroyPosts

LEMMA DestroyAccountStep ==
  ASSUME IInv, TypeOK', NEW t \in Thread, NEW u \in User, DestroyAccount(t, u)
  PROVE  IInv'
<1>1. /\ req'[t].pc = "destroy"
      /\ req'[t].users = {u}
      /\ req'[t].rows = CommentsWith(u)
      /\ req'[t].notes = NoticesWith(u)
      /\ \A s \in Thread : s # t => req'[s] = req[s]
  BY DEF DestroyAccount, IInv, TypeOK
<1>2. ASSUME NEW n \in req'[t].notes
      PROVE  /\ n \in notifications
             /\ \/ n.visited \in req'[t].users
                \/ \A c \in comments : c.id = n.post_comment => c \in req'[t].rows
  <2>1. /\ n \in notifications
        /\ \/ u = n.visited
           \/ u = n.visitor \/ n.post \in PostsOf(u)
           \/ \E c \in CommentsWith(u) : c.id = n.post_comment
    BY <1>1 DEF NoticesWith
  <2>2. \A c \in comments : c.id = n.post_comment => n.post = c.post /\ n.visitor = c.user
    BY <2>1 DEF IInv, IdsAreUnique
  <2>3. \A c, d \in comments : c.id = d.id => c = d
    BY DEF IInv, IdsAreUnique
  <2>4. QED
    BY <1>1, <2>1, <2>2, <2>3 DEF CommentsWith
<1>3. QED
  BY <1>1, <1>2, CollectStep DEF DestroyAccount

LEMMA InsertStep ==
  ASSUME IInv, TypeOK', NEW t \in Thread, Insert(t)
  PROVE  IInv'
<1> DEFINE row == [req[t].row EXCEPT !.id = lastId + 1]
<1>1. /\ row \in Comment
      /\ row.id = lastId + 1
      /\ lastId \in Nat
  BY RequestKinds DEF Insert, IInv, TypeOK, Comment
<1>2. /\ comments' = comments \cup {row}
      /\ req'[t].pc = "select"
      /\ req'[t].row = row
      /\ \A s \in Thread : s # t => req'[s] = req[s]
      /\ lastId' = lastId + 1
      /\ ~Announcing(t)
      /\ UNCHANGED <<users, notifications, silent>>
  BY DEF Insert, IInv, TypeOK, Announcing
<1> HIDE DEF row
<1>3. \A c \in comments : c.id \in Nat /\ c.id < row.id
  BY <1>1 DEF IInv, TypeOK, IdsAreUnique, Comment
<1>4. \A n \in notifications : n.post_comment \in Nat /\ n.post_comment < row.id
  BY <1>1 DEF IInv, TypeOK, IdsAreUnique, Notification
<1>5. \A s \in Thread : Announcing(s) => req[s].row.id \in Nat /\ req[s].row.id < row.id
  BY <1>1, RequestKinds DEF IInv, IdsAreUnique, Announcing, Comment
<1>6. IdsAreUnique'
  <2>1. \A c \in comments' : c.id <= lastId'
    BY <1>1, <1>2, <1>3
  <2>2. \A n \in notifications' : n.post_comment <= lastId'
    BY <1>1, <1>2, <1>4
  <2>3. \A c, d \in comments' : c.id = d.id => c = d
    BY <1>1, <1>2, <1>3 DEF IInv, IdsAreUnique
  <2>4. \A n \in notifications', c \in comments' :
          n.post_comment = c.id => n.post = c.post /\ n.visitor = c.user
    BY <1>1, <1>2, <1>4 DEF IInv, IdsAreUnique
  <2>5. ASSUME NEW s \in Thread, Announcing(s)'
        PROVE  /\ req'[s].row.id <= lastId'
               /\ \A c \in comments' : c.id = req'[s].row.id => c = req'[s].row
               /\ \A n \in notifications' :
                    n.post_comment = req'[s].row.id =>
                      n.post = req'[s].row.post /\ n.visitor = req'[s].row.user
               /\ \A r \in Thread :
                    r # s /\ Announcing(r)' => req'[r].row.id # req'[s].row.id
    <3>1. CASE s = t
      BY <3>1, <1>1, <1>2, <1>3, <1>4, <1>5 DEF Announcing
    <3>2. CASE s # t
      BY <3>2, <2>5, <1>1, <1>2, <1>5 DEF Announcing, IInv, IdsAreUnique
    <3>3. QED
      BY <3>1, <3>2
  <2>6. QED
    BY <2>1, <2>2, <2>3, <2>4, <2>5 DEF IdsAreUnique
<1>7. StillToNotify'
  BY <1>1, <1>2, <1>4 DEF IInv, StillToNotify
<1>8. OneNotificationPerComment'
  BY <1>2 DEF IInv, OneNotificationPerComment
<1>9. DestroysWholeComments'
  <2> SUFFICES ASSUME NEW s \in Thread, req'[s].pc = "destroy", NEW n \in req'[s].notes
               PROVE  /\ n.post_comment <= lastId'
                      /\ \/ n.visited \in req'[s].users
                         \/ \A c \in comments' : c.id = n.post_comment => c \in req'[s].rows
    BY DEF DestroysWholeComments
  <2>1. s # t /\ req'[s] = req[s]
    BY <1>2
  <2>2. n.post_comment \in Nat /\ n.post_comment <= lastId
    BY <2>1, RequestKinds DEF IInv, DestroysWholeComments, Notification
  <2>3. QED
    BY <1>1, <1>2, <2>1, <2>2 DEF IInv, DestroysWholeComments
<1>10. LoopServesAll'
  <2> SUFFICES ASSUME NEW s \in Thread, req'[s].pc = "notify", req'[s].row \in comments',
                      NEW u \in users, HasClaim(u, req[s].row)'
               PROVE  (u \in req[s].todo \cup {Owner[req[s].row.post]}
                         \/ Received(u, req[s].row))'
    BY <1>2 DEF LoopServesAll
  <2>1. s # t /\ req'[s] = req[s] /\ Announcing(s)
    BY <1>2 DEF Announcing
  <2>2. req[s].row \in comments /\ HasClaim(u, req[s].row)
    BY <1>1, <1>2, <1>5, <2>1 DEF HasClaim
  <2>3. QED
    BY <1>2, <2>1, <2>2 DEF IInv, LoopServesAll, Received
<1>11. FanOutReachesAll'
  <2> SUFFICES ASSUME NEW c \in comments', FannedOut(c)', NEW u \in users', HasClaim(u, c)'
               PROVE  Received(u, c)'
    BY DEF FanOutReachesAll
  <2>1. c # row
    BY <1>2 DEF FannedOut
  <2>2. c \in comments /\ FannedOut(c)
    BY <1>2, <2>1 DEF FannedOut, Announcing
  <2>3. \A d \in comments' : d.id < c.id => d \in comments
    BY <1>1, <1>2, <1>3, <2>2
  <2>4. HasClaim(u, c)
    BY <2>2, <2>3 DEF HasClaim
  <2>5. QED
    BY <1>2, <2>2, <2>4 DEF IInv, FanOutReachesAll, Received
<1>12. QED
  BY <1>6, <1>7, <1>8, <1>9, <1>10, <1>11 DEF IInv

LEMMA InsertSilentStep ==
  ASSUME IInv, TypeOK', NEW t \in Thread, InsertSilent(t)
  PROVE  IInv'
<1> DEFINE row == [req[t].row EXCEPT !.id = lastId + 1]
<1>1. /\ row \in Comment
      /\ row.id = lastId + 1
      /\ lastId \in Nat
  BY RequestKinds DEF InsertSilent, IInv, TypeOK, Comment
<1>2. /\ comments' = comments \cup {row}
      /\ req'[t] = Idle
      /\ \A s \in Thread : s # t => req'[s] = req[s]
      /\ lastId' = lastId + 1
      /\ ~Announcing(t)
      /\ silent' = silent \cup {row.id}
      /\ UNCHANGED <<users, notifications>>
  BY <1>1 DEF InsertSilent, IInv, TypeOK, Announcing
<1> HIDE DEF row
<1>3. \A c \in comments : c.id \in Nat /\ c.id < row.id
  BY <1>1 DEF IInv, TypeOK, IdsAreUnique, Comment
<1>4. \A n \in notifications : n.post_comment \in Nat /\ n.post_comment < row.id
  BY <1>1 DEF IInv, TypeOK, IdsAreUnique, Notification
<1>5. \A s \in Thread : Announcing(s) => req[s].row.id \in Nat /\ req[s].row.id < row.id
  BY <1>1, RequestKinds DEF IInv, IdsAreUnique, Announcing, Comment
<1>6. IdsAreUnique'
  <2>1. \A c \in comments' : c.id <= lastId'
    BY <1>1, <1>2, <1>3
  <2>2. \A n \in notifications' : n.post_comment <= lastId'
    BY <1>1, <1>2, <1>4
  <2>3. \A c, d \in comments' : c.id = d.id => c = d
    BY <1>1, <1>2, <1>3 DEF IInv, IdsAreUnique
  <2>4. \A n \in notifications', c \in comments' :
          n.post_comment = c.id => n.post = c.post /\ n.visitor = c.user
    BY <1>1, <1>2, <1>4 DEF IInv, IdsAreUnique
  <2>5. \A s \in Thread : Announcing(s)' => Announcing(s) /\ req'[s] = req[s]
    BY <1>2 DEF Announcing, Idle
  <2>6. QED
    BY <1>1, <1>2, <1>5, <2>1, <2>2, <2>3, <2>4, <2>5 DEF IInv, IdsAreUnique
<1>7. StillToNotify'
  BY <1>2 DEF IInv, StillToNotify, Idle
<1>8. OneNotificationPerComment'
  BY <1>2 DEF IInv, OneNotificationPerComment
<1>9. DestroysWholeComments'
  <2> SUFFICES ASSUME NEW s \in Thread, req'[s].pc = "destroy", NEW n \in req'[s].notes
               PROVE  /\ n.post_comment <= lastId'
                      /\ \/ n.visited \in req'[s].users
                         \/ \A c \in comments' : c.id = n.post_comment => c \in req'[s].rows
    BY DEF DestroysWholeComments
  <2>1. s # t /\ req'[s] = req[s]
    BY <1>2 DEF Idle
  <2>2. n.post_comment \in Nat /\ n.post_comment <= lastId
    BY <2>1, RequestKinds DEF IInv, DestroysWholeComments, Notification
  <2>3. QED
    BY <1>1, <1>2, <2>1, <2>2 DEF IInv, DestroysWholeComments
<1>10. LoopServesAll'
  <2> SUFFICES ASSUME NEW s \in Thread, req'[s].pc = "notify", req'[s].row \in comments',
                      NEW u \in users, HasClaim(u, req[s].row)'
               PROVE  (u \in req[s].todo \cup {Owner[req[s].row.post]}
                         \/ Received(u, req[s].row))'
    BY <1>2 DEF LoopServesAll
  <2>1. s # t /\ req'[s] = req[s] /\ Announcing(s)
    BY <1>2 DEF Announcing, Idle
  <2>2. req[s].row \in comments /\ HasClaim(u, req[s].row)
    BY <1>1, <1>2, <1>5, <2>1 DEF HasClaim
  <2>3. QED
    BY <1>2, <2>1, <2>2 DEF IInv, LoopServesAll, Received
<1>11. FanOutReachesAll'
  <2> SUFFICES ASSUME NEW c \in comments', FannedOut(c)', NEW u \in users', HasClaim(u, c)'
               PROVE  Received(u, c)'
    BY DEF FanOutReachesAll
  <2>1. c \in comments /\ FannedOut(c)
    BY <1>2 DEF FannedOut, Announcing
  <2>2. \A d \in comments' : d.id < c.id => d \in comments
    BY <1>1, <1>2, <1>3, <2>1
  <2>3. HasClaim(u, c)
    BY <2>1, <2>2 DEF HasClaim
  <2>4. QED
    BY <1>2, <2>1, <2>3 DEF IInv, FanOutReachesAll, Received
<1>12. QED
  BY <1>6, <1>7, <1>8, <1>9, <1>10, <1>11 DEF IInv

LEMMA SelectStep ==
  ASSUME IInv, TypeOK', NEW t \in Thread, SelectCommenters(t)
  PROVE  IInv'
<1>1. /\ req'[t].pc = "notify"
      /\ req'[t].row = req[t].row
      /\ req'[t].todo = TempIds(req[t].row)
      /\ \A s \in Thread : s # t => req'[s] = req[s]
      /\ req[t].pc = "select"
      /\ UNCHANGED <<users, comments, notifications, lastId, silent>>
  BY DEF SelectCommenters, IInv, TypeOK
<1>2. \A s \in Thread : Announcing(s)' => Announcing(s) /\ req'[s].row = req[s].row
  BY <1>1 DEF Announcing
<1>3. IdsAreUnique'
  BY <1>1, <1>2 DEF IInv, IdsAreUnique
<1>4. StillToNotify'
  BY <1>1 DEF IInv, StillToNotify, TempIds
<1>5. OneNotificationPerComment'
  BY <1>1 DEF IInv, OneNotificationPerComment
<1>6. DestroysWholeComments'
  BY <1>1 DEF IInv, DestroysWholeComments
<1>7. LoopServesAll'
  BY <1>1 DEF IInv, LoopServesAll, HasClaim, Received, TempIds
<1>8. FanOutReachesAll'
  <2>1. \A c \in comments : FannedOut(c)' => FannedOut(c)
    BY <1>1 DEF FannedOut
  <2>2. QED
    BY <1>1, <2>1 DEF IInv, FanOutReachesAll, HasClaim, Received
<1>9. QED
  BY <1>3, <1>4, <1>5, <1>6, <1>7, <1>8 DEF IInv

\* What saving one more notification for the row of t leaves true, whoever gets it.
LEMMA SaveStep ==
  ASSUME IInv, NEW t \in Thread, req[t].pc = "notify",
         NEW u \in req[t].todo \cup {Owner[req[t].row.post]}, NEW n \in Notification,
         n.post = req[t].row.post, n.post_comment = req[t].row.id,
         n.visitor = req[t].row.user, n.visited = u,
         notifications' = notifications \cup {n},
         \A s \in Thread : s # t => req'[s] = req[s],
         Announcing(t)' => req'[t].row = req[t].row,
         req'[t].pc \in {"idle", "notify"},
         UNCHANGED <<users, comments, lastId, silent>>
  PROVE  /\ IdsAreUnique'
         /\ OneNotificationPerComment'
         /\ DestroysWholeComments'
         /\ \A v, c : Received(v, c) => Received(v, c)'
<1>1. \A s \in Thread : Announcing(s)' => Announcing(s) /\ req'[s].row = req[s].row
  BY DEF Announcing
<1>2. IdsAreUnique'
  BY <1>1 DEF IInv, IdsAreUnique, Announcing
<1>3. \A m \in notifications : m.post_comment = n.post_comment => m.visited # n.visited
  BY DEF IInv, StillToNotify
<1>4. OneNotificationPerComment'
  BY <1>3 DEF IInv, OneNotificationPerComment
<1>5. DestroysWholeComments'
  BY DEF IInv, DestroysWholeComments
<1>6. QED
  BY <1>2, <1>4, <1>5 DEF Received

LEMMA NotifyCommenterStep ==
  ASSUME IInv, TypeOK', NEW t \in Thread, NotifyCommenter(t)
  PROVE  IInv'
<1>1. req[t].pc = "notify" /\ req[t].row \in Comment /\ req[t].todo \subseteq User
  BY RequestKinds DEF NotifyCommenter, IInv
<1>2. PICK u \in req[t].todo :
        /\ notifications' = notifications \cup {NewNotification(req[t].row, u, "commenter")}
        /\ req' = [req EXCEPT ![t] = [pc |-> "notify", todo |-> req[t].todo \ {u},
                                      row |-> req[t].row]]
  BY DEF NotifyCommenter
<1>3. /\ req'[t].pc = "notify"
      /\ req'[t].row = req[t].row
      /\ req'[t].todo = req[t].todo \ {u}
      /\ \A s \in Thread : s # t => req'[s] = req[s]
      /\ UNCHANGED <<users, comments, lastId, silent>>
  BY <1>2 DEF NotifyCommenter, IInv, TypeOK
<1> DEFINE n == NewNotification(req[t].row, u, "commenter")
<1>4. /\ n \in Notification
      /\ n.post = req[t].row.post /\ n.post_comment = req[t].row.id
      /\ n.visitor = req[t].row.user /\ n.visited = u
  BY <1>1, NewNotificationFields
<1>5. notifications' = notifications \cup {n}
  BY <1>2
<1> HIDE DEF n
<1>6. /\ IdsAreUnique'
      /\ OneNotificationPerComment'
      /\ DestroysWholeComments'
      /\ \A v, c : Received(v, c) => Received(v, c)'
  BY <1>1, <1>3, <1>4, <1>5, SaveStep
<1>7. StillToNotify'
  <2>1. \A s \in Thread : s # t /\ Announcing(s) => req[s].row.id # n.post_comment
    BY <1>1, <1>4 DEF IInv, IdsAreUnique, Announcing
  <2>2. u # Owner[req[t].row.post]
    BY <1>1 DEF IInv, StillToNotify
  <2>3. QED
    BY <1>1, <1>3, <1>4, <1>5, <2>1, <2>2 DEF IInv, StillToNotify, Announcing
<1>8. LoopServesAll'
  <2> SUFFICES ASSUME NEW s \in Thread, req'[s].pc = "notify", req[s].row \in comments,
                      NEW v \in users, HasClaim(v, req[s].row)
               PROVE  v \in req'[s].todo \cup {Owner[req[s].row.post]}
                        \/ Received(v, req[s].row)'
    BY <1>3 DEF LoopServesAll, HasClaim, Received
  <2>1. v \in req[s].todo \cup {Owner[req[s].row.post]} \/ Received(v, req[s].row)
    BY <1>1, <1>3 DEF IInv, LoopServesAll
  <2>2. Received(v, req[s].row) => Received(v, req[s].row)'
    BY <1>3, <1>5 DEF Received
  <2>3. s = t /\ v = u => Received(v, req[s].row)'
    BY <1>3, <1>4, <1>5 DEF Received
  <2>4. QED
    BY <1>3, <2>1, <2>2, <2>3
<1>9. FanOutReachesAll'
  <2>1. \A c \in comments : FannedOut(c)' => FannedOut(c)
    BY <1>1, <1>3 DEF FannedOut
  <2>2. ASSUME NEW c \in comments', FannedOut(c)'
        PROVE  \A v \in users' : HasClaim(v, c)' => Received(v, c)'
    <3>1. c \in comments /\ FannedOut(c)
      BY <1>3, <2>1, <2>2
    <3>2. QED
      BY <1>3, <1>6, <3>1 DEF IInv, FanOutReachesAll, HasClaim
  <2>3. QED
    BY <2>2 DEF FanOutReachesAll
<1>10. QED
  BY <1>6, <1>7, <1>8, <1>9 DEF IInv

LEMMA NotifyOwnerStep ==
  ASSUME IInv, TypeOK', NEW t \in Thread, NotifyOwner(t)
  PROVE  IInv'
<1>1. /\ req[t].pc = "notify" /\ req[t].row \in Comment /\ req[t].todo = {}
      /\ Owner[req[t].row.post] \in User
  BY RequestKinds, PostCommentsAssumption DEF NotifyOwner, IInv, Comment
<1>2. /\ req'[t] = Idle
      /\ \A s \in Thread : s # t => req'[s] = req[s]
      /\ UNCHANGED <<users, comments, lastId, silent>>
  BY DEF NotifyOwner, IInv, TypeOK
<1> DEFINE u == Owner[req[t].row.post]
           n == NewNotification(req[t].row, u, "owner")
<1>3. /\ n \in Notification
      /\ n.post = req[t].row.post /\ n.post_comment = req[t].row.id
      /\ n.visitor = req[t].row.user /\ n.visited = u
  BY <1>1, NewNotificationFields
<1>4. notifications' = notifications \cup {n}
  BY DEF NotifyOwner
<1> HIDE DEF n
<1>5. /\ IdsAreUnique'
      /\ OneNotificationPerComment'
      /\ DestroysWholeComments'
      /\ \A v, c : Received(v, c) => Received(v, c)'
  BY <1>1, <1>2, <1>3, <1>4, SaveStep DEF Idle, Announcing
<1>6. StillToNotify'
  <2>1. \A s \in Thread : s # t /\ Announcing(s) => req[s].row.id # n.post_comment
    BY <1>1, <1>3 DEF IInv, IdsAreUnique, Announcing
  <2>2. QED
    BY <1>2, <1>4, <2>1 DEF IInv, StillToNotify, Announcing, Idle
<1>7. LoopServesAll'
  <2> SUFFICES ASSUME NEW s \in Thread, req'[s].pc = "notify", req'[s].row \in comments,
                      NEW v \in users, HasClaim(v, req[s].row)
               PROVE  v \in req[s].todo \cup {Owner[req[s].row.post]}
                        \/ Received(v, req[s].row)'
    BY <1>2 DEF LoopServesAll, HasClaim, Received, Idle
  <2>1. s # t /\ req'[s] = req[s]
    BY <1>2 DEF Idle
  <2>2. v \in req[s].todo \cup {Owner[req[s].row.post]} \/ Received(v, req[s].row)
    BY <2>1 DEF IInv, LoopServesAll
  <2>3. QED
    BY <1>4, <2>1, <2>2 DEF Received
<1>8. FanOutReachesAll'
  <2> SUFFICES ASSUME NEW c \in comments, FannedOut(c)', NEW v \in users, HasClaim(v, c)
               PROVE  Received(v, c)'
    BY <1>2 DEF FanOutReachesAll, HasClaim
  <2>1. CASE FannedOut(c)
    BY <1>5, <2>1 DEF IInv, FanOutReachesAll
  <2>2. CASE ~FannedOut(c)
    <3>1. c = req[t].row
      BY <1>1, <1>2, <2>2 DEF FannedOut, Announcing, IInv, IdsAreUnique
    <3>2. v = Owner[c.post] \/ Received(v, c)
      BY <1>1, <3>1 DEF IInv, LoopServesAll
    <3>3. Received(Owner[c.post], c)'
      BY <1>3, <1>4, <3>1 DEF Received
    <3>4. QED
      BY <1>5, <3>2, <3>3
  <2>3. QED
    BY <2>1, <2>2
<1>9. QED
  BY <1>5, <1>6, <1>7, <1>8 DEF IInv

LEMMA CommitStep ==
  ASSUME IInv, TypeOK', NEW t \in Thread, CommitDestroy(t)
  PROVE  IInv'
<1>1. /\ req[t].pc = "destroy"
      /\ comments' = comments \ req[t].rows
      /\ notifications' = notifications \ req[t].notes
      /\ req'[t] = Idle
      /\ \A s \in Thread : s # t => req'[s] = req[s]
      /\ users' = users \ req[t].users
      /\ UNCHANGED <<lastId, silent>>
  BY DEF CommitDestroy, IInv, TypeOK
<1>2. \A s \in Thread : Announcing(s)' => Announcing(s) /\ req'[s] = req[s]
  BY <1>1 DEF Announcing, Idle
<1>3. \A c \in comments', v \in users' :
        /\ Received(v, c) => Received(v, c)'
        /\ HasClaim(v, c)' => HasClaim(v, c)
  BY <1>1 DEF IInv, DestroysWholeComments, HasClaim, Received
<1>4. IdsAreUnique'
  BY <1>1, <1>2 DEF IInv, IdsAreUnique
<1>5. StillToNotify'
  BY <1>1 DEF IInv, StillToNotify, Idle
<1>6. OneNotificationPerComment'
  BY <1>1 DEF IInv, OneNotificationPerComment
<1>7. DestroysWholeComments'
  BY <1>1 DEF IInv, DestroysWholeComments, Idle
<1>8. LoopServesAll'
  <2> SUFFICES ASSUME NEW s \in Thread, req'[s].pc = "notify", req'[s].row \in comments',
                      NEW v \in users', HasClaim(v, req[s].row)'
               PROVE  v \in req[s].todo \cup {Owner[req[s].row.post]}
                        \/ Received(v, req[s].row)'
    BY <1>1, <1>2 DEF LoopServesAll, Received, HasClaim, Announcing
  <2>1. s # t /\ req'[s] = req[s]
    BY <1>1 DEF Idle
  <2>2. req[s].row \in comments /\ HasClaim(v, req[s].row)
    BY <1>1, <1>3, <2>1
  <2>3. QED
    BY <1>1, <1>3, <2>1, <2>2 DEF IInv, LoopServesAll
<1>9. FanOutReachesAll'
  <2>1. \A c \in comments' : FannedOut(c)' => FannedOut(c)
    BY <1>1 DEF FannedOut
  <2>2. QED
    BY <1>1, <1>3, <2>1 DEF IInv, FanOutReachesAll
<1>10. QED
  BY <1>4, <1>5, <1>6, <1>7, <1>8, <1>9 DEF IInv

-----------------------------------------------------------------------------
LEMMA Inductive == IInv /\ [Next]_vars => IInv'
<1> SUFFICES ASSUME IInv, [Next]_vars PROVE IInv'
  OBVIOUS
<1>1. TypeOK'
  BY TypeInvariant DEF IInv
<1>2. CASE UNCHANGED vars
  BY <1>2 DEF vars, IInv, TypeOK, IdsAreUnique, StillToNotify, OneNotificationPerComment,
       DestroysWholeComments, LoopServesAll, HasClaim, FanOutReachesAll, FannedOut,
       Received, Announcing
<1>3. CASE Next
  BY <1>1, <1>3, CreateStep, InsertStep, InsertSilentStep, SelectStep, NotifyCommenterStep,
     NotifyOwnerStep, DestroyCommentStep, DestroyPostsStep, DestroyAccountStep, CommitStep, AbortStep
     DEF Next, Continue
<1>4. QED
  BY <1>2, <1>3

LEMMA Initially == Init => IInv
BY PostCommentsAssumption DEF Init, IInv, TypeOK, IdsAreUnique, StillToNotify,
   OneNotificationPerComment, DestroysWholeComments, LoopServesAll, FanOutReachesAll,
   Announcing, Idle

\* However comments, destroys and aborted requests interleave, one comment never
\* notifies the same user twice (post.rb:92-102).
THEOREM NotifiedOnce == Spec => []OneNotificationPerComment
<1>1. IInv => OneNotificationPerComment
  BY DEF IInv
<1>2. QED
  BY <1>1, Initially, Inductive, PTL DEF Spec

\* However comments, destroys and aborted requests interleave, a comment whose request
\* ran to its end has reached the owner and every earlier commenter (post.rb:92-102).
THEOREM FanOutIsComplete == Spec => []FanOutReachesAll
<1>1. IInv => FanOutReachesAll
  BY DEF IInv
<1>2. QED
  BY <1>1, Initially, Inductive, PTL DEF Spec

-----------------------------------------------------------------------------
\* A comment on its way keeps its post and its author, and a destroy knows all there is to
\* delete, unless the two have met.
PostRace(t, p) ==
  /\ Commenting(t, p) => p \in posts \cup contended
  /\ Deleting(t, p) /\ p \notin contended =>
       /\ \A s \in Thread : ~Commenting(s, p)
       /\ \A c \in comments : c.post = p => c \in req[t].rows
       /\ \A n \in notifications : n.post = p => n \in req[t].notes

AccountRace(t, u) ==
  /\ Speaking(t, u) => u \in users \cup contended
  /\ Closing(t, u) /\ u \notin contended =>
       /\ \A s \in Thread : ~Speaking(s, u)
       /\ \A c \in comments : c.user = u => c \in req[t].rows
       /\ \A n \in notifications : n.visitor = u => n \in req[t].notes

RacesAreNoticed ==
  /\ \A t \in Thread, p \in Post : PostRace(t, p)
  /\ \A t \in Thread, u \in User : AccountRace(t, u)

LeakInv == TypeOK /\ OnlyRacesLeak /\ RacesAreNoticed

\* A step of a thread that takes up a comment, goes on with it or drops it, and adds no row
\* but one about the post and by the author of the comment it has in hand.
LEMMA SpeakingStep ==
  ASSUME LeakInv, TypeOK', NEW t \in Thread,
         \A s \in Thread : s # t => req'[s] = req[s],
         UNCHANGED <<users, posts>>, contended \subseteq contended',
         \A q \in Post :
           /\ ~Deleting(t, q)'
           /\ Commenting(t, q)' =>
                Commenting(t, q)
                \/ (q \in posts /\ ((\E s \in Thread : Deleting(s, q)) => q \in contended')),
         \A v \in User :
           /\ ~Closing(t, v)'
           /\ Speaking(t, v)' =>
                Speaking(t, v)
                \/ (v \in users /\ ((\E s \in Thread : Closing(s, v)) => v \in contended')),
         \A c \in comments' \ comments : Commenting(t, c.post) /\ Speaking(t, c.user),
         \A n \in notifications' \ notifications :
           Commenting(t, n.post) /\ Speaking(t, n.visitor)
  PROVE  OnlyRacesLeak' /\ RacesAreNoticed'
<1>1. \A c \in comments' : c.post \in Post /\ c.user \in User
  BY DEF TypeOK, Comment
<1>2. \A n \in notifications' : n.post \in Post /\ n.visitor \in User
  BY DEF TypeOK, Notification
<1>3. OnlyRacesLeak'
  <2>1. \A q \in Post : Commenting(t, q) => q \in posts \cup contended
    BY DEF LeakInv, RacesAreNoticed, PostRace
  <2>2. \A v \in User : Speaking(t, v) => v \in users \cup contended
    BY DEF LeakInv, RacesAreNoticed, AccountRace
  <2>3. QED
    BY <1>1, <1>2, <2>1, <2>2 DEF LeakInv, OnlyRacesLeak
<1>4. ASSUME NEW s \in Thread, NEW q \in Post PROVE PostRace(s, q)'
  <2>1. Commenting(s, q)' => q \in posts' \cup contended'
    BY DEF LeakInv, RacesAreNoticed, PostRace, Commenting
  <2>2. ASSUME Deleting(s, q)', q \notin contended'
        PROVE  /\ \A r \in Thread : ~Commenting(r, q)'
               /\ \A c \in comments' : c.post = q => c \in req'[s].rows
               /\ \A n \in notifications' : n.post = q => n \in req'[s].notes
    <3>1. s # t /\ Deleting(s, q) /\ req'[s] = req[s] /\ q \notin contended
      BY <2>2 DEF Deleting
    <3>2. /\ \A r \in Thread : ~Commenting(r, q)
          /\ \A c \in comments : c.post = q => c \in req[s].rows
          /\ \A n \in notifications : n.post = q => n \in req[s].notes
      BY <3>1 DEF LeakInv, RacesAreNoticed, PostRace
    <3>3. ~Commenting(t, q)'
      BY <2>2, <3>1, <3>2
    <3>4. \A r \in Thread : ~Commenting(r, q)'
      BY <3>2, <3>3 DEF Commenting
    <3>5. QED
      BY <3>1, <3>2, <3>4
  <2>3. QED
    BY <2>1, <2>2 DEF PostRace
<1>5. ASSUME NEW s \in Thread, NEW v \in User PROVE AccountRace(s, v)'
  <2>1. Speaking(s, v)' => v \in users' \cup contended'
    BY DEF LeakInv, RacesAreNoticed, AccountRace, Speaking
  <2>2. ASSUME Closing(s, v)', v \notin contended'
        PROVE  /\ \A r \in Thread : ~Speaking(r, v)'
               /\ \A c \in comments' : c.user = v => c \in req'[s].rows
               /\ \A n \in notifications' : n.visitor = v => n \in req'[s].notes
    <3>1. s # t /\ Closing(s, v) /\ req'[s] = req[s] /\ v \notin contended
      BY <2>2 DEF Closing
    <3>2. /\ \A r \in Thread : ~Speaking(r, v)
          /\ \A c \in comments : c.user = v => c \in req[s].rows
          /\ \A n \in notifications : n.visitor = v => n \in req[s].notes
      BY <3>1 DEF LeakInv, RacesAreNoticed, AccountRace
    <3>3. ~Speaking(t, v)'
      BY <2>2, <3>1, <3>2
    <3>4. \A r \in Thread : ~Speaking(r, v)'
      BY <3>2, <3>3 DEF Speaking
    <3>5. QED
      BY <3>1, <3>2, <3>4
  <2>3. QED
    BY <2>1, <2>2 DEF AccountRace
<1>6. QED
  BY <1>3, <1>4, <1>5 DEF RacesAreNoticed

\* A destroy that has read all there is of its posts and of its accounts.
LEMMA DestroyingStep ==
  ASSUME LeakInv, NEW t \in Thread,
         \A s \in Thread : s # t => req'[s] = req[s],
         UNCHANGED <<users, posts, comments, notifications>>, contended \subseteq contended',
         req'[t].pc = "destroy",
         \A q \in req'[t].posts \ contended' :
           /\ \A s \in Thread : ~Commenting(s, q)
           /\ \A c \in comments : c.post = q => c \in req'[t].rows
           /\ \A n \in notifications : n.post = q => n \in req'[t].notes,
         \A v \in req'[t].users \ contended' :
           /\ \A s \in Thread : ~Speaking(s, v)
           /\ \A c \in comments : c.user = v => c \in req'[t].rows
           /\ \A n \in notifications : n.visitor = v => n \in req'[t].notes
  PROVE  OnlyRacesLeak' /\ RacesAreNoticed'
<1>1. OnlyRacesLeak'
  BY DEF LeakInv, OnlyRacesLeak
<1>2. \A s \in Thread, q \in Post : Commenting(s, q)' => s # t /\ Commenting(s, q)
  BY DEF Commenting
<1>3. \A s \in Thread, v \in User : Speaking(s, v)' => s # t /\ Speaking(s, v)
  BY DEF Speaking
<1>4. ASSUME NEW s \in Thread, NEW q \in Post PROVE PostRace(s, q)'
  <2>1. CASE s = t
    BY <1>2, <2>1 DEF PostRace, Deleting
  <2>2. CASE s # t
    BY <1>2, <2>2 DEF LeakInv, RacesAreNoticed, PostRace, Deleting
  <2>3. QED
    BY <2>1, <2>2
<1>5. ASSUME NEW s \in Thread, NEW v \in User PROVE AccountRace(s, v)'
  <2>1. CASE s = t
    BY <1>3, <2>1 DEF AccountRace, Closing
  <2>2. CASE s # t
    BY <1>3, <2>2 DEF LeakInv, RacesAreNoticed, AccountRace, Closing
  <2>3. QED
    BY <2>1, <2>2
<1>6. QED
  BY <1>1, <1>4, <1>5 DEF RacesAreNoticed

LEMMA LeakCommitStep ==
  ASSUME LeakInv, NEW t \in Thread, CommitDestroy(t)
  PROVE  OnlyRacesLeak' /\ RacesAreNoticed'
<1>1. /\ users' = users \ req[t].users /\ posts' = posts \ req[t].posts
      /\ comments' = comments \ req[t].rows
      /\ notifications' = notifications \ req[t].notes
      /\ req[t].pc = "destroy" /\ req'[t].pc = "idle" /\ contended' = contended
      /\ \A s \in Thread : s # t => req'[s] = req[s]
  BY DEF CommitDestroy, LeakInv, TypeOK, Idle
<1>2. \A s \in Thread, q \in Post :
        /\ Commenting(s, q)' => Commenting(s, q)
        /\ Deleting(s, q)' => Deleting(s, q) /\ req'[s] = req[s]
  BY <1>1 DEF Commenting, Deleting
<1>3. \A s \in Thread, v \in User :
        /\ Speaking(s, v)' => Speaking(s, v)
        /\ Closing(s, v)' => Closing(s, v) /\ req'[s] = req[s]
  BY <1>1 DEF Speaking, Closing
<1>4. \A q \in Post : q \in req[t].posts /\ q \notin contended =>
        /\ \A s \in Thread : ~Commenting(s, q)
        /\ \A c \in comments' : c.post # q
        /\ \A n \in notifications' : n.post # q
  BY <1>1 DEF LeakInv, RacesAreNoticed, PostRace, Deleting
<1>5. \A v \in User : v \in req[t].users /\ v \notin contended =>
        /\ \A s \in Thread : ~Speaking(s, v)
        /\ \A c \in comments' : c.user # v
        /\ \A n \in notifications' : n.visitor # v
  BY <1>1 DEF LeakInv, RacesAreNoticed, AccountRace, Closing
<1>6. OnlyRacesLeak'
  <2>1. ASSUME NEW c \in comments'
        PROVE  c.post \in posts' \cup contended' /\ c.user \in users' \cup contended'
    <3>1. c \in comments /\ c.post \in Post /\ c.user \in User
      BY <1>1 DEF LeakInv, TypeOK, Comment
    <3>2. c.post \in posts \cup contended /\ c.user \in users \cup contended
      BY <3>1 DEF LeakInv, OnlyRacesLeak
    <3>3. QED
      BY <1>1, <1>4, <1>5, <3>1, <3>2
  <2>2. ASSUME NEW n \in notifications'
        PROVE  n.post \in posts' \cup contended' /\ n.visitor \in users' \cup contended'
    <3>1. n \in notifications /\ n.post \in Post /\ n.visitor \in User
      BY <1>1 DEF LeakInv, TypeOK, Notification
    <3>2. n.post \in posts \cup contended /\ n.visitor \in users \cup contended
      BY <3>1 DEF LeakInv, OnlyRacesLeak
    <3>3. QED
      BY <1>1, <1>4, <1>5, <3>1, <3>2
  <2>3. QED
    BY <2>1, <2>2 DEF OnlyRacesLeak
<1>7. ASSUME NEW s \in Thread, NEW q \in Post PROVE PostRace(s, q)'
  BY <1>1, <1>2, <1>4 DEF LeakInv, RacesAreNoticed, PostRace
<1>8. ASSUME NEW s \in Thread, NEW v \in User PROVE AccountRace(s, v)'
  BY <1>1, <1>3, <1>5 DEF LeakInv, RacesAreNoticed, AccountRace
<1>9. QED
  BY <1>6, <1>7, <1>8 DEF RacesAreNoticed

LEMMA LeakInductive ==
  ASSUME LeakInv, [Next]_vars
  PROVE  LeakInv'
<1>1. TypeOK'
  BY TypeInvariant DEF LeakInv
<1>2. SUFFICES OnlyRacesLeak' /\ RacesAreNoticed'
  BY <1>1 DEF LeakInv
<1>3. ASSUME NEW t \in Thread, NEW u \in User, NEW p \in Post,
             NEW pc \in {"insert", "insert_silent"}, Create(t, u, p, pc)
      PROVE  OnlyRacesLeak' /\ RacesAreNoticed'
  <2>1. /\ p \in posts /\ u \in users
        /\ UNCHANGED <<users, posts, comments, notifications>>
        /\ contended \subseteq contended'
        /\ (\E s \in Thread : Deleting(s, p)) => p \in contended'
        /\ (\E s \in Thread : Closing(s, u)) => u \in contended'
        /\ req'[t].pc \in {"insert", "insert_silent"}
        /\ req'[t].row.post = p /\ req'[t].row.user = u
        /\ \A s \in Thread : s # t => req'[s] = req[s]
    BY <1>3 DEF Create, LeakInv, TypeOK
  <2>2. \A q \in Post : ~Deleting(t, q)' /\ (Commenting(t, q)' => q = p)
    BY <2>1 DEF Deleting, Commenting
  <2>3. \A v \in User : ~Closing(t, v)' /\ (Speaking(t, v)' => v = u)
    BY <2>1 DEF Closing, Speaking
  <2>4. QED
    BY <1>1, <2>1, <2>2, <2>3, SpeakingStep
<1>4. ASSUME NEW t \in Thread, Insert(t) PROVE OnlyRacesLeak' /\ RacesAreNoticed'
  <2> DEFINE row == [req[t].row EXCEPT !.id = lastId + 1]
  <2>1. /\ req[t].row \in Comment /\ req[t].pc = "insert"
        /\ row.post = req[t].row.post /\ row.user = req[t].row.user
    BY <1>4, RequestKinds DEF Insert, LeakInv, Comment
  <2>2. /\ comments' = comments \cup {row} /\ UNCHANGED <<users, posts, notifications, contended>>
        /\ req'[t].pc = "select" /\ req'[t].row = row
        /\ \A s \in Thread : s # t => req'[s] = req[s]
    BY <1>4 DEF Insert, LeakInv, TypeOK
  <2> HIDE DEF row
  <2>3. /\ Commenting(t, row.post) /\ Speaking(t, row.user)
        /\ \A q \in Post : ~Deleting(t, q)' /\ (Commenting(t, q)' => Commenting(t, q))
        /\ \A v \in User : ~Closing(t, v)' /\ (Speaking(t, v)' => Speaking(t, v))
    BY <2>1, <2>2 DEF Commenting, Speaking, Deleting, Closing
  <2>4. QED
    BY <1>1, <2>2, <2>3, SpeakingStep
<1>5. ASSUME NEW t \in Thread, InsertSilent(t) PROVE OnlyRacesLeak' /\ RacesAreNoticed'
  <2> DEFINE row == [req[t].row EXCEPT !.id = lastId + 1]
  <2>1. /\ req[t].row \in Comment /\ req[t].pc = "insert_silent"
        /\ row.post = req[t].row.post /\ row.user = req[t].row.user
    BY <1>5, RequestKinds DEF InsertSilent, LeakInv, Comment
  <2>2. /\ comments' = comments \cup {row} /\ UNCHANGED <<users, posts, notifications, contended>>
        /\ req'[t].pc = "idle"
        /\ \A s \in Thread : s # t => req'[s] = req[s]
    BY <1>5 DEF InsertSilent, LeakInv, TypeOK, Idle
  <2> HIDE DEF row
  <2>3. /\ Commenting(t, row.post) /\ Speaking(t, row.user)
        /\ \A q \in Post : ~Deleting(t, q)' /\ ~Commenting(t, q)'
        /\ \A v \in User : ~Closing(t, v)' /\ ~Speaking(t, v)'
    BY <2>1, <2>2 DEF Commenting, Speaking, Deleting, Closing
  <2>4. QED
    BY <1>1, <2>2, <2>3, SpeakingStep
<1>6. ASSUME NEW t \in Thread, SelectCommenters(t) PROVE OnlyRacesLeak' /\ RacesAreNoticed'
  <2>1. /\ UNCHANGED <<users, posts, comments, notifications, contended>>
        /\ req[t].pc = "select" /\ req'[t].pc = "notify" /\ req'[t].row = req[t].row
        /\ \A s \in Thread : s # t => req'[s] = req[s]
    BY <1>6 DEF SelectCommenters, LeakInv, TypeOK
  <2>2. /\ \A q \in Post : ~Deleting(t, q)' /\ (Commenting(t, q)' => Commenting(t, q))
        /\ \A v \in User : ~Closing(t, v)' /\ (Speaking(t, v)' => Speaking(t, v))
    BY <2>1 DEF Commenting, Speaking, Deleting, Closing
  <2>3. QED
    BY <1>1, <2>1, <2>2, SpeakingStep
<1>7. ASSUME NEW t \in Thread, NotifyCommenter(t) PROVE OnlyRacesLeak' /\ RacesAreNoticed'
  <2>1. req[t].row \in Comment /\ req[t].todo \subseteq User /\ req[t].pc = "notify"
    BY <1>7, RequestKinds DEF NotifyCommenter, LeakInv
  <2>2. PICK u \in req[t].todo :
          notifications' = notifications \cup {NewNotification(req[t].row, u, "commenter")}
    BY <1>7 DEF NotifyCommenter
  <2> DEFINE n == NewNotification(req[t].row, u, "commenter")
  <2>3. n.post = req[t].row.post /\ n.visitor = req[t].row.user
    BY <2>1, NewNotificationFields
  <2>4. notifications' = notifications \cup {n}
    BY <2>2
  <2> HIDE DEF n
  <2>5. /\ req'[t].pc = "notify" /\ req'[t].row = req[t].row
        /\ UNCHANGED <<users, posts, comments, contended>>
        /\ \A s \in Thread : s # t => req'[s] = req[s]
    BY <1>7 DEF NotifyCommenter, LeakInv, TypeOK
  <2>6. /\ Commenting(t, n.post) /\ Speaking(t, n.visitor)
        /\ \A q \in Post : ~Deleting(t, q)' /\ (Commenting(t, q)' => Commenting(t, q))
        /\ \A v \in User : ~Closing(t, v)' /\ (Speaking(t, v)' => Speaking(t, v))
    BY <2>1, <2>3, <2>5 DEF Commenting, Speaking, Deleting, Closing
  <2>7. QED
    BY <1>1, <2>4, <2>5, <2>6, SpeakingStep
<1>8. ASSUME NEW t \in Thread, NotifyOwner(t) PROVE OnlyRacesLeak' /\ RacesAreNoticed'
  <2> DEFINE u == Owner[req[t].row.post]
             n == NewNotification(req[t].row, u, "owner")
  <2>1. req[t].row \in Comment /\ u \in User /\ req[t].pc = "notify"
    BY <1>8, RequestKinds, PostCommentsAssumption DEF NotifyOwner, LeakInv, Comment
  <2>2. notifications' = notifications \cup {n}
    BY <1>8 DEF NotifyOwner
  <2>3. n.post = req[t].row.post /\ n.visitor = req[t].row.user
    BY <2>1, NewNotificationFields
  <2> HIDE DEF n
  <2>4. /\ req'[t].pc = "idle" /\ UNCHANGED <<users, posts, comments, contended>>
        /\ \A s \in Thread : s # t => req'[s] = req[s]
    BY <1>8 DEF NotifyOwner, LeakInv, TypeOK, Idle
  <2>5. /\ Commenting(t, n.post) /\ Speaking(t, n.visitor)
        /\ \A q \in Post : ~Deleting(t, q)' /\ ~Commenting(t, q)'
        /\ \A v \in User : ~Closing(t, v)' /\ ~Speaking(t, v)'
    BY <2>1, <2>3, <2>4 DEF Commenting, Speaking, Deleting, Closing
  <2>6. QED
    BY <1>1, <2>2, <2>4, <2>5, SpeakingStep
<1>9. ASSUME NEW t \in Thread, NEW c \in comments, DestroyComment(t, c)
      PROVE  OnlyRacesLeak' /\ RacesAreNoticed'
  <2>1. /\ UNCHANGED <<users, posts, comments, notifications, contended>>
        /\ req'[t].pc = "destroy" /\ req'[t].posts = {} /\ req'[t].users = {}
        /\ \A s \in Thread : s # t => req'[s] = req[s]
    BY <1>9 DEF DestroyComment, LeakInv, TypeOK
  <2>2. QED
    BY <2>1, DestroyingStep
<1>10. ASSUME NEW t \in Thread, NEW ps \in SUBSET posts, DestroyPosts(t, ps)
       PROVE  OnlyRacesLeak' /\ RacesAreNoticed'
  <2>1. /\ UNCHANGED <<users, posts, comments, notifications>>
        /\ contended' = contended \cup {p \in ps : \E s \in Thread : Commenting(s, p)}
        /\ req'[t].pc = "destroy" /\ req'[t].posts = ps /\ req'[t].users = {}
        /\ req'[t].rows = {c \in comments : c.post \in ps}
        /\ req'[t].notes = {n \in notifications : n.post \in ps}
        /\ \A s \in Thread : s # t => req'[s] = req[s]
    BY <1>10 DEF DestroyPosts, LeakInv, TypeOK
  <2>2. QED
    BY <2>1, DestroyingStep
<1>11. ASSUME NEW t \in Thread, NEW u \in User, DestroyAccount(t, u)
       PROVE  OnlyRacesLeak' /\ RacesAreNoticed'
  <2>1. /\ UNCHANGED <<users, posts, comments, notifications>>
        /\ contended' = contended
             \cup {p \in PostsOf(u) : \E s \in Thread : Commenting(s, p)}
             \cup {v \in {u} : \E s \in Thread : Speaking(s, v)}
        /\ req'[t].pc = "destroy" /\ req'[t].posts = PostsOf(u) /\ req'[t].users = {u}
        /\ req'[t].rows = CommentsWith(u) /\ req'[t].notes = NoticesWith(u)
        /\ \A s \in Thread : s # t => req'[s] = req[s]
    BY <1>11 DEF DestroyAccount, LeakInv, TypeOK
  <2>2. \A q \in PostsOf(u) : /\ \A c \in comments : c.post = q => c \in CommentsWith(u)
                              /\ \A n \in notifications : n.post = q => n \in NoticesWith(u)
    BY DEF CommentsWith, NoticesWith
  <2>3. /\ \A c \in comments : c.user = u => c \in CommentsWith(u)
        /\ \A n \in notifications : n.visitor = u => n \in NoticesWith(u)
    BY DEF CommentsWith, NoticesWith
  <2>4. QED
    BY <2>1, <2>2, <2>3, DestroyingStep
<1>12. ASSUME NEW t \in Thread, Abort(t) PROVE OnlyRacesLeak' /\ RacesAreNoticed'
  <2>1. /\ UNCHANGED <<users, posts, comments, notifications, contended>>
        /\ req'[t].pc = "idle"
        /\ \A s \in Thread : s # t => req'[s] = req[s]
    BY <1>12 DEF Abort, LeakInv, TypeOK, Idle
  <2>2. /\ \A q \in Post : ~Deleting(t, q)' /\ ~Commenting(t, q)'
        /\ \A v \in User : ~Closing(t, v)' /\ ~Speaking(t, v)'
    BY <2>1 DEF Commenting, Speaking, Deleting, Closing
  <2>3. QED
    BY <1>1, <2>1, <2>2, SpeakingStep
<1>13. CASE UNCHANGED vars
  BY <1>13 DEF vars, LeakInv, OnlyRacesLeak, RacesAreNoticed, PostRace, AccountRace,
       Commenting, Deleting, Speaking, Closing
<1>14. QED
  BY <1>3, <1>4, <1>5, <1>6, <1>7, <1>8, <1>9, <1>10, <1>11, <1>12, <1>13, LeakCommitStep
     DEF Next, Continue

\* The dependent: :destroy of post.rb:6, :10 and user.rb:8-12 holds its promise in any
\* number of threads: only a destroy that meets a comment on its way leaves rows of the
\* post or of the account.
THEOREM RacesAloneLeak == Spec => []OnlyRacesLeak
<1>1. Init => LeakInv
  BY PostCommentsAssumption
     DEF Init, LeakInv, TypeOK, OnlyRacesLeak, RacesAreNoticed, PostRace, AccountRace,
         Commenting, Deleting, Speaking, Closing, Idle
<1>2. LeakInv /\ [Next]_vars => LeakInv'
  BY LeakInductive
<1>3. LeakInv => OnlyRacesLeak
  BY DEF LeakInv
<1>4. QED
  BY <1>1, <1>2, <1>3, PTL DEF Spec

-----------------------------------------------------------------------------
\* The destroy of a post, a software or an account has the application to itself.
CascadesAlone ==
  \A s, t \in Thread :
    req[s].pc = "destroy" /\ (req[s].posts # {} \/ req[s].users # {}) /\ req[t] # Idle => s = t

\* What dependent: :destroy promises, with nothing excepted.
NothingLeft ==
  /\ \A n \in notifications : n.post \in posts /\ n.visitor \in users
  /\ \A c \in comments : c.post \in posts /\ c.user \in users

LEMMA NothingContends ==
  ASSUME TypeOK, contended = {}, [Next]_vars, CascadesAlone, CascadesAlone'
  PROVE  contended' = {}
<1>1. ASSUME NEW t \in Thread, NEW u \in User, NEW p \in Post,
             NEW pc \in {"insert", "insert_silent"}, Create(t, u, p, pc)
      PROVE  contended' = {}
  <2>1. /\ req[t] = Idle /\ req'[t].pc = pc /\ \A s \in Thread : s # t => req'[s] = req[s]
        /\ contended' = contended \cup {q \in {p} : \E s \in Thread : Deleting(s, q)}
                                  \cup {v \in {u} : \E s \in Thread : Closing(s, v)}
    BY <1>1 DEF Create, TypeOK
  <2>2. ASSUME NEW s \in Thread PROVE ~Deleting(s, p) /\ ~Closing(s, u)
    <3>1. req'[t] # Idle
      BY <2>1 DEF Idle
    <3>2. CASE s = t
      BY <2>1, <3>2 DEF Deleting, Closing, Idle
    <3>3. CASE s # t
      BY <2>1, <3>1, <3>3 DEF Deleting, Closing, CascadesAlone
    <3>4. QED
      BY <3>2, <3>3
  <2>3. QED
    BY <2>1, <2>2
<1>2. ASSUME NEW t \in Thread, NEW ps \in SUBSET posts, DestroyPosts(t, ps)
      PROVE  contended' = {}
  <2>1. /\ req[t] = Idle /\ req'[t].pc = "destroy" /\ req'[t].posts = ps /\ ps # {}
        /\ \A s \in Thread : s # t => req'[s] = req[s]
        /\ contended' = contended \cup {p \in ps : \E s \in Thread : Commenting(s, p)}
    BY <1>2 DEF DestroyPosts, TypeOK
  <2>2. ASSUME NEW p \in ps, NEW s \in Thread PROVE ~Commenting(s, p)
    BY <2>1 DEF Commenting, Idle, CascadesAlone
  <2>3. QED
    BY <2>1, <2>2
<1>3. ASSUME NEW t \in Thread, NEW u \in User, DestroyAccount(t, u) PROVE contended' = {}
  <2>1. /\ req[t] = Idle /\ req'[t].pc = "destroy" /\ req'[t].users = {u}
        /\ \A s \in Thread : s # t => req'[s] = req[s]
        /\ contended' = contended
             \cup {p \in PostsOf(u) : \E s \in Thread : Commenting(s, p)}
             \cup {v \in {u} : \E s \in Thread : Speaking(s, v)}
    BY <1>3 DEF DestroyAccount, TypeOK
  <2>2. ASSUME NEW s \in Thread, NEW p PROVE ~Commenting(s, p) /\ ~Speaking(s, u)
    BY <2>1 DEF Commenting, Speaking, Idle, CascadesAlone
  <2>3. QED
    BY <2>1, <2>2
<1>4. QED
  BY <1>1, <1>2, <1>3 DEF Next, vars, Continue, Insert, InsertSilent, SelectCommenters,
     NotifyCommenter, NotifyOwner, CommitDestroy, Abort, DestroyComment

\* If whoever destroys a post, a software or an account were alone with the database,
\* nothing would be left behind and every inbox would render, however many comments are
\* announced at once and wherever requests are cut short: the race of dependent: :destroy
\* (post.rb:6, :10, user.rb:8-12) with a comment is the only way to break an inbox.
THEOREM AloneNothingLeaks == Spec /\ []CascadesAlone => [](NothingLeft /\ InboxRenders)
<1> DEFINE Inv == TypeOK /\ contended = {}
<1>1. Init => Inv
  BY PostCommentsAssumption DEF Init, TypeOK, Idle
<1>2. Inv /\ CascadesAlone /\ CascadesAlone' /\ [Next]_vars => Inv'
  BY TypeInvariant, NothingContends
<1>3. OnlyRacesLeak /\ Inv => NothingLeft /\ InboxRenders
  BY DEF OnlyRacesLeak, NothingLeft, InboxRenders
<1> HIDE DEF Inv
<1>4. QED
  BY <1>1, <1>2, <1>3, RacesAloneLeak, PTL DEF Spec

-----------------------------------------------------------------------------
\* The comments under way are among those that were written, and none of them was cut short.
IdsInOrder ==
  /\ silent \subseteq 1..lastId
  /\ \A t \in Thread : Announcing(t) => req[t].row.id \in (1..lastId) \ silent

LEMMA IdsStayInOrder ==
  ASSUME IInv, IInv', IdsInOrder, [Next]_vars
  PROVE  IdsInOrder'
<1>1. ASSUME NEW t \in Thread,
             UNCHANGED <<lastId, silent>>,
             \A s \in Thread : s # t => req'[s] = req[s],
             Announcing(t)' => Announcing(t) /\ req'[t].row.id = req[t].row.id
      PROVE  IdsInOrder'
  BY <1>1 DEF IdsInOrder, Announcing
<1>2. ASSUME NEW t \in Thread, NEW u \in User, NEW p \in Post,
             NEW pc \in {"insert", "insert_silent"}, Create(t, u, p, pc)
      PROVE  IdsInOrder'
  BY <1>1, <1>2 DEF Create, Announcing, IInv, TypeOK
<1>3. ASSUME NEW t \in Thread, Insert(t) PROVE IdsInOrder'
  <2>1. /\ lastId' = lastId + 1 /\ lastId \in Nat /\ silent' = silent
        /\ req'[t].row.id = lastId + 1
        /\ \A s \in Thread : s # t => req'[s] = req[s]
    BY <1>3, RequestKinds DEF Insert, IInv, TypeOK, Comment
  <2>2. lastId + 1 \in (1..lastId') \ silent'
    BY <2>1 DEF IdsInOrder
  <2>3. \A i \in 1..lastId : i \in 1..lastId'
    BY <2>1
  <2>4. silent' \subseteq 1..lastId'
    BY <2>1, <2>3 DEF IdsInOrder
  <2>5. \A s \in Thread : Announcing(s)' => req'[s].row.id \in (1..lastId') \ silent'
    BY <2>1, <2>2, <2>3 DEF IdsInOrder, Announcing
  <2>6. QED
    BY <2>4, <2>5 DEF IdsInOrder
<1>4. ASSUME NEW t \in Thread, InsertSilent(t) PROVE IdsInOrder'
  <2>1. /\ lastId' = lastId + 1 /\ lastId \in Nat /\ silent' = silent \cup {lastId + 1}
        /\ req'[t] = Idle
        /\ \A s \in Thread : s # t => req'[s] = req[s]
    BY <1>4 DEF InsertSilent, IInv, TypeOK
  <2>2. QED
    BY <2>1 DEF IdsInOrder, Announcing, Idle
<1>5. ASSUME NEW t \in Thread, SelectCommenters(t) PROVE IdsInOrder'
  BY <1>1, <1>5 DEF SelectCommenters, Announcing, IInv, TypeOK
<1>6. ASSUME NEW t \in Thread, NotifyCommenter(t) PROVE IdsInOrder'
  BY <1>1, <1>6 DEF NotifyCommenter, Announcing, IInv, TypeOK
<1>7. ASSUME NEW t \in Thread, NotifyOwner(t) PROVE IdsInOrder'
  BY <1>1, <1>7 DEF NotifyOwner, Announcing, Idle, IInv, TypeOK
<1>8. ASSUME NEW t \in Thread, NEW c \in comments, DestroyComment(t, c) PROVE IdsInOrder'
  BY <1>1, <1>8 DEF DestroyComment, Announcing, IInv, TypeOK
<1>9. ASSUME NEW t \in Thread, NEW ps \in SUBSET posts, DestroyPosts(t, ps) PROVE IdsInOrder'
  BY <1>1, <1>9 DEF DestroyPosts, Announcing, IInv, TypeOK
<1>10. ASSUME NEW t \in Thread, NEW u \in User, DestroyAccount(t, u) PROVE IdsInOrder'
  BY <1>1, <1>10 DEF DestroyAccount, Announcing, IInv, TypeOK
<1>11. ASSUME NEW t \in Thread, CommitDestroy(t) PROVE IdsInOrder'
  BY <1>1, <1>11 DEF CommitDestroy, Announcing, Idle, IInv, TypeOK
<1>12. ASSUME NEW t \in Thread, Abort(t) PROVE IdsInOrder'
  <2>1. /\ lastId' = lastId /\ req'[t] = Idle
        /\ \A s \in Thread : s # t => req'[s] = req[s]
        /\ silent' = IF Announcing(t) THEN silent \cup {req[t].row.id} ELSE silent
    BY <1>12 DEF Abort, Announcing, IInv, TypeOK
  <2>2. \A s \in Thread : Announcing(s)' =>
          s # t /\ Announcing(s) /\ req'[s] = req[s]
    BY <2>1 DEF Announcing, Idle
  <2>3. \A s \in Thread : s # t /\ Announcing(s) /\ Announcing(t) => req[s].row.id # req[t].row.id
    BY DEF IInv, IdsAreUnique
  <2>4. silent' \subseteq 1..lastId'
    BY <2>1 DEF IdsInOrder
  <2>5. \A s \in Thread : Announcing(s)' => req'[s].row.id \in (1..lastId') \ silent'
    BY <2>1, <2>2, <2>3 DEF IdsInOrder
  <2>6. QED
    BY <2>4, <2>5 DEF IdsInOrder
<1>13. CASE UNCHANGED vars
  BY <1>13 DEF vars, IdsInOrder, Announcing
<1>14. QED
  BY <1>2, <1>3, <1>4, <1>5, <1>6, <1>7, <1>8, <1>9, <1>10, <1>11, <1>12, <1>13
     DEF Next, Continue

\* What a step of t does to the set of announcements under way.
LEMMA OpenIdsAfter ==
  ASSUME NEW t \in Thread, \A s \in Thread : s # t => req'[s] = req[s]
  PROVE  /\ (Announcing(t) <=> Announcing(t)') /\ (Announcing(t) => req'[t].row.id = req[t].row.id)
              => OpenIds' = OpenIds
         /\ ~Announcing(t) /\ Announcing(t)' => OpenIds' = OpenIds \cup {req'[t].row.id}
         /\ IInv /\ Announcing(t) /\ ~Announcing(t)' => OpenIds' = OpenIds \ {req[t].row.id}
<1>1. \A s \in Thread : s # t => (Announcing(s)' <=> Announcing(s))
  BY DEF Announcing
<1>2. OpenIds = {req[s].row.id : s \in {r \in Thread : Announcing(r)}}
  BY DEF OpenIds
<1>3. OpenIds' = {req'[s].row.id : s \in {r \in Thread : Announcing(r)'}}
  BY DEF OpenIds
<1>4. ASSUME (Announcing(t) <=> Announcing(t)'), Announcing(t) => req'[t].row.id = req[t].row.id
      PROVE  OpenIds' = OpenIds
  BY <1>1, <1>2, <1>3, <1>4
<1>5. ASSUME ~Announcing(t), Announcing(t)' PROVE OpenIds' = OpenIds \cup {req'[t].row.id}
  BY <1>1, <1>2, <1>3, <1>5
<1>6. ASSUME IInv, Announcing(t), ~Announcing(t)' PROVE OpenIds' = OpenIds \ {req[t].row.id}
  <2>1. \A s \in Thread : s # t /\ Announcing(s) => req[s].row.id # req[t].row.id
    BY <1>6 DEF IInv, IdsAreUnique
  <2>2. QED
    BY <1>1, <1>2, <1>3, <1>6, <2>1
<1>7. QED
  BY <1>4, <1>5, <1>6

\* A step that leaves every announcement and every table it is about as it was.
LEMMA Unseen ==
  ASSUME UNCHANGED <<users, comments, notifications, lastId, silent>>, OpenIds' = OpenIds
  PROVE  UNCHANGED Told!vars
BY DEF Told!vars, StandingComments, Receipts, Promised

LEMMA WriteStep ==
  ASSUME TypeOK, IdsInOrder, NEW row \in Comment, row.id = lastId + 1,
         comments' = comments \cup {row}, lastId' = lastId + 1,
         UNCHANGED <<users, notifications>>,
         \/ OpenIds' = OpenIds \cup {row.id} /\ silent' = silent
         \/ OpenIds' = OpenIds /\ silent' = silent \cup {row.id}
  PROVE  Told!Next
<1>1. lastId \in Nat /\ row.user \in User /\ row.post \in Post /\ row.id = lastId'
  BY DEF TypeOK, Comment
<1>2. StandingComments' = StandingComments
                            \cup {[id |-> row.id, user |-> row.user, place |-> row.post]}
  BY DEF StandingComments
<1>3. Receipts' = Receipts
  BY DEF Receipts
<1>4. Promised' = Promised
  <2>1. \A i \in Nat : i \in 1..lastId' <=> i \in 1..lastId \/ i = lastId + 1
    BY <1>1
  <2>2. \A i \in silent : i \in Nat
    BY DEF TypeOK
  <2>3. QED
    BY <1>1, <2>1, <2>2 DEF Promised
<1>5. Told!Write(row.user, row.post)
  BY <1>1, <1>2, <1>3, <1>4 DEF Told!Write
<1>6. QED
  BY <1>1, <1>5 DEF Told!Next

\* Saving the notification n for the row of t tells its receiver.
LEMMA TellStep ==
  ASSUME IInv, NEW t \in Thread, req[t].pc = "notify", NEW n \in Notification,
         NEW via \in {"commenter", "owner"}, NEW u \in User,
         n.post_comment = req[t].row.id, n.visited = u, n.via = via,
         \A m \in notifications : m.post_comment = req[t].row.id => m.visited # u,
         notifications' = notifications \cup {n},
         UNCHANGED <<users, comments, lastId, silent>>
  PROVE  Told!Tell(req[t].row.id, u, via)
<1>1. req[t].row.id \in OpenIds
  BY DEF OpenIds, Announcing
<1>2. Receipts' = Receipts \cup {[about |-> req[t].row.id, to |-> u, via |-> via]}
  BY DEF Receipts
<1>3. ~Told!Told(u, req[t].row.id)
  BY DEF Told!Told, Receipts
<1>4. StandingComments' = StandingComments
  BY DEF StandingComments
<1>5. QED
  BY <1>1, <1>2, <1>3, <1>4 DEF Told!Tell

\* A claim on a comment is what Announcements calls due.
LEMMA DueIsClaim ==
  ASSUME NEW c \in comments, NEW u \in User
  PROVE  LET d == [id |-> c.id, user |-> c.user, place |-> c.post]
         IN  Told!Due(u, d) => u \in users /\ HasClaim(u, c)
BY DEF Told!Due, HasClaim, StandingComments

LEMMA TellOneStep ==
  ASSUME IInv, IInv', NEW t \in Thread, NotifyCommenter(t)
  PROVE  Told!Next
<1>1. req[t].pc = "notify" /\ req[t].row \in Comment /\ req[t].todo \subseteq User
  BY RequestKinds DEF NotifyCommenter, IInv
<1>2. PICK u \in req[t].todo :
        notifications' = notifications \cup {NewNotification(req[t].row, u, "commenter")}
  BY DEF NotifyCommenter
<1> DEFINE n == NewNotification(req[t].row, u, "commenter")
<1>3. /\ n \in Notification
      /\ n.post_comment = req[t].row.id /\ n.visited = u /\ n.via = "commenter"
  BY <1>1, NewNotificationFields
<1>4. notifications' = notifications \cup {n}
  BY <1>2
<1> HIDE DEF n
<1>5. /\ req'[t].pc = "notify" /\ req'[t].row = req[t].row
      /\ \A s \in Thread : s # t => req'[s] = req[s]
      /\ UNCHANGED <<users, comments, lastId, silent>>
  BY DEF NotifyCommenter, IInv, TypeOK
<1>6. \A m \in notifications : m.post_comment = req[t].row.id => m.visited # u
  BY <1>1 DEF IInv, StillToNotify
<1>7. Told!Tell(req[t].row.id, u, "commenter")
  BY <1>1, <1>3, <1>4, <1>5, <1>6, TellStep
<1>8. OpenIds' = OpenIds
  BY <1>1, <1>5, OpenIdsAfter DEF Announcing
<1>9. Promised' = Promised
  BY <1>5, <1>8 DEF Promised
<1>10. Told!TellOne(req[t].row.id, u, "commenter") /\ req[t].row.id \in OpenIds
  BY <1>1, <1>7, <1>8, <1>9 DEF Told!TellOne, OpenIds, Announcing
<1>11. QED
  BY <1>1, <1>10 DEF Told!Next

LEMMA TellLastStep ==
  ASSUME IInv, IInv', IdsInOrder, NEW t \in Thread, NotifyOwner(t)
  PROVE  Told!Next
<1>1. req[t].pc = "notify" /\ req[t].row \in Comment
  BY RequestKinds DEF NotifyOwner, IInv
<1>1a. PICK id \in Nat : id = req[t].row.id
  BY <1>1 DEF Comment
<1>1b. PICK u \in User : u = Owner[req[t].row.post]
  BY <1>1, PostCommentsAssumption DEF Comment
<1> DEFINE n == NewNotification(req[t].row, u, "owner")
<1>2. /\ n \in Notification
      /\ n.post_comment = id /\ n.visited = u /\ n.via = "owner"
  BY <1>1, <1>1a, NewNotificationFields
<1>3. notifications' = notifications \cup {n}
  BY <1>1b DEF NotifyOwner
<1> HIDE DEF n
<1>4. /\ req'[t] = Idle
      /\ \A s \in Thread : s # t => req'[s] = req[s]
      /\ UNCHANGED <<users, comments, lastId, silent>>
  BY DEF NotifyOwner, IInv, TypeOK
<1>5. \A m \in notifications : m.post_comment = id => m.visited # u
  BY <1>1, <1>1a, <1>1b DEF IInv, StillToNotify
<1>6. Told!Tell(id, u, "owner")
  BY <1>1, <1>2, <1>3, <1>4, <1>5, <1>1a, TellStep
<1>7. OpenIds' = OpenIds \ {id}
  BY <1>1, <1>4, <1>1a, OpenIdsAfter DEF Announcing, Idle
<1>8. id \in (1..lastId) \ silent
  BY <1>1, <1>1a DEF IdsInOrder, Announcing
<1>9. Promised' = Promised \cup {id}
  BY <1>4, <1>7, <1>8 DEF Promised
<1>10. ASSUME NEW c \in comments', c.id = id
       PROVE  FannedOut(c)'
  <2>1. \A s \in Thread : Announcing(s)' => s # t /\ Announcing(s) /\ req'[s] = req[s]
    BY <1>4 DEF Announcing, Idle
  <2>2. \A s \in Thread : s # t /\ Announcing(s) => req[s].row.id # id
    BY <1>1, <1>1a DEF IInv, IdsAreUnique, Announcing
  <2>3. QED
    BY <1>4, <1>8, <1>10, <2>1, <2>2 DEF FannedOut, Announcing
<1>11. Told!AllTold(id)'
  <2> SUFFICES ASSUME NEW d \in StandingComments', d.id = id, NEW v \in User, Told!Due(v, d)'
               PROVE  Told!Told(v, id)'
    BY DEF Told!AllTold
  <2>1. PICK c \in comments' : d = [id |-> c.id, user |-> c.user, place |-> c.post]
    BY DEF StandingComments
  <2>2. v \in users' /\ HasClaim(v, c)'
    BY <2>1 DEF Told!Due, HasClaim, StandingComments
  <2>3. Received(v, c)'
    BY <1>10, <2>1, <2>2 DEF IInv, FanOutReachesAll
  <2>4. PICK m \in notifications' : m.post_comment = id /\ m.visited = v
    BY <2>1, <2>3 DEF Received
  <2>5. [about |-> m.post_comment, to |-> m.visited, via |-> m.via] \in Receipts'
    BY DEF Receipts
  <2>6. QED
    BY <2>4, <2>5 DEF Told!Told
<1>12. Told!TellLast(id, u, "owner")
  BY <1>6, <1>7, <1>9, <1>11 DEF Told!TellLast
<1>13. id \in OpenIds
  BY <1>1, <1>1a DEF OpenIds, Announcing
<1>14. QED
  BY <1>1, <1>12, <1>13 DEF Told!Next

\* A destroy takes no notification away while its receiver has a claim to it.
LEMMA WithdrawStep ==
  ASSUME IInv, NEW t \in Thread, CommitDestroy(t)
  PROVE  Told!Next
<1>1. /\ req[t].pc = "destroy" /\ req'[t] = Idle
      /\ users' = users \ req[t].users
      /\ comments' = comments \ req[t].rows
      /\ notifications' = notifications \ req[t].notes
      /\ \A s \in Thread : s # t => req'[s] = req[s]
      /\ UNCHANGED <<lastId, silent>>
  BY DEF CommitDestroy, IInv, TypeOK
<1>2. OpenIds' = OpenIds
  BY <1>1, OpenIdsAfter DEF Announcing, Idle
<1>3. Promised' = Promised
  BY <1>1, <1>2 DEF Promised
<1>4. /\ users' \in SUBSET users
      /\ StandingComments' \in SUBSET StandingComments
      /\ Receipts' \in SUBSET Receipts
  BY <1>1 DEF StandingComments, Receipts
<1>5. ASSUME NEW r \in Receipts \ Receipts', NEW d \in StandingComments', d.id = r.about
      PROVE  ~Told!Due(r.to, d)'
  <2>1. PICK n \in notifications : r = [about |-> n.post_comment, to |-> n.visited, via |-> n.via]
    BY DEF Receipts
  <2>2. PICK c \in comments' : d = [id |-> c.id, user |-> c.user, place |-> c.post]
    BY DEF StandingComments
  <2>3. n \in req[t].notes
    BY <1>1, <1>5, <2>1 DEF Receipts
  <2>4. n.visited \in req[t].users \/ c \in req[t].rows
    BY <1>1, <1>5, <2>1, <2>2, <2>3 DEF IInv, DestroysWholeComments
  <2>5. r.to \notin users'
    BY <1>1, <2>1, <2>2, <2>4
  <2>6. QED
    BY <2>5 DEF Told!Due
<1>6. Told!Withdraw
  BY <1>1, <1>2, <1>3, <1>4, <1>5 DEF Told!Withdraw
<1>7. QED
  BY <1>6 DEF Told!Next

LEMMA CutShortStep ==
  ASSUME IInv, NEW t \in Thread, Abort(t)
  PROVE  [Told!Next]_Told!vars
<1>1. /\ req'[t] = Idle
      /\ \A s \in Thread : s # t => req'[s] = req[s]
      /\ silent' = IF Announcing(t) THEN silent \cup {req[t].row.id} ELSE silent
      /\ UNCHANGED <<users, comments, notifications, lastId>>
  BY DEF Abort, Announcing, IInv, TypeOK
<1>2. CASE Announcing(t)
  <2>1. PICK id : id = req[t].row.id
    OBVIOUS
  <2>2. OpenIds' = OpenIds \ {id} /\ id \in OpenIds
    BY <1>1, <1>2, <2>1, OpenIdsAfter DEF Announcing, Idle, OpenIds
  <2>3. Promised' = Promised
    BY <1>1, <1>2, <2>1, <2>2 DEF Promised
  <2>4. Told!CutShort(id)
    BY <1>1, <2>2, <2>3 DEF Told!CutShort, StandingComments, Receipts
  <2>5. QED
    BY <2>2, <2>4 DEF Told!Next
<1>3. CASE ~Announcing(t)
  <2>1. OpenIds' = OpenIds
    BY <1>1, <1>3, OpenIdsAfter DEF Announcing, Idle
  <2>2. QED
    BY <1>1, <1>3, <2>1, Unseen
<1>4. QED
  BY <1>2, <1>3

LEMMA StepsAreAnnounced ==
  ASSUME IInv, IInv', IdsInOrder, [Next]_vars
  PROVE  [Told!Next]_Told!vars
<1>1. ASSUME NEW t \in Thread, ~Announcing(t), ~Announcing(t)',
             \A s \in Thread : s # t => req'[s] = req[s],
             UNCHANGED <<users, comments, notifications, lastId, silent>>
      PROVE  UNCHANGED Told!vars
  BY <1>1, OpenIdsAfter, Unseen
<1>2. ASSUME NEW t \in Thread, NEW u \in User, NEW p \in Post,
             NEW pc \in {"insert", "insert_silent"}, Create(t, u, p, pc)
      PROVE  UNCHANGED Told!vars
  BY <1>1, <1>2 DEF Create, Announcing, Idle, IInv, TypeOK
<1>3. ASSUME NEW t \in Thread, Insert(t) PROVE Told!Next
  <2> DEFINE row == [req[t].row EXCEPT !.id = lastId + 1]
  <2>1. row \in Comment /\ row.id = lastId + 1
    BY <1>3, RequestKinds DEF Insert, IInv, TypeOK, Comment
  <2>2. /\ ~Announcing(t) /\ Announcing(t)' /\ req'[t].row = row
        /\ \A s \in Thread : s # t => req'[s] = req[s]
        /\ comments' = comments \cup {row} /\ lastId' = lastId + 1
        /\ UNCHANGED <<users, notifications, silent>>
    BY <1>3 DEF Insert, Announcing, IInv, TypeOK
  <2> HIDE DEF row
  <2>3. OpenIds' = OpenIds \cup {row.id}
    BY <2>2, OpenIdsAfter
  <2>4. QED
    BY <2>1, <2>2, <2>3, WriteStep DEF IInv
<1>4. ASSUME NEW t \in Thread, InsertSilent(t) PROVE Told!Next
  <2> DEFINE row == [req[t].row EXCEPT !.id = lastId + 1]
  <2>1. row \in Comment /\ row.id = lastId + 1
    BY <1>4, RequestKinds DEF InsertSilent, IInv, TypeOK, Comment
  <2>2. /\ ~Announcing(t) /\ ~Announcing(t)'
        /\ \A s \in Thread : s # t => req'[s] = req[s]
        /\ comments' = comments \cup {row} /\ lastId' = lastId + 1
        /\ silent' = silent \cup {row.id}
        /\ UNCHANGED <<users, notifications>>
    BY <1>4, <2>1 DEF InsertSilent, Announcing, Idle, IInv, TypeOK
  <2> HIDE DEF row
  <2>3. OpenIds' = OpenIds
    BY <2>2, OpenIdsAfter
  <2>4. QED
    BY <2>1, <2>2, <2>3, WriteStep DEF IInv
<1>5. ASSUME NEW t \in Thread, SelectCommenters(t) PROVE UNCHANGED Told!vars
  <2>1. /\ Announcing(t) /\ Announcing(t)' /\ req'[t].row = req[t].row
        /\ \A s \in Thread : s # t => req'[s] = req[s]
        /\ UNCHANGED <<users, comments, notifications, lastId, silent>>
    BY <1>5 DEF SelectCommenters, Announcing, IInv, TypeOK
  <2>2. QED
    BY <2>1, OpenIdsAfter, Unseen
<1>6. ASSUME NEW t \in Thread, NEW c \in comments, DestroyComment(t, c)
      PROVE  UNCHANGED Told!vars
  BY <1>1, <1>6 DEF DestroyComment, Announcing, Idle, IInv, TypeOK
<1>7. ASSUME NEW t \in Thread, NEW ps \in SUBSET posts, DestroyPosts(t, ps)
      PROVE  UNCHANGED Told!vars
  BY <1>1, <1>7 DEF DestroyPosts, Announcing, Idle, IInv, TypeOK
<1>8. ASSUME NEW t \in Thread, NEW u \in User, DestroyAccount(t, u)
      PROVE  UNCHANGED Told!vars
  BY <1>1, <1>8 DEF DestroyAccount, Announcing, Idle, IInv, TypeOK
<1>9. CASE UNCHANGED vars
  <2>1. OpenIds' = OpenIds
    BY <1>9 DEF vars, OpenIds, Announcing
  <2>2. QED
    BY <1>9, <2>1, Unseen DEF vars
<1>10. QED
  BY <1>2, <1>3, <1>4, <1>5, <1>6, <1>7, <1>8, <1>9, TellOneStep, TellLastStep, WithdrawStep,
     CutShortStep DEF Next, Continue

\* Whatever requests interleave, are cut short and destroy, in any number of threads, the
\* fan-out of post.rb:92-117 does what Announcements says and nothing else.
THEOREM CommentsAreAnnounced == Spec => ImplementsAnnouncements
<1>1. Init => IdsInOrder /\ Told!Init
  BY DEF Init, IdsInOrder, Announcing, Idle, Told!Init, StandingComments, Receipts, Promised,
         OpenIds
<1>2. IInv /\ IInv' /\ IdsInOrder /\ [Next]_vars => IdsInOrder' /\ [Told!Next]_Told!vars
  BY IdsStayInOrder, StepsAreAnnounced
<1>3. QED
  BY <1>1, <1>2, Initially, Inductive, PTL DEF Spec, ImplementsAnnouncements, Told!Spec
=============================================================================
