-------------------------- MODULE BoardCommentsProofs --------------------------
(***************************************************************************)
(* Theorems about BoardComments, for any number of users, boards, threads  *)
(* and comments.                                                           *)
(***************************************************************************)
EXTENDS BoardComments, TLAPS

\* Ids are handed out once, so a row's id names the row and its request.
IdsAreUnique ==
  /\ \A c \in comments : c.id <= lastId
  /\ \A n \in notifications : n.board_comment <= lastId
  /\ \A c, d \in comments : c.id = d.id => c = d
  /\ \A n \in notifications, c \in comments : n.board_comment = c.id => n.visitor = c.user
  /\ \A t \in Thread : Announcing(t) =>
       /\ req[t].row.id <= lastId
       /\ \A c \in comments : c.id = req[t].row.id => c = req[t].row
       /\ \A n \in notifications : n.board_comment = req[t].row.id => n.visitor = req[t].row.user
       /\ \A s \in Thread : s # t /\ Announcing(s) => req[s].row.id # req[t].row.id

\* Whom an announcing request has yet to notify, it has not notified.
StillToNotify ==
  \A t \in Thread :
    /\ req[t].pc = "select" =>
         \A n \in notifications : n.board_comment # req[t].row.id
    /\ req[t].pc = "notify" =>
         /\ Owner[req[t].row.board] \notin req[t].todo
         /\ \A n \in notifications : n.board_comment = req[t].row.id =>
              n.visited \notin req[t].todo \cup {Owner[req[t].row.board]}

\* What t deletes: notifications of a comment that it has deleted before, or those of
\* comments and of a receiver that go in the same transaction.
DeletesInOrder(t) ==
  /\ req[t].pc \in {"destroy", "collect", "delete"} =>
       /\ req[t].row.id <= lastId
       /\ \A c \in comments : c.id = req[t].row.id => req[t].pc = "destroy" /\ c = req[t].row
  /\ req[t].pc = "delete" => \A n \in req[t].notes : n.board_comment = req[t].row.id
  /\ req[t].pc = "destroy_account" =>
       \A n \in req[t].notes :
         /\ n.board_comment <= lastId
         /\ \/ n.visited = req[t].user
            \/ \A c \in comments : c.id = n.board_comment => c \in req[t].rows

\* While the loop runs, everyone it owes a notification is served or still to be served.
LoopServesAll ==
  \A t \in Thread : req[t].pc = "notify" /\ req[t].row \in comments =>
    \A u \in users : HasClaim(u, req[t].row) =>
      u \in req[t].todo \cup {Owner[req[t].row.board]} \/ Received(u, req[t].row)

IInv ==
  /\ TypeOK
  /\ IdsAreUnique
  /\ StillToNotify
  /\ OneNotificationPerComment
  /\ \A t \in Thread : DeletesInOrder(t)
  /\ LoopServesAll
  /\ FanOutReachesAll

-----------------------------------------------------------------------------
\* What a request carries is determined by where it stands.
LEMMA RequestKinds ==
  ASSUME TypeOK, NEW t \in Thread
  PROVE  /\ req[t].pc \in {"insert", "select", "notify"} =>
              /\ req[t] \in Creating
              /\ req[t].row \in Comment
              /\ req[t].todo \subseteq User
         /\ req[t].pc \in {"destroy", "collect", "delete"} =>
              /\ req[t] \in Destroying
              /\ req[t].row \in Comment
              /\ req[t].notes \subseteq Notification
         /\ req[t].pc = "destroy_board" =>
              /\ req[t] \in DestroyingBoard
              /\ req[t].board \in Board
              /\ req[t].rows \subseteq Comment
         /\ req[t].pc = "destroy_account" =>
              /\ req[t] \in DestroyingAccount
              /\ req[t].user \in User
              /\ req[t].boards \subseteq Board
              /\ req[t].rows \subseteq Comment
              /\ req[t].notes \subseteq Notification
<1>1. req[t] \in {Idle} \cup Creating \cup Destroying \cup DestroyingBoard \cup DestroyingAccount
  BY DEF TypeOK
<1>2. CASE req[t] = Idle
  BY <1>2 DEF Idle
<1>3. CASE req[t] \in Creating
  BY <1>3 DEF Creating
<1>4. CASE req[t] \in Destroying
  BY <1>4 DEF Destroying
<1>5. CASE req[t] \in DestroyingBoard
  BY <1>5 DEF DestroyingBoard
<1>6. CASE req[t] \in DestroyingAccount
  BY <1>6 DEF DestroyingAccount
<1>7. QED
  BY <1>1, <1>2, <1>3, <1>4, <1>5, <1>6

LEMMA NewNotificationFields ==
  ASSUME NEW row \in Comment, NEW u \in User, NEW via \in {"commenter", "owner"}
  PROVE  /\ NewNotification(row, u, via) \in Notification
         /\ NewNotification(row, u, via).board_comment = row.id
         /\ NewNotification(row, u, via).visitor = row.user
         /\ NewNotification(row, u, via).visited = u
         /\ NewNotification(row, u, via).via = via
BY DEF Notification, NewNotification, Comment

\* What each step makes of the request of its thread.
LEMMA InsertRequest ==
  ASSUME TypeOK, NEW t \in Thread, Insert(t)
  PROVE  /\ req'[t].row \in Comment /\ req'[t].row.id = lastId + 1 /\ lastId \in Nat
         /\ req'[t].row.user = req[t].row.user /\ req'[t].row.board = req[t].row.board
         /\ req'[t] \in Creating
         /\ req'[t].pc = "select" /\ req[t].pc = "insert"
         /\ comments' = comments \cup {req'[t].row}
         /\ lastId' = lastId + 1
         /\ \A s \in Thread : s # t => req'[s] = req[s]
<1>1. req[t] \in Creating /\ req[t].pc = "insert" /\ lastId \in Nat
  BY RequestKinds DEF Insert, TypeOK
<1>2. req'[t] = [req[t] EXCEPT !.pc = "select", !.row.id = lastId + 1]
  BY <1>1 DEF Insert, TypeOK, Creating
<1>3. req'[t].row = [req[t].row EXCEPT !.id = lastId + 1] /\ req'[t].pc = "select"
  BY <1>1, <1>2 DEF Creating
<1>4. req'[t].row \in Comment /\ req'[t].row.id = lastId + 1
      /\ req'[t].row.user = req[t].row.user /\ req'[t].row.board = req[t].row.board
  BY <1>1, <1>3 DEF Creating, Comment
<1>5. req'[t] \in Creating
  BY <1>1, <1>2, <1>3, <1>4 DEF Creating
<1>6. QED
  BY <1>1, <1>3, <1>4, <1>5 DEF Insert, TypeOK

LEMMA SelectRequest ==
  ASSUME TypeOK, NEW t \in Thread, SelectUsers(t)
  PROVE  /\ req[t].pc = "select" /\ req'[t].pc = "notify" /\ req'[t].row = req[t].row
         /\ req'[t].todo = CommentUsers(req[t].row) /\ req[t].row \in Comment
         /\ req'[t] \in Creating
         /\ \A s \in Thread : s # t => req'[s] = req[s]
<1>1. req[t] \in Creating /\ req[t].pc = "select"
  BY RequestKinds DEF SelectUsers
<1>2. req'[t] = [req[t] EXCEPT !.pc = "notify", !.todo = CommentUsers(req[t].row)]
  BY <1>1 DEF SelectUsers, TypeOK, Creating
<1>3. CommentUsers(req[t].row) \subseteq User
  BY DEF CommentUsers, TypeOK
<1>4. QED
  BY <1>1, <1>2, <1>3 DEF SelectUsers, TypeOK, Creating

LEMMA NotifyUserRequest ==
  ASSUME TypeOK, NEW t \in Thread, NotifyUser(t)
  PROVE  /\ req[t].pc = "notify" /\ req[t].row \in Comment /\ req[t].todo \subseteq User
         /\ \E u \in req[t].todo :
              /\ notifications' = notifications \cup {NewNotification(req[t].row, u, "commenter")}
              /\ req'[t].todo = req[t].todo \ {u}
         /\ req'[t].pc = "notify" /\ req'[t].row = req[t].row
         /\ req'[t] \in Creating
         /\ \A s \in Thread : s # t => req'[s] = req[s]
<1>1. req[t] \in Creating /\ req[t].pc = "notify"
  BY RequestKinds DEF NotifyUser
<1>2. PICK u \in req[t].todo :
        /\ notifications' = notifications \cup {NewNotification(req[t].row, u, "commenter")}
        /\ req' = [req EXCEPT ![t].todo = @ \ {u}]
  BY DEF NotifyUser
<1>3. req'[t] = [req[t] EXCEPT !.todo = req[t].todo \ {u}]
  BY <1>2 DEF TypeOK
<1>4. QED
  BY <1>1, <1>2, <1>3 DEF TypeOK, Creating

LEMMA DeleteRequest ==
  ASSUME TypeOK, NEW t \in Thread, DeleteComment(t)
  PROVE  /\ req[t].pc = "destroy" /\ req[t].row \in Comment
         /\ \/ req[t].by = "admin" /\ req'[t] = Idle
            \/ /\ req[t].by = "author" /\ req'[t].pc = "collect" /\ req'[t].row = req[t].row
               /\ req'[t] \in Destroying
         /\ \A s \in Thread : s # t => req'[s] = req[s]
<1>1. req[t] \in Destroying /\ req[t].pc = "destroy"
  BY RequestKinds DEF DeleteComment
<1>2. req'[t] = IF req[t].by = "admin" THEN Idle ELSE [req[t] EXCEPT !.pc = "collect"]
  BY <1>1 DEF DeleteComment, TypeOK
<1>3. QED
  BY <1>1, <1>2 DEF DeleteComment, TypeOK, Destroying

LEMMA CollectRequest ==
  ASSUME TypeOK, NEW t \in Thread, CollectNotices(t)
  PROVE  /\ req[t].pc = "collect" /\ req[t].row \in Comment
         /\ req'[t].pc = "delete" /\ req'[t].row = req[t].row
         /\ req'[t].notes = {n \in notifications : n.board_comment = req[t].row.id}
         /\ req'[t] \in Destroying
         /\ \A s \in Thread : s # t => req'[s] = req[s]
<1> DEFINE ns == {n \in notifications : n.board_comment = req[t].row.id}
<1>1. req[t] \in Destroying /\ req[t].pc = "collect"
  BY RequestKinds DEF CollectNotices
<1>2. req'[t] = [req[t] EXCEPT !.pc = "delete", !.notes = ns]
  BY <1>1 DEF CollectNotices, TypeOK, Destroying
<1>3. ns \subseteq Notification
  BY DEF TypeOK
<1> HIDE DEF ns
<1>4. req'[t] \in Destroying /\ req'[t].pc = "delete" /\ req'[t].row = req[t].row
      /\ req'[t].notes = ns
  BY <1>1, <1>2, <1>3 DEF Destroying
<1>5. QED
  BY <1>1, <1>4 DEF CollectNotices, TypeOK, Destroying, ns

LEMMA DeleteNoticeRequest ==
  ASSUME TypeOK, NEW t \in Thread, DeleteNotice(t)
  PROVE  /\ req[t].pc = "delete" /\ req[t].row \in Comment
         /\ \/ req[t].notes = {} /\ req'[t] = Idle /\ notifications' = notifications
            \/ \E n \in req[t].notes :
                 /\ notifications' = notifications \ {n}
                 /\ req'[t].pc = "delete" /\ req'[t].row = req[t].row
                 /\ req'[t].notes = req[t].notes \ {n}
                 /\ req'[t] \in Destroying
         /\ \A s \in Thread : s # t => req'[s] = req[s]
<1>1. req[t] \in Destroying /\ req[t].pc = "delete"
  BY RequestKinds DEF DeleteNotice
<1>2. CASE req[t].notes = {}
  BY <1>1, <1>2 DEF DeleteNotice, TypeOK, Destroying
<1>3. CASE req[t].notes # {}
  <2>1. PICK n \in req[t].notes :
          notifications' = notifications \ {n} /\ req' = [req EXCEPT ![t].notes = @ \ {n}]
    BY <1>3 DEF DeleteNotice
  <2>2. req'[t] = [req[t] EXCEPT !.notes = req[t].notes \ {n}]
    BY <2>1 DEF TypeOK
  <2>3. QED
    BY <1>1, <2>1, <2>2 DEF TypeOK, Destroying
<1>4. QED
  BY <1>2, <1>3

LEMMA TypeInvariant == TypeOK /\ [Next]_vars => TypeOK'
<1> SUFFICES ASSUME TypeOK, [Next]_vars PROVE TypeOK'
  OBVIOUS
<1> USE BoardCommentsAssumption
<1>1. ASSUME NEW b \in Board, CreateBoard(b) PROVE TypeOK'
  BY <1>1 DEF CreateBoard, TypeOK
<1>2. ASSUME NEW t \in Thread, NEW u \in User, NEW b \in Board, Create(t, u, b) PROVE TypeOK'
  <2>1. [pc |-> "insert", todo |-> {}, row |-> [id |-> 0, user |-> u, board |-> b]] \in Creating
    BY DEF Creating, Comment
  <2>2. QED
    BY <1>2, <2>1 DEF Create, TypeOK
<1>3. ASSUME NEW t \in Thread, Insert(t) PROVE TypeOK'
  <2>1. req'[t] \in Creating /\ req'[t].row \in Comment /\ comments' = comments \cup {req'[t].row}
        /\ lastId' = lastId + 1
    BY <1>3, InsertRequest
  <2>2. QED
    BY <1>3, <2>1 DEF Insert, TypeOK
<1>4. ASSUME NEW t \in Thread, SelectUsers(t) PROVE TypeOK'
  BY <1>4, SelectRequest DEF SelectUsers, TypeOK
<1>5. ASSUME NEW t \in Thread, NotifyUser(t) PROVE TypeOK'
  <2>1. PICK u \in User :
          notifications' = notifications \cup {NewNotification(req[t].row, u, "commenter")}
    BY <1>5, NotifyUserRequest
  <2>2. notifications' \subseteq Notification
    BY <1>5, <2>1, NotifyUserRequest, NewNotificationFields DEF TypeOK
  <2>3. QED
    BY <1>5, <2>2, NotifyUserRequest DEF NotifyUser, TypeOK
<1>6. ASSUME NEW t \in Thread, NotifyOwner(t) PROVE TypeOK'
  <2>1. req[t].row \in Comment
    BY <1>6, RequestKinds DEF NotifyOwner
  <2>2. Owner[req[t].row.board] \in User
    BY <2>1 DEF Comment
  <2>3. notifications' \subseteq Notification
    BY <1>6, <2>1, <2>2, NewNotificationFields DEF NotifyOwner, TypeOK
  <2>4. QED
    BY <1>6, <2>3 DEF NotifyOwner, TypeOK
<1>7. ASSUME NEW t \in Thread, NEW c \in comments, NEW by \in {"author", "admin"},
             DestroyComment(t, c, by)
      PROVE  TypeOK'
  <2>1. [pc |-> "destroy", by |-> by, row |-> c, notes |-> {}] \in Destroying
    BY DEF Destroying, TypeOK
  <2>2. QED
    BY <1>7, <2>1 DEF DestroyComment, TypeOK
<1>8. ASSUME NEW t \in Thread, DeleteComment(t) PROVE TypeOK'
  <2>1. req[t].row.id \in Nat
    BY <1>8, DeleteRequest DEF Comment
  <2>2. QED
    BY <1>8, <2>1, DeleteRequest DEF DeleteComment, TypeOK
<1>9. ASSUME NEW t \in Thread, CollectNotices(t) PROVE TypeOK'
  BY <1>9, CollectRequest DEF CollectNotices, TypeOK
<1>10. ASSUME NEW t \in Thread, DeleteNotice(t) PROVE TypeOK'
  <2>1. notifications' \subseteq Notification
    BY <1>10, DeleteNoticeRequest DEF TypeOK
  <2>2. req' \in [Thread -> {Idle} \cup Creating \cup Destroying \cup DestroyingBoard
                                   \cup DestroyingAccount]
    BY <1>10, DeleteNoticeRequest DEF DeleteNotice, TypeOK
  <2>3. QED
    BY <1>10, <2>1, <2>2 DEF DeleteNotice, TypeOK
<1>11. ASSUME NEW t \in Thread, NEW b \in Board, DestroyBoard(t, b) PROVE TypeOK'
  <2> DEFINE rows == {c \in comments : c.board = b}
  <2>1. [pc |-> "destroy_board", board |-> b, rows |-> rows] \in DestroyingBoard
    BY DEF DestroyingBoard, TypeOK
  <2>2. QED
    BY <1>11, <2>1 DEF DestroyBoard, TypeOK
<1>12. ASSUME NEW t \in Thread, CommitDestroyBoard(t) PROVE TypeOK'
  <2>1. req[t].rows \subseteq Comment
    BY <1>12, RequestKinds DEF CommitDestroyBoard
  <2>2. {c.id : c \in req[t].rows} \subseteq Nat
    BY <2>1 DEF Comment
  <2>3. QED
    BY <1>12, <2>2 DEF CommitDestroyBoard, TypeOK
<1>13. ASSUME NEW t \in Thread, NEW u \in User, DestroyAccount(t, u) PROVE TypeOK'
  <2> DEFINE bs == {b \in Board : boards[b] = "open" /\ Owner[b] = u}
             rows == {c \in comments : c.user = u \/ c.board \in bs}
             notes == {n \in notifications : u \in {n.visitor, n.visited}}
  <2>1. rows \subseteq Comment /\ notes \subseteq Notification /\ bs \subseteq Board
    BY DEF TypeOK
  <2>2. req' = [req EXCEPT ![t] =
          [pc |-> "destroy_account", user |-> u, boards |-> bs, rows |-> rows, notes |-> notes]]
    BY <1>13 DEF DestroyAccount
  <2> HIDE DEF bs, rows, notes
  <2>3. [pc |-> "destroy_account", user |-> u, boards |-> bs, rows |-> rows, notes |-> notes]
          \in DestroyingAccount
    BY <2>1 DEF DestroyingAccount
  <2>4. QED
    BY <1>13, <2>2, <2>3 DEF DestroyAccount, TypeOK
<1>14. ASSUME NEW t \in Thread, CommitDestroyAccount(t) PROVE TypeOK'
  <2>1. req[t].rows \subseteq Comment
    BY <1>14, RequestKinds DEF CommitDestroyAccount
  <2>2. {c.id : c \in {d \in req[t].rows : d.user # req[t].user}} \subseteq Nat
    BY <2>1 DEF Comment
  <2>3. QED
    BY <1>14, <2>2 DEF CommitDestroyAccount, TypeOK
<1>15. ASSUME NEW t \in Thread, Abort(t) PROVE TypeOK'
  <2>1. req[t].pc \in {"select", "notify", "collect", "delete"} => req[t].row.id \in Nat
    BY RequestKinds DEF Comment
  <2>2. QED
    BY <1>15, <2>1 DEF Abort, TypeOK
<1>16. CASE UNCHANGED vars
  BY <1>16 DEF vars, TypeOK
<1>17. QED
  BY <1>1, <1>2, <1>3, <1>4, <1>5, <1>6, <1>7, <1>8, <1>9, <1>10, <1>11, <1>12, <1>13, <1>14,
     <1>15, <1>16 DEF Next

\* Tables and requests always hold rows of the shape the schema gives them.
THEOREM TypeCorrect == Spec => []TypeOK
<1>1. Init => TypeOK
  BY DEF Init, TypeOK
<1>2. QED
  BY <1>1, TypeInvariant, PTL DEF Spec

-----------------------------------------------------------------------------
\* A step of t that adds no row and ends or begins no announcement but to cut it short, and
\* takes no notification away from a receiver who stays with a comment that stands.
LEMMA ShrinkStep ==
  ASSUME IInv, TypeOK', NEW t \in Thread,
         \A s \in Thread : s # t => req'[s] = req[s],
         users' \subseteq users, comments' \subseteq comments,
         notifications' \subseteq notifications,
         lastId' = lastId, silent \subseteq silent',
         ~Announcing(t)', Announcing(t) => req[t].row.id \in silent',
         DeletesInOrder(t)',
         \A n \in notifications \ notifications', c \in comments' :
           n.board_comment = c.id => n.visited \notin users'
  PROVE  IInv'
<1>1. \A s \in Thread : Announcing(s)' => s # t /\ Announcing(s) /\ req'[s] = req[s]
  BY DEF Announcing
<1>2. \A c \in comments', u \in users' :
        /\ HasClaim(u, c)' => HasClaim(u, c)
        /\ Received(u, c) => Received(u, c)'
  BY DEF HasClaim, Received
<1>3. IdsAreUnique'
  BY <1>1 DEF IInv, IdsAreUnique
<1>4. StillToNotify'
  BY <1>1 DEF IInv, StillToNotify, Announcing
<1>5. OneNotificationPerComment'
  BY DEF IInv, OneNotificationPerComment
<1>6. ASSUME NEW s \in Thread PROVE DeletesInOrder(s)'
  <2>1. CASE s = t
    BY <2>1
  <2>2. CASE s # t
    BY <2>2 DEF IInv, DeletesInOrder
  <2>3. QED
    BY <2>1, <2>2
<1>7. LoopServesAll'
  <2> SUFFICES ASSUME NEW s \in Thread, req'[s].pc = "notify", req'[s].row \in comments',
                      NEW u \in users', HasClaim(u, req[s].row)'
               PROVE  u \in req[s].todo \cup {Owner[req[s].row.board]}
                        \/ Received(u, req[s].row)'
    BY <1>1 DEF LoopServesAll, HasClaim, Received, Announcing
  <2>1. s # t /\ req'[s] = req[s] /\ req[s].row \in comments'
    BY <1>1 DEF Announcing
  <2>2. req[s].row \in comments /\ HasClaim(u, req[s].row) /\ u \in users
    BY <1>2, <2>1
  <2>3. u \in req[s].todo \cup {Owner[req[s].row.board]} \/ Received(u, req[s].row)
    BY <2>1, <2>2 DEF IInv, LoopServesAll
  <2>4. QED
    BY <1>2, <2>1, <2>3
<1>8. FanOutReachesAll'
  <2> SUFFICES ASSUME NEW c \in comments', FannedOut(c)', NEW u \in users', HasClaim(u, c)'
               PROVE  Received(u, c)'
    BY DEF FanOutReachesAll
  <2>1. FannedOut(c)
    BY DEF FannedOut, FanningOut, Announcing
  <2>2. QED
    BY <1>2, <2>1 DEF IInv, FanOutReachesAll
<1>9. QED
  BY <1>3, <1>4, <1>5, <1>6, <1>7, <1>8 DEF IInv

LEMMA CreateStep ==
  ASSUME IInv, TypeOK', NEW t \in Thread, NEW u \in User, NEW b \in Board, Create(t, u, b)
  PROVE  IInv'
<1>1. /\ req[t] = Idle /\ req'[t].pc = "insert"
      /\ \A s \in Thread : s # t => req'[s] = req[s]
  BY DEF Create, IInv, TypeOK
<1>2. ~Announcing(t) /\ ~Announcing(t)' /\ DeletesInOrder(t)'
  BY <1>1 DEF Announcing, Idle, DeletesInOrder
<1>3. QED
  BY <1>1, <1>2, ShrinkStep DEF Create

LEMMA DestroyCommentStep ==
  ASSUME IInv, TypeOK', NEW t \in Thread, NEW c \in comments, NEW by \in {"author", "admin"},
         DestroyComment(t, c, by)
  PROVE  IInv'
<1>1. /\ req[t] = Idle /\ req'[t].pc = "destroy" /\ req'[t].row = c
      /\ \A s \in Thread : s # t => req'[s] = req[s]
      /\ UNCHANGED <<users, comments, notifications, lastId, silent>>
  BY DEF DestroyComment, IInv, TypeOK
<1>2. ~Announcing(t) /\ ~Announcing(t)' /\ DeletesInOrder(t)'
  BY <1>1 DEF Announcing, Idle, DeletesInOrder, IInv, IdsAreUnique
<1>3. QED
  BY <1>1, <1>2, ShrinkStep

LEMMA DeleteCommentStep ==
  ASSUME IInv, TypeOK', NEW t \in Thread, DeleteComment(t)
  PROVE  IInv'
<1>1. /\ req[t].pc = "destroy"
      /\ req'[t] = Idle \/ (req'[t].pc = "collect" /\ req'[t].row = req[t].row)
      /\ \A s \in Thread : s # t => req'[s] = req[s]
      /\ comments' = comments \ {req[t].row}
      /\ UNCHANGED <<users, notifications, lastId, silent>>
  BY DeleteRequest DEF DeleteComment, IInv
<1>2. ~Announcing(t) /\ ~Announcing(t)'
  BY <1>1 DEF Announcing, Idle
<1>3. DeletesInOrder(t)'
  BY <1>1 DEF Idle, DeletesInOrder, IInv
<1>4. QED
  BY <1>1, <1>2, <1>3, ShrinkStep

LEMMA CollectNoticesStep ==
  ASSUME IInv, TypeOK', NEW t \in Thread, CollectNotices(t)
  PROVE  IInv'
<1>1. /\ req[t].pc = "collect" /\ req'[t].pc = "delete" /\ req'[t].row = req[t].row
      /\ req'[t].notes = {n \in notifications : n.board_comment = req[t].row.id}
      /\ \A s \in Thread : s # t => req'[s] = req[s]
      /\ UNCHANGED <<users, comments, notifications, lastId, silent>>
  BY CollectRequest DEF CollectNotices, IInv
<1>2. ~Announcing(t) /\ ~Announcing(t)' /\ DeletesInOrder(t)'
  BY <1>1 DEF Announcing, DeletesInOrder, IInv
<1>3. QED
  BY <1>1, <1>2, ShrinkStep

LEMMA DeleteNoticeStep ==
  ASSUME IInv, TypeOK', NEW t \in Thread, DeleteNotice(t)
  PROVE  IInv'
<1>1. /\ req[t].pc = "delete"
      /\ \A s \in Thread : s # t => req'[s] = req[s]
      /\ UNCHANGED <<users, comments, lastId, silent>>
  BY DeleteNoticeRequest DEF DeleteNotice, IInv
<1>2. \/ req'[t] = Idle /\ notifications' = notifications
      \/ \E n \in req[t].notes :
           /\ notifications' = notifications \ {n}
           /\ req'[t].pc = "delete" /\ req'[t].row = req[t].row
           /\ req'[t].notes = req[t].notes \ {n}
  BY DeleteNoticeRequest DEF IInv
<1>3. /\ \A c \in comments : c.id # req[t].row.id
      /\ \A n \in req[t].notes : n.board_comment = req[t].row.id
  BY <1>1 DEF IInv, DeletesInOrder
<1>4. ~Announcing(t) /\ ~Announcing(t)' /\ DeletesInOrder(t)'
  BY <1>1, <1>2, <1>3 DEF Announcing, DeletesInOrder, IInv, Idle
<1>5. /\ notifications' \subseteq notifications
      /\ \A n \in notifications \ notifications', c \in comments' : n.board_comment # c.id
  BY <1>1, <1>2, <1>3
<1>6. QED
  BY <1>1, <1>4, <1>5, ShrinkStep

LEMMA DestroyBoardStep ==
  ASSUME IInv, TypeOK', NEW t \in Thread, NEW b \in Board, DestroyBoard(t, b)
  PROVE  IInv'
<1>1. /\ req[t] = Idle /\ req'[t].pc = "destroy_board"
      /\ \A s \in Thread : s # t => req'[s] = req[s]
      /\ UNCHANGED <<users, comments, notifications, lastId, silent>>
  BY DEF DestroyBoard, IInv, TypeOK
<1>2. ~Announcing(t) /\ ~Announcing(t)' /\ DeletesInOrder(t)'
  BY <1>1 DEF Announcing, Idle, DeletesInOrder
<1>3. QED
  BY <1>1, <1>2, ShrinkStep

LEMMA CommitDestroyBoardStep ==
  ASSUME IInv, TypeOK', NEW t \in Thread, CommitDestroyBoard(t)
  PROVE  IInv'
<1>1. /\ req[t].pc = "destroy_board" /\ req'[t] = Idle
      /\ \A s \in Thread : s # t => req'[s] = req[s]
      /\ comments' = comments \ req[t].rows
      /\ UNCHANGED <<users, notifications, lastId, silent>>
  BY DEF CommitDestroyBoard, IInv, TypeOK
<1>2. ~Announcing(t) /\ ~Announcing(t)' /\ DeletesInOrder(t)'
  BY <1>1 DEF Announcing, Idle, DeletesInOrder
<1>3. QED
  BY <1>1, <1>2, ShrinkStep

LEMMA DestroyAccountStep ==
  ASSUME IInv, TypeOK', NEW t \in Thread, NEW u \in User, DestroyAccount(t, u)
  PROVE  IInv'
<1>1. /\ req[t] = Idle /\ req'[t].pc = "destroy_account" /\ req'[t].user = u
      /\ \A c \in comments : c.user = u => c \in req'[t].rows
      /\ req'[t].notes = {n \in notifications : u \in {n.visitor, n.visited}}
      /\ \A s \in Thread : s # t => req'[s] = req[s]
      /\ UNCHANGED <<users, comments, notifications, lastId, silent>>
  BY DEF DestroyAccount, IInv, TypeOK
<1>2. ~Announcing(t) /\ ~Announcing(t)'
  BY <1>1 DEF Announcing, Idle
<1>3. DeletesInOrder(t)'
  BY <1>1 DEF DeletesInOrder, IInv, IdsAreUnique
<1>4. QED
  BY <1>1, <1>2, <1>3, ShrinkStep

LEMMA CommitDestroyAccountStep ==
  ASSUME IInv, TypeOK', NEW t \in Thread, CommitDestroyAccount(t)
  PROVE  IInv'
<1>1. /\ req[t].pc = "destroy_account" /\ req'[t] = Idle
      /\ \A s \in Thread : s # t => req'[s] = req[s]
      /\ users' = users \ {req[t].user}
      /\ comments' = comments \ req[t].rows
      /\ notifications' = notifications \ req[t].notes
      /\ UNCHANGED <<lastId, silent>>
  BY DEF CommitDestroyAccount, IInv, TypeOK
<1>2. ~Announcing(t) /\ ~Announcing(t)' /\ DeletesInOrder(t)'
  BY <1>1 DEF Announcing, Idle, DeletesInOrder
<1>3. \A n \in notifications \ notifications', c \in comments' :
        n.board_comment = c.id => n.visited \notin users'
  BY <1>1 DEF IInv, DeletesInOrder
<1>4. QED
  BY <1>1, <1>2, <1>3, ShrinkStep

LEMMA AbortStep ==
  ASSUME IInv, TypeOK', NEW t \in Thread, Abort(t)
  PROVE  IInv'
<1>1. /\ req'[t] = Idle
      /\ \A s \in Thread : s # t => req'[s] = req[s]
      /\ silent \subseteq silent' /\ (Announcing(t) => req[t].row.id \in silent')
      /\ UNCHANGED <<users, comments, notifications, lastId>>
  BY DEF Abort, Announcing, IInv, TypeOK
<1>2. ~Announcing(t)' /\ DeletesInOrder(t)'
  BY <1>1 DEF Announcing, Idle, DeletesInOrder
<1>3. QED
  BY <1>1, <1>2, ShrinkStep

LEMMA InsertStep ==
  ASSUME IInv, TypeOK', NEW t \in Thread, Insert(t)
  PROVE  IInv'
<1>0. PICK row \in Comment : row = req'[t].row
  BY InsertRequest DEF IInv
<1>1. row.id = lastId + 1 /\ lastId \in Nat
  BY <1>0, InsertRequest DEF IInv
<1>2. /\ comments' = comments \cup {row}
      /\ req[t].pc = "insert" /\ req'[t].pc = "select" /\ req'[t].row = row
      /\ \A s \in Thread : s # t => req'[s] = req[s]
      /\ lastId' = lastId + 1
      /\ ~Announcing(t)
      /\ UNCHANGED <<users, notifications, silent>>
  BY <1>0, InsertRequest DEF Insert, IInv, Announcing
<1>3. \A c \in comments : c.id \in Nat /\ c.id < row.id
  BY <1>1 DEF IInv, TypeOK, IdsAreUnique, Comment
<1>4. \A n \in notifications : n.board_comment \in Nat /\ n.board_comment < row.id
  BY <1>1 DEF IInv, TypeOK, IdsAreUnique, Notification
<1>5. \A s \in Thread : Announcing(s) => req[s].row.id \in Nat /\ req[s].row.id < row.id
  BY <1>1, RequestKinds DEF IInv, IdsAreUnique, Announcing, Comment
<1>6. IdsAreUnique'
  <2>1. \A c \in comments' : c.id <= lastId'
    BY <1>1, <1>2, <1>3
  <2>2. \A n \in notifications' : n.board_comment <= lastId'
    BY <1>1, <1>2, <1>4
  <2>3. \A c, d \in comments' : c.id = d.id => c = d
    BY <1>1, <1>2, <1>3 DEF IInv, IdsAreUnique
  <2>4. \A n \in notifications', c \in comments' : n.board_comment = c.id => n.visitor = c.user
    BY <1>1, <1>2, <1>4 DEF IInv, IdsAreUnique
  <2>5. ASSUME NEW s \in Thread, Announcing(s)'
        PROVE  /\ req'[s].row.id <= lastId'
               /\ \A c \in comments' : c.id = req'[s].row.id => c = req'[s].row
               /\ \A n \in notifications' :
                    n.board_comment = req'[s].row.id => n.visitor = req'[s].row.user
               /\ \A r \in Thread :
                    r # s /\ Announcing(r)' => req'[r].row.id # req'[s].row.id
    <3>1. CASE s = t
      BY <3>1, <1>1, <1>2, <1>3, <1>4, <1>5 DEF Announcing
    <3>2. CASE s # t
      BY <3>2, <2>5, <1>1, <1>2, <1>5 DEF Announcing, IInv, IdsAreUnique
    <3>3. QED
      BY <3>1, <3>2
  <2>6. QED
    BY <2>1, <2>2, <2>3, <2>4, <2>5 DEF IdsAreUnique
<1>7. StillToNotify'
  BY <1>1, <1>2, <1>4 DEF IInv, StillToNotify
<1>8. OneNotificationPerComment'
  BY <1>2 DEF IInv, OneNotificationPerComment
<1>9. ASSUME NEW s \in Thread PROVE DeletesInOrder(s)'
  <2>1. CASE s = t
    BY <1>2, <2>1 DEF DeletesInOrder
  <2>2. CASE s # t
    <3>1. req'[s] = req[s]
      BY <1>2, <2>2
    <3>2. req[s].pc \in {"destroy", "collect", "delete"} =>
            req[s].row.id \in Nat /\ req[s].row.id <= lastId
      BY RequestKinds DEF IInv, DeletesInOrder, Comment
    <3>3. req[s].pc = "destroy_account" =>
            \A n \in req[s].notes : n.board_comment \in Nat /\ n.board_comment <= lastId
      BY RequestKinds DEF IInv, DeletesInOrder, Notification
    <3>4. QED
      BY <1>1, <1>2, <3>1, <3>2, <3>3 DEF IInv, DeletesInOrder
  <2>3. QED
    BY <2>1, <2>2
<1>10. LoopServesAll'
  <2> SUFFICES ASSUME NEW s \in Thread, req'[s].pc = "notify", req'[s].row \in comments',
                      NEW u \in users, HasClaim(u, req[s].row)'
               PROVE  (u \in req[s].todo \cup {Owner[req[s].row.board]}
                         \/ Received(u, req[s].row))'
    BY <1>2 DEF LoopServesAll
  <2>1. s # t /\ req'[s] = req[s] /\ Announcing(s)
    BY <1>2 DEF Announcing
  <2>2. req[s].row \in comments /\ HasClaim(u, req[s].row)
    BY <1>1, <1>2, <1>5, <2>1 DEF HasClaim
  <2>3. QED
    BY <1>2, <2>1, <2>2 DEF IInv, LoopServesAll, Received
<1>11. FanOutReachesAll'
  <2> SUFFICES ASSUME NEW c \in comments', FannedOut(c)', NEW u \in users', HasClaim(u, c)'
               PROVE  Received(u, c)'
    BY DEF FanOutReachesAll
  <2>1. c # row
    BY <1>2 DEF FannedOut, FanningOut
  <2>2. c \in comments /\ FannedOut(c)
    BY <1>2, <2>1 DEF FannedOut, FanningOut, Announcing
  <2>3. \A d \in comments' : d.id < c.id => d \in comments
    BY <1>1, <1>2, <1>3, <2>2
  <2>4. HasClaim(u, c)
    BY <2>2, <2>3 DEF HasClaim
  <2>5. QED
    BY <1>2, <2>2, <2>4 DEF IInv, FanOutReachesAll, Received
<1>12. QED
  BY <1>6, <1>7, <1>8, <1>9, <1>10, <1>11 DEF IInv

LEMMA SelectStep ==
  ASSUME IInv, TypeOK', NEW t \in Thread, SelectUsers(t)
  PROVE  IInv'
<1>1. /\ req'[t].pc = "notify"
      /\ req'[t].row = req[t].row
      /\ req'[t].todo = CommentUsers(req[t].row)
      /\ \A s \in Thread : s # t => req'[s] = req[s]
      /\ req[t].pc = "select"
      /\ UNCHANGED <<users, comments, notifications, lastId, silent>>
  BY SelectRequest DEF SelectUsers, IInv
<1>2. \A s \in Thread : Announcing(s)' => Announcing(s) /\ req'[s].row = req[s].row
  BY <1>1 DEF Announcing
<1>3. IdsAreUnique'
  BY <1>1, <1>2 DEF IInv, IdsAreUnique
<1>4. StillToNotify'
  BY <1>1 DEF IInv, StillToNotify, CommentUsers
<1>5. OneNotificationPerComment'
  BY <1>1 DEF IInv, OneNotificationPerComment
<1>6. \A s \in Thread : DeletesInOrder(s)'
  BY <1>1 DEF IInv, DeletesInOrder
<1>7. LoopServesAll'
  BY <1>1 DEF IInv, LoopServesAll, HasClaim, Received, CommentUsers
<1>8. FanOutReachesAll'
  <2>1. \A c \in comments : FannedOut(c)' => FannedOut(c)
    BY <1>1 DEF FannedOut, FanningOut
  <2>2. QED
    BY <1>1, <2>1 DEF IInv, FanOutReachesAll, HasClaim, Received
<1>9. QED
  BY <1>3, <1>4, <1>5, <1>6, <1>7, <1>8 DEF IInv

\* What saving one more notification for the row of t leaves true, whoever gets it.
LEMMA SaveStep ==
  ASSUME IInv, NEW t \in Thread, req[t].pc = "notify",
         NEW u \in req[t].todo \cup {Owner[req[t].row.board]}, NEW n \in Notification,
         n.board_comment = req[t].row.id,
         n.visitor = req[t].row.user, n.visited = u,
         notifications' = notifications \cup {n},
         \A s \in Thread : s # t => req'[s] = req[s],
         Announcing(t)' => req'[t].row = req[t].row,
         req'[t].pc \in {"idle", "notify"},
         UNCHANGED <<users, comments, lastId, silent>>
  PROVE  /\ IdsAreUnique'
         /\ OneNotificationPerComment'
         /\ \A s \in Thread : DeletesInOrder(s)'
         /\ \A v, c : Received(v, c) => Received(v, c)'
<1>1. \A s \in Thread : Announcing(s)' => Announcing(s) /\ req'[s].row = req[s].row
  BY DEF Announcing
<1>2. IdsAreUnique'
  BY <1>1 DEF IInv, IdsAreUnique, Announcing
<1>3. \A m \in notifications : m.board_comment = n.board_comment => m.visited # n.visited
  BY DEF IInv, StillToNotify
<1>4. OneNotificationPerComment'
  BY <1>3 DEF IInv, OneNotificationPerComment
<1>5. \A s \in Thread : DeletesInOrder(s)'
  BY DEF IInv, DeletesInOrder
<1>6. QED
  BY <1>2, <1>4, <1>5 DEF Received

LEMMA NotifyUserStep ==
  ASSUME IInv, TypeOK', NEW t \in Thread, NotifyUser(t)
  PROVE  IInv'
<1>1. req[t].pc = "notify" /\ req[t].row \in Comment /\ req[t].todo \subseteq User
  BY NotifyUserRequest DEF IInv
<1>2. PICK u \in req[t].todo :
        /\ notifications' = notifications \cup {NewNotification(req[t].row, u, "commenter")}
        /\ req'[t].todo = req[t].todo \ {u}
  BY NotifyUserRequest DEF IInv
<1>3. /\ req'[t].pc = "notify"
      /\ req'[t].row = req[t].row
      /\ req'[t].todo = req[t].todo \ {u}
      /\ \A s \in Thread : s # t => req'[s] = req[s]
      /\ UNCHANGED <<users, comments, lastId, silent>>
  BY <1>2, NotifyUserRequest DEF NotifyUser, IInv
<1> DEFINE n == NewNotification(req[t].row, u, "commenter")
<1>4. /\ n \in Notification
      /\ n.board_comment = req[t].row.id
      /\ n.visitor = req[t].row.user /\ n.visited = u
  BY <1>1, NewNotificationFields
<1>5. notifications' = notifications \cup {n}
  BY <1>2
<1> HIDE DEF n
<1>6. /\ IdsAreUnique'
      /\ OneNotificationPerComment'
      /\ \A s \in Thread : DeletesInOrder(s)'
      /\ \A v, c : Received(v, c) => Received(v, c)'
  BY <1>1, <1>3, <1>4, <1>5, SaveStep
<1>7. StillToNotify'
  <2>1. \A s \in Thread : s # t /\ Announcing(s) => req[s].row.id # n.board_comment
    BY <1>1, <1>4 DEF IInv, IdsAreUnique, Announcing
  <2>2. u # Owner[req[t].row.board]
    BY <1>1 DEF IInv, StillToNotify
  <2>3. QED
    BY <1>1, <1>3, <1>4, <1>5, <2>1, <2>2 DEF IInv, StillToNotify, Announcing
<1>8. LoopServesAll'
  <2> SUFFICES ASSUME NEW s \in Thread, req'[s].pc = "notify", req[s].row \in comments,
                      NEW v \in users, HasClaim(v, req[s].row)
               PROVE  v \in req'[s].todo \cup {Owner[req[s].row.board]}
                        \/ Received(v, req[s].row)'
    BY <1>3 DEF LoopServesAll, HasClaim, Received
  <2>1. v \in req[s].todo \cup {Owner[req[s].row.board]} \/ Received(v, req[s].row)
    BY <1>1, <1>3 DEF IInv, LoopServesAll
  <2>2. Received(v, req[s].row) => Received(v, req[s].row)'
    BY <1>3, <1>5 DEF Received
  <2>3. s = t /\ v = u => Received(v, req[s].row)'
    BY <1>3, <1>4, <1>5 DEF Received
  <2>4. QED
    BY <1>3, <2>1, <2>2, <2>3
<1>9. FanOutReachesAll'
  <2>1. \A c \in comments : FannedOut(c)' => FannedOut(c)
    BY <1>1, <1>3 DEF FannedOut, FanningOut
  <2>2. ASSUME NEW c \in comments', FannedOut(c)'
        PROVE  \A v \in users' : HasClaim(v, c)' => Received(v, c)'
    <3>1. c \in comments /\ FannedOut(c)
      BY <1>3, <2>1, <2>2
    <3>2. QED
      BY <1>3, <1>6, <3>1 DEF IInv, FanOutReachesAll, HasClaim
  <2>3. QED
    BY <2>2 DEF FanOutReachesAll
<1>10. QED
  BY <1>6, <1>7, <1>8, <1>9 DEF IInv

LEMMA NotifyOwnerStep ==
  ASSUME IInv, TypeOK', NEW t \in Thread, NotifyOwner(t)
  PROVE  IInv'
<1>1. /\ req[t].pc = "notify" /\ req[t].row \in Comment /\ req[t].todo = {}
      /\ Owner[req[t].row.board] \in User
  BY RequestKinds, BoardCommentsAssumption DEF NotifyOwner, IInv, Comment
<1>2. /\ req'[t] = Idle
      /\ \A s \in Thread : s # t => req'[s] = req[s]
      /\ UNCHANGED <<users, comments, lastId, silent>>
  BY DEF NotifyOwner, IInv, TypeOK
<1> DEFINE u == Owner[req[t].row.board]
           n == NewNotification(req[t].row, u, "owner")
<1>3. /\ n \in Notification
      /\ n.board_comment = req[t].row.id
      /\ n.visitor = req[t].row.user /\ n.visited = u
  BY <1>1, NewNotificationFields
<1>4. notifications' = notifications \cup {n}
  BY DEF NotifyOwner
<1> HIDE DEF n
<1>5. /\ IdsAreUnique'
      /\ OneNotificationPerComment'
      /\ \A s \in Thread : DeletesInOrder(s)'
      /\ \A v, c : Received(v, c) => Received(v, c)'
  BY <1>1, <1>2, <1>3, <1>4, SaveStep DEF Idle, Announcing
<1>6. StillToNotify'
  <2>1. \A s \in Thread : s # t /\ Announcing(s) => req[s].row.id # n.board_comment
    BY <1>1, <1>3 DEF IInv, IdsAreUnique, Announcing
  <2>2. QED
    BY <1>2, <1>4, <2>1 DEF IInv, StillToNotify, Announcing, Idle
<1>7. LoopServesAll'
  <2> SUFFICES ASSUME NEW s \in Thread, req'[s].pc = "notify", req[s].row \in comments,
                      NEW v \in users, HasClaim(v, req[s].row)
               PROVE  v \in req[s].todo \cup {Owner[req[s].row.board]}
                        \/ Received(v, req[s].row)'
    BY <1>2 DEF LoopServesAll, HasClaim, Received, Idle
  <2>1. s # t /\ req'[s] = req[s]
    BY <1>2 DEF Idle
  <2>2. v \in req[s].todo \cup {Owner[req[s].row.board]} \/ Received(v, req[s].row)
    BY <2>1 DEF IInv, LoopServesAll
  <2>3. QED
    BY <1>4, <2>1, <2>2 DEF Received
<1>8. FanOutReachesAll'
  <2> SUFFICES ASSUME NEW c \in comments, FannedOut(c)', NEW v \in users, HasClaim(v, c)
               PROVE  Received(v, c)'
    BY <1>2 DEF FanOutReachesAll, HasClaim
  <2>1. CASE FannedOut(c)
    BY <1>5, <2>1 DEF IInv, FanOutReachesAll
  <2>2. CASE ~FannedOut(c)
    <3>1. c = req[t].row
      BY <1>1, <1>2, <2>2 DEF FannedOut, FanningOut, Announcing, IInv, IdsAreUnique
    <3>2. v = Owner[c.board] \/ Received(v, c)
      BY <1>1, <3>1 DEF IInv, LoopServesAll
    <3>3. Received(Owner[c.board], c)'
      BY <1>3, <1>4, <3>1 DEF Received
    <3>4. QED
      BY <1>5, <3>2, <3>3
  <2>3. QED
    BY <2>1, <2>2
<1>9. QED
  BY <1>5, <1>6, <1>7, <1>8 DEF IInv

-----------------------------------------------------------------------------
LEMMA Inductive == IInv /\ [Next]_vars => IInv'
<1> SUFFICES ASSUME IInv, [Next]_vars PROVE IInv'
  OBVIOUS
<1>1. TypeOK'
  BY TypeInvariant DEF IInv
<1>2. CASE UNCHANGED vars
  BY <1>2 DEF vars, IInv, TypeOK, IdsAreUnique, StillToNotify, OneNotificationPerComment,
       DeletesInOrder, LoopServesAll, HasClaim, FanOutReachesAll, FannedOut, FanningOut,
       Received, Announcing
<1>3. ASSUME NEW b \in Board, CreateBoard(b) PROVE IInv'
  BY <1>1, <1>3 DEF CreateBoard, IInv, IdsAreUnique, StillToNotify, OneNotificationPerComment,
       DeletesInOrder, LoopServesAll, HasClaim, FanOutReachesAll, FannedOut, FanningOut,
       Received, Announcing
<1>4. CASE Next
  BY <1>1, <1>3, <1>4, CreateStep, InsertStep, SelectStep, NotifyUserStep, NotifyOwnerStep,
     DestroyCommentStep, DeleteCommentStep, CollectNoticesStep, DeleteNoticeStep,
     DestroyBoardStep, CommitDestroyBoardStep, DestroyAccountStep, CommitDestroyAccountStep,
     AbortStep DEF Next
<1>5. QED
  BY <1>2, <1>4

LEMMA Initially == Init => IInv
BY DEF Init, IInv, TypeOK, IdsAreUnique, StillToNotify, OneNotificationPerComment,
   DeletesInOrder, LoopServesAll, FanOutReachesAll, Announcing, Idle

\* However answers, destroys and aborted requests interleave, one answer on a board never
\* notifies the same user twice (board_comment.rb:6-13).
THEOREM NotifiedOnce == Spec => []OneNotificationPerComment
<1>1. IInv => OneNotificationPerComment
  BY DEF IInv
<1>2. QED
  BY <1>1, Initially, Inductive, PTL DEF Spec

\* However answers, destroys and aborted requests interleave, an answer whose request ran
\* to its end has reached the owner of the board and every earlier commenter.
THEOREM FanOutIsComplete == Spec => []FanOutReachesAll
<1>1. IInv => FanOutReachesAll
  BY DEF IInv
<1>2. QED
  BY <1>1, Initially, Inductive, PTL DEF Spec

-----------------------------------------------------------------------------
\* t is going to delete the notification n.
Clearing(t, n) ==
  /\ req[t].pc = "collect" \/ (req[t].pc = "delete" /\ n \in req[t].notes)
  /\ req[t].row.id = n.board_comment

\* Every notification is about a comment that stands, or is known not to be.
NoticesAccounted ==
  \A n \in notifications :
    \/ \E c \in comments : c.id = n.board_comment
    \/ n.board_comment \in leaked
    \/ n.visitor \in contended
    \/ \E t \in Thread : Clearing(t, n)

\* So is the comment that is being announced.
AnnouncedStand ==
  \A t \in Thread : Announcing(t) =>
    req[t].row \in comments \/ req[t].row.id \in leaked \/ req[t].row.user \in contended

\* A comment on its way keeps its author, and the destroy of an account knows all
\* notifications from it, unless the two have met.
AccountRace(t, u) ==
  /\ Speaking(t, u) => u \in users \cup contended
  /\ Closing(t, u) /\ u \notin contended =>
       /\ \A s \in Thread : ~Speaking(s, u)
       /\ \A n \in notifications : n.visitor = u => n \in req[t].notes

VisitorsKnown ==
  /\ \A n \in notifications : n.visitor \in users \cup contended
  /\ \A t \in Thread, u \in User : AccountRace(t, u)

LeakInv == IInv /\ NoticesAccounted /\ AnnouncedStand /\ VisitorsKnown

\* A step of a thread that takes up a comment, goes on with it or drops it, and adds no
\* notification but from the author of the comment it has in hand.
LEMMA SpeakingStep ==
  ASSUME LeakInv, TypeOK', NEW t \in Thread,
         \A s \in Thread : s # t => req'[s] = req[s],
         users' = users, contended \subseteq contended',
         \A v \in User :
           /\ ~Closing(t, v)'
           /\ Speaking(t, v)' =>
                Speaking(t, v)
                \/ (v \in users /\ ((\E s \in Thread : Closing(s, v)) => v \in contended')),
         \A n \in notifications' \ notifications : Speaking(t, n.visitor)
  PROVE  VisitorsKnown'
<1>1. \A n \in notifications' : n.visitor \in User
  BY DEF TypeOK, Notification
<1>2. \A v \in User : Speaking(t, v) => v \in users \cup contended
  BY DEF LeakInv, VisitorsKnown, AccountRace
<1>3. \A n \in notifications' : n.visitor \in users' \cup contended'
  BY <1>1, <1>2 DEF LeakInv, VisitorsKnown
<1>4. ASSUME NEW s \in Thread, NEW v \in User PROVE AccountRace(s, v)'
  <2>1. Speaking(s, v)' => v \in users' \cup contended'
    BY DEF LeakInv, VisitorsKnown, AccountRace, Speaking
  <2>2. ASSUME Closing(s, v)', v \notin contended'
        PROVE  /\ \A r \in Thread : ~Speaking(r, v)'
               /\ \A n \in notifications' : n.visitor = v => n \in req'[s].notes
    <3>1. s # t /\ Closing(s, v) /\ req'[s] = req[s] /\ v \notin contended
      BY <2>2 DEF Closing
    <3>2. /\ \A r \in Thread : ~Speaking(r, v)
          /\ \A n \in notifications : n.visitor = v => n \in req[s].notes
      BY <3>1 DEF LeakInv, VisitorsKnown, AccountRace
    <3>3. ~Speaking(t, v)'
      BY <2>2, <3>1, <3>2
    <3>4. \A r \in Thread : ~Speaking(r, v)'
      BY <3>2, <3>3 DEF Speaking
    <3>5. QED
      BY <3>1, <3>2, <3>4
  <2>3. QED
    BY <2>1, <2>2 DEF AccountRace
<1>5. QED
  BY <1>3, <1>4 DEF VisitorsKnown

\* A step of a thread after which all comments stand, and which adds no notification but
\* about the comment it has in hand.
LEMMA KeepingStep ==
  ASSUME LeakInv, NEW t \in Thread,
         \A s \in Thread : s # t => req'[s] = req[s],
         comments \subseteq comments', leaked \subseteq leaked', contended \subseteq contended',
         Announcing(t)' =>
           (Announcing(t) /\ req'[t].row = req[t].row) \/ req'[t].row \in comments',
         \A n \in notifications' \cap notifications :
           Clearing(t, n) => Clearing(t, n)' \/ n.board_comment \in leaked',
         \A n \in notifications' \ notifications :
           /\ Announcing(t)
           /\ n.board_comment = req[t].row.id /\ n.visitor = req[t].row.user
  PROVE  NoticesAccounted' /\ AnnouncedStand'
<1>1. AnnouncedStand'
  <2> SUFFICES ASSUME NEW s \in Thread, Announcing(s)'
               PROVE  \/ req'[s].row \in comments' \/ req'[s].row.id \in leaked'
                      \/ req'[s].row.user \in contended'
    BY DEF AnnouncedStand
  <2>1. (Announcing(s) /\ req'[s].row = req[s].row) \/ req'[s].row \in comments'
    BY DEF Announcing
  <2>2. QED
    BY <2>1 DEF LeakInv, AnnouncedStand
<1>2. ASSUME NEW n \in notifications'
      PROVE  \/ \E c \in comments' : c.id = n.board_comment
             \/ n.board_comment \in leaked'
             \/ n.visitor \in contended'
             \/ \E s \in Thread : Clearing(s, n)'
  <2>1. CASE n \in notifications
    <3>1. \A s \in Thread : s # t /\ Clearing(s, n) => Clearing(s, n)'
      BY DEF Clearing
    <3>2. QED
      BY <2>1, <3>1 DEF LeakInv, NoticesAccounted
  <2>2. CASE n \notin notifications
    BY <2>2 DEF LeakInv, AnnouncedStand
  <2>3. QED
    BY <2>1, <2>2
<1>3. QED
  BY <1>1, <1>2 DEF NoticesAccounted

\* A step of a thread that deletes comments: those are known to have gone without their
\* notifications, or nobody announces them and the step sees to their notifications.
LEMMA LosingStep ==
  ASSUME LeakInv, NEW t \in Thread,
         \A s \in Thread : s # t => req'[s] = req[s],
         comments' \subseteq comments, notifications' \subseteq notifications,
         leaked \subseteq leaked', contended' = contended,
         ~Announcing(t)',
         \A n \in notifications' : Clearing(t, n) => Clearing(t, n)',
         \A c \in comments \ comments' :
           \/ c.id \in leaked' \/ c.user \in contended
           \/ /\ \A s \in Thread : Announcing(s) => req[s].row.id # c.id
              /\ \A n \in notifications' : n.board_comment = c.id => Clearing(t, n)'
  PROVE  NoticesAccounted' /\ AnnouncedStand'
<1>1. AnnouncedStand'
  <2> SUFFICES ASSUME NEW s \in Thread, Announcing(s)'
               PROVE  \/ req'[s].row \in comments' \/ req'[s].row.id \in leaked'
                      \/ req'[s].row.user \in contended'
    BY DEF AnnouncedStand
  <2>1. s # t /\ Announcing(s) /\ req'[s] = req[s]
    BY DEF Announcing
  <2>2. \/ req[s].row \in comments \/ req[s].row.id \in leaked \/ req[s].row.user \in contended
    BY <2>1 DEF LeakInv, AnnouncedStand
  <2>3. QED
    BY <2>1, <2>2
<1>2. ASSUME NEW n \in notifications'
      PROVE  \/ \E c \in comments' : c.id = n.board_comment
             \/ n.board_comment \in leaked'
             \/ n.visitor \in contended'
             \/ \E s \in Thread : Clearing(s, n)'
  <2>1. \A s \in Thread : Clearing(s, n) => Clearing(s, n)'
    BY DEF Clearing
  <2>2. ASSUME NEW c \in comments \ comments', c.id = n.board_comment
        PROVE  \/ n.board_comment \in leaked' \/ n.visitor \in contended'
               \/ \E s \in Thread : Clearing(s, n)'
    <3>1. n.visitor = c.user
      BY <2>2 DEF LeakInv, IInv, IdsAreUnique
    <3>2. QED
      BY <2>2, <3>1
  <2>3. \/ \E c \in comments : c.id = n.board_comment
        \/ n.board_comment \in leaked
        \/ n.visitor \in contended
        \/ \E s \in Thread : Clearing(s, n)
    BY DEF LeakInv, NoticesAccounted
  <2>4. QED
    BY <2>1, <2>2, <2>3
<1>3. QED
  BY <1>1, <1>2 DEF NoticesAccounted

LEMMA LeakDeleteCommentStep ==
  ASSUME LeakInv, TypeOK', NEW t \in Thread, DeleteComment(t)
  PROVE  NoticesAccounted' /\ AnnouncedStand' /\ VisitorsKnown'
<1>1. /\ req[t].pc = "destroy" /\ comments' = comments \ {req[t].row}
      /\ \/ req[t].by = "admin" /\ req'[t] = Idle
         \/ req'[t].pc = "collect" /\ req'[t].row = req[t].row
      /\ \A s \in Thread : s # t => req'[s] = req[s]
      /\ leaked' = IF req[t].by = "admin" \/ FanningOut(req[t].row.id)
                   THEN leaked \cup {req[t].row.id} ELSE leaked
      /\ UNCHANGED <<users, notifications, contended>>
  BY DeleteRequest DEF DeleteComment, LeakInv, IInv
<1>2. /\ ~Announcing(t)' /\ leaked \subseteq leaked'
      /\ \A v \in User : ~Closing(t, v)' /\ ~Speaking(t, v)'
      /\ \A n \in notifications : ~Clearing(t, n)
  BY <1>1 DEF Announcing, Idle, Closing, Speaking, Clearing
<1>3. ASSUME req[t].row.id \notin leaked'
      PROVE  /\ \A s \in Thread : Announcing(s) => req[s].row.id # req[t].row.id
             /\ \A n \in notifications' : n.board_comment = req[t].row.id => Clearing(t, n)'
  BY <1>1, <1>3 DEF FanningOut, Announcing, Clearing
<1>4. NoticesAccounted' /\ AnnouncedStand'
  BY <1>1, <1>2, <1>3, LosingStep
<1>5. QED
  BY <1>1, <1>2, <1>4, SpeakingStep

LEMMA LeakDestroyAccountStep ==
  ASSUME LeakInv, TypeOK', NEW t \in Thread, NEW u \in User, DestroyAccount(t, u)
  PROVE  NoticesAccounted' /\ AnnouncedStand' /\ VisitorsKnown'
<1>1. /\ req[t] = Idle /\ req'[t].pc = "destroy_account" /\ req'[t].user = u
      /\ req'[t].notes = {n \in notifications : u \in {n.visitor, n.visited}}
      /\ contended' = contended \cup {v \in {u} : \E s \in Thread : Speaking(s, v)}
      /\ \A s \in Thread : s # t => req'[s] = req[s]
      /\ UNCHANGED <<users, comments, notifications, leaked>>
  BY DEF DestroyAccount, LeakInv, IInv, TypeOK
<1>2. NoticesAccounted' /\ AnnouncedStand'
  BY <1>1, KeepingStep DEF Clearing, Announcing, Idle
<1>3. \A s \in Thread, v \in User : Speaking(s, v)' => s # t /\ Speaking(s, v)
  BY <1>1 DEF Speaking
<1>4. ASSUME NEW s \in Thread, NEW v \in User PROVE AccountRace(s, v)'
  <2>1. CASE s = t
    BY <1>1, <1>3, <2>1 DEF AccountRace, Closing
  <2>2. CASE s # t
    BY <1>1, <1>3, <2>2 DEF LeakInv, VisitorsKnown, AccountRace, Closing
  <2>3. QED
    BY <2>1, <2>2
<1>5. QED
  BY <1>1, <1>2, <1>4 DEF LeakInv, VisitorsKnown

LEMMA LeakCommitAccountStep ==
  ASSUME LeakInv, TypeOK', NEW t \in Thread, CommitDestroyAccount(t)
  PROVE  NoticesAccounted' /\ AnnouncedStand' /\ VisitorsKnown'
<1>1. PICK u \in User : u = req[t].user
  BY RequestKinds DEF CommitDestroyAccount, LeakInv, IInv
<1>2. /\ req[t].pc = "destroy_account" /\ req'[t] = Idle
      /\ users' = users \ {u}
      /\ comments' = comments \ req[t].rows
      /\ notifications' = notifications \ req[t].notes
      /\ leaked' = leaked \cup {c.id : c \in {d \in req[t].rows : d.user # u}}
      /\ contended' = contended
      /\ \A s \in Thread : s # t => req'[s] = req[s]
  BY <1>1 DEF CommitDestroyAccount, LeakInv, IInv, TypeOK
<1>3. u \notin contended =>
        /\ \A s \in Thread : ~Speaking(s, u)
        /\ \A n \in notifications' : n.visitor # u
  BY <1>1, <1>2 DEF LeakInv, VisitorsKnown, AccountRace, Closing
<1>4. ~Announcing(t)' /\ \A n \in notifications : ~Clearing(t, n)
  BY <1>2 DEF Announcing, Idle, Clearing
<1>5. ASSUME NEW c \in comments \ comments'
      PROVE  \/ c.id \in leaked' \/ c.user \in contended
             \/ /\ \A s \in Thread : Announcing(s) => req[s].row.id # c.id
                /\ \A n \in notifications' : n.board_comment = c.id => Clearing(t, n)'
  <2>1. c \in req[t].rows
    BY <1>2, <1>5
  <2>2. CASE c.user # u
    BY <1>2, <2>1, <2>2
  <2>3. CASE c.user = u /\ u \notin contended
    <3>1. \A s \in Thread : Announcing(s) => req[s].row.id # c.id
      BY <1>3, <1>5, <2>3 DEF LeakInv, IInv, IdsAreUnique, Announcing, Speaking
    <3>2. \A n \in notifications' : n.board_comment # c.id
      BY <1>2, <1>3, <1>5, <2>3 DEF LeakInv, IInv, IdsAreUnique
    <3>3. QED
      BY <3>1, <3>2
  <2>4. QED
    BY <2>2, <2>3
<1>6. NoticesAccounted' /\ AnnouncedStand'
  BY <1>2, <1>4, <1>5, LosingStep
<1>7. \A n \in notifications' : n.visitor \in users' \cup contended'
  BY <1>2, <1>3 DEF LeakInv, VisitorsKnown
<1>8. ASSUME NEW s \in Thread, NEW v \in User PROVE AccountRace(s, v)'
  <2>1. \A r \in Thread : Speaking(r, v)' => Speaking(r, v)
    BY <1>2 DEF Speaking, Idle
  <2>2. Closing(s, v)' => Closing(s, v) /\ req'[s] = req[s]
    BY <1>2 DEF Closing, Idle
  <2>3. Speaking(s, v)' => v \in users' \cup contended'
    BY <1>2, <1>3, <2>1 DEF LeakInv, VisitorsKnown, AccountRace
  <2>4. QED
    BY <1>2, <2>1, <2>2, <2>3 DEF LeakInv, VisitorsKnown, AccountRace
<1>9. QED
  BY <1>6, <1>7, <1>8 DEF VisitorsKnown

LEMMA LeakInductive ==
  ASSUME LeakInv, [Next]_vars
  PROVE  LeakInv'
<1>1. IInv' /\ TypeOK'
  BY Inductive DEF LeakInv, IInv
<1>2. SUFFICES NoticesAccounted' /\ AnnouncedStand' /\ VisitorsKnown'
  BY <1>1 DEF LeakInv
<1>3. TypeOK
  BY DEF LeakInv, IInv
\* A step of t that takes no comment away, writes none and takes up none.
<1>4. ASSUME NEW t \in Thread,
             \A s \in Thread : s # t => req'[s] = req[s],
             users' = users, comments' = comments, contended' = contended,
             leaked \subseteq leaked', notifications' \subseteq notifications,
             \A v \in User : ~Closing(t, v)' /\ (Speaking(t, v)' => Speaking(t, v)),
             Announcing(t)' => Announcing(t) /\ req'[t].row = req[t].row,
             \A n \in notifications' :
               Clearing(t, n) => Clearing(t, n)' \/ n.board_comment \in leaked'
      PROVE  NoticesAccounted' /\ AnnouncedStand' /\ VisitorsKnown'
  BY <1>1, <1>4, SpeakingStep, KeepingStep
<1>5. ASSUME NEW t \in Thread, NEW u \in User, NEW b \in Board, Create(t, u, b)
      PROVE  NoticesAccounted' /\ AnnouncedStand' /\ VisitorsKnown'
  <2>1. /\ req[t] = Idle /\ req'[t].pc = "insert" /\ req'[t].row.user = u /\ u \in users
        /\ \A s \in Thread : s # t => req'[s] = req[s]
        /\ contended' = contended \cup {v \in {u} : \E s \in Thread : Closing(s, v)}
        /\ UNCHANGED <<users, comments, notifications, leaked>>
    BY <1>3, <1>5 DEF Create, TypeOK
  <2>2. /\ ~Announcing(t)' /\ (\A n \in notifications : ~Clearing(t, n))
        /\ \A v \in User : ~Closing(t, v)' /\ (Speaking(t, v)' => v = u)
    BY <2>1 DEF Announcing, Clearing, Closing, Speaking, Idle
  <2>3. QED
    BY <1>1, <2>1, <2>2, SpeakingStep, KeepingStep
<1>6. ASSUME NEW t \in Thread, Insert(t)
      PROVE  NoticesAccounted' /\ AnnouncedStand' /\ VisitorsKnown'
  <2>1. PICK row \in Comment : row = req'[t].row
    BY <1>3, <1>6, InsertRequest
  <2>2. /\ req[t].pc = "insert" /\ req'[t].pc = "select" /\ row.user = req[t].row.user
        /\ comments' = comments \cup {row}
        /\ \A s \in Thread : s # t => req'[s] = req[s]
        /\ UNCHANGED <<users, notifications, leaked, contended>>
    BY <1>3, <1>6, <2>1, InsertRequest DEF Insert
  <2>3. /\ \A n \in notifications : ~Clearing(t, n)
        /\ \A v \in User : ~Closing(t, v)' /\ (Speaking(t, v)' => Speaking(t, v))
    BY <2>1, <2>2 DEF Clearing, Closing, Speaking
  <2>4. QED
    BY <1>1, <2>1, <2>2, <2>3, SpeakingStep, KeepingStep
<1>7. ASSUME NEW t \in Thread, SelectUsers(t)
      PROVE  NoticesAccounted' /\ AnnouncedStand' /\ VisitorsKnown'
  <2>1. /\ req[t].pc = "select" /\ req'[t].pc = "notify" /\ req'[t].row = req[t].row
        /\ \A s \in Thread : s # t => req'[s] = req[s]
        /\ UNCHANGED <<users, comments, notifications, leaked, contended>>
    BY <1>3, <1>7, SelectRequest DEF SelectUsers
  <2>2. /\ \A n \in notifications : ~Clearing(t, n)
        /\ \A v \in User : ~Closing(t, v)' /\ (Speaking(t, v)' => Speaking(t, v))
        /\ Announcing(t)
    BY <2>1 DEF Clearing, Closing, Speaking, Announcing
  <2>3. QED
    BY <1>4, <2>1, <2>2
\* A step of t that saves the notification n about the comment it has in hand.
<1>8. ASSUME NEW t \in Thread, NEW n,
             req[t].pc = "notify", req'[t].pc \in {"idle", "notify"},
             Announcing(t)' => req'[t].row = req[t].row,
             notifications' = notifications \cup {n},
             n.board_comment = req[t].row.id, n.visitor = req[t].row.user,
             \A s \in Thread : s # t => req'[s] = req[s],
             UNCHANGED <<users, comments, leaked, contended>>
      PROVE  NoticesAccounted' /\ AnnouncedStand' /\ VisitorsKnown'
  <2>1. /\ \A m \in notifications : ~Clearing(t, m)
        /\ Announcing(t) /\ Speaking(t, n.visitor)
        /\ \A v \in User : ~Closing(t, v)' /\ (Speaking(t, v)' => Speaking(t, v))
    BY <1>8 DEF Clearing, Closing, Speaking, Announcing
  <2>2. VisitorsKnown'
    BY <1>1, <1>8, <2>1, SpeakingStep
  <2>3. QED
    BY <1>8, <2>1, <2>2, KeepingStep
<1>9. ASSUME NEW t \in Thread, NotifyUser(t)
      PROVE  NoticesAccounted' /\ AnnouncedStand' /\ VisitorsKnown'
  <2>1. /\ req[t].pc = "notify" /\ req'[t].pc = "notify" /\ req'[t].row = req[t].row
        /\ req[t].row \in Comment /\ req[t].todo \subseteq User
        /\ \A s \in Thread : s # t => req'[s] = req[s]
        /\ UNCHANGED <<users, comments, leaked, contended>>
    BY <1>3, <1>9, NotifyUserRequest DEF NotifyUser
  <2>2. PICK u \in req[t].todo :
          notifications' = notifications \cup {NewNotification(req[t].row, u, "commenter")}
    BY <1>3, <1>9, NotifyUserRequest
  <2>3. PICK n \in Notification : n = NewNotification(req[t].row, u, "commenter")
    BY <2>1, NewNotificationFields
  <2>4. n.board_comment = req[t].row.id /\ n.visitor = req[t].row.user
    BY <2>1, <2>3, NewNotificationFields
  <2>5. QED
    BY <1>8, <2>1, <2>2, <2>3, <2>4
<1>10. ASSUME NEW t \in Thread, NotifyOwner(t)
       PROVE  NoticesAccounted' /\ AnnouncedStand' /\ VisitorsKnown'
  <2>1. /\ req[t].pc = "notify" /\ req'[t] = Idle
        /\ req[t].row \in Comment /\ Owner[req[t].row.board] \in User
        /\ \A s \in Thread : s # t => req'[s] = req[s]
        /\ UNCHANGED <<users, comments, leaked, contended>>
    BY <1>3, <1>10, RequestKinds, BoardCommentsAssumption DEF NotifyOwner, TypeOK, Comment
  <2>2. PICK n \in Notification : n = NewNotification(req[t].row, Owner[req[t].row.board], "owner")
    BY <2>1, NewNotificationFields
  <2>3. /\ n.board_comment = req[t].row.id /\ n.visitor = req[t].row.user
        /\ notifications' = notifications \cup {n}
    BY <1>10, <2>1, <2>2, NewNotificationFields DEF NotifyOwner
  <2>4. QED
    BY <1>8, <2>1, <2>3 DEF Announcing, Idle
<1>11. ASSUME NEW t \in Thread, NEW c \in comments, NEW by \in {"author", "admin"},
              DestroyComment(t, c, by)
       PROVE  NoticesAccounted' /\ AnnouncedStand' /\ VisitorsKnown'
  <2>1. /\ req[t] = Idle /\ req'[t].pc = "destroy"
        /\ \A s \in Thread : s # t => req'[s] = req[s]
        /\ UNCHANGED <<users, comments, notifications, leaked, contended>>
    BY <1>3, <1>11 DEF DestroyComment, TypeOK
  <2>2. QED
    BY <1>4, <2>1 DEF Clearing, Closing, Speaking, Announcing, Idle
<1>12. ASSUME NEW t \in Thread, CollectNotices(t)
       PROVE  NoticesAccounted' /\ AnnouncedStand' /\ VisitorsKnown'
  <2>1. /\ req[t].pc = "collect" /\ req'[t].pc = "delete" /\ req'[t].row = req[t].row
        /\ req'[t].notes = {n \in notifications : n.board_comment = req[t].row.id}
        /\ \A s \in Thread : s # t => req'[s] = req[s]
        /\ UNCHANGED <<users, comments, notifications, leaked, contended>>
    BY <1>3, <1>12, CollectRequest DEF CollectNotices
  <2>2. \A n \in notifications : Clearing(t, n) => Clearing(t, n)'
    BY <2>1 DEF Clearing
  <2>3. QED
    BY <1>4, <2>1, <2>2 DEF Closing, Speaking, Announcing
<1>13. ASSUME NEW t \in Thread, DeleteNotice(t)
       PROVE  NoticesAccounted' /\ AnnouncedStand' /\ VisitorsKnown'
  <2>1. /\ req[t].pc = "delete"
        /\ \A s \in Thread : s # t => req'[s] = req[s]
        /\ UNCHANGED <<users, comments, leaked, contended>>
    BY <1>3, <1>13, DeleteNoticeRequest DEF DeleteNotice
  <2>2. \/ req[t].notes = {} /\ req'[t] = Idle /\ notifications' = notifications
        \/ \E n \in req[t].notes :
             /\ notifications' = notifications \ {n}
             /\ req'[t].pc = "delete" /\ req'[t].row = req[t].row
             /\ req'[t].notes = req[t].notes \ {n}
    BY <1>3, <1>13, DeleteNoticeRequest
  <2>3. /\ notifications' \subseteq notifications
        /\ \A n \in notifications' : Clearing(t, n) => Clearing(t, n)'
    BY <2>1, <2>2 DEF Clearing
  <2>4. req'[t].pc \in {"idle", "delete"}
    BY <2>2 DEF Idle
  <2>5. QED
    BY <1>4, <2>1, <2>3, <2>4 DEF Closing, Speaking, Announcing
<1>14. ASSUME NEW t \in Thread, NEW b \in Board, DestroyBoard(t, b)
       PROVE  NoticesAccounted' /\ AnnouncedStand' /\ VisitorsKnown'
  <2>1. /\ req[t] = Idle /\ req'[t].pc = "destroy_board"
        /\ \A s \in Thread : s # t => req'[s] = req[s]
        /\ UNCHANGED <<users, comments, notifications, leaked, contended>>
    BY <1>3, <1>14 DEF DestroyBoard, TypeOK
  <2>2. QED
    BY <1>4, <2>1 DEF Clearing, Closing, Speaking, Announcing, Idle
<1>15. ASSUME NEW t \in Thread, CommitDestroyBoard(t)
       PROVE  NoticesAccounted' /\ AnnouncedStand' /\ VisitorsKnown'
  <2>1. /\ req[t].pc = "destroy_board" /\ req'[t] = Idle
        /\ comments' = comments \ req[t].rows
        /\ leaked' = leaked \cup {c.id : c \in req[t].rows}
        /\ \A s \in Thread : s # t => req'[s] = req[s]
        /\ UNCHANGED <<users, notifications, contended>>
    BY <1>3, <1>15 DEF CommitDestroyBoard, TypeOK
  <2>2. /\ \A n \in notifications : ~Clearing(t, n)
        /\ ~Announcing(t)'
        /\ \A v \in User : ~Closing(t, v)' /\ ~Speaking(t, v)'
    BY <2>1 DEF Clearing, Closing, Speaking, Announcing, Idle
  <2>3. NoticesAccounted' /\ AnnouncedStand'
    BY <2>1, <2>2, LosingStep
  <2>4. QED
    BY <1>1, <2>1, <2>2, <2>3, SpeakingStep
<1>16. ASSUME NEW t \in Thread, Abort(t)
       PROVE  NoticesAccounted' /\ AnnouncedStand' /\ VisitorsKnown'
  <2>1. /\ req'[t] = Idle
        /\ \A s \in Thread : s # t => req'[s] = req[s]
        /\ leaked' = IF req[t].pc \in {"collect", "delete"} THEN leaked \cup {req[t].row.id}
                     ELSE leaked
        /\ UNCHANGED <<users, comments, notifications, contended>>
    BY <1>3, <1>16 DEF Abort, TypeOK
  <2>2. \A n \in notifications : Clearing(t, n) => n.board_comment \in leaked'
    BY <2>1 DEF Clearing
  <2>3. QED
    BY <1>4, <2>1, <2>2 DEF Closing, Speaking, Announcing, Idle
<1>17. ASSUME UNCHANGED <<users, comments, notifications, req, leaked, contended>>
       PROVE  NoticesAccounted' /\ AnnouncedStand' /\ VisitorsKnown'
  BY <1>17 DEF LeakInv, NoticesAccounted, AnnouncedStand, VisitorsKnown, AccountRace, Clearing,
       Closing, Speaking, Announcing
<1>18. ASSUME NEW b \in Board, CreateBoard(b)
       PROVE  NoticesAccounted' /\ AnnouncedStand' /\ VisitorsKnown'
  BY <1>17, <1>18 DEF CreateBoard
<1>19. CASE UNCHANGED vars
  BY <1>17, <1>19 DEF vars
<1>20. QED
  BY <1>1, <1>5, <1>6, <1>7, <1>9, <1>10, <1>11, <1>12, <1>13, <1>14, <1>15, <1>16, <1>18, <1>19,
     LeakDeleteCommentStep, LeakDestroyAccountStep, LeakCommitAccountStep DEF Next

\* In any number of threads, a notification refers to a comment and an account that are
\* there, unless the admin, a destroyed board or account, a request cut short or a fan-out
\* that met a delete has left it (board_comments_controller.rb:15-19, user.rb:11).
THEOREM OnlyTheKnownLeak == Spec => []OnlyKnownLeaks
<1>1. Init => LeakInv
  BY Initially DEF Init, LeakInv, NoticesAccounted, AnnouncedStand, VisitorsKnown, AccountRace,
       Closing, Speaking, Announcing, Idle
<1>2. LeakInv /\ [Next]_vars => LeakInv'
  BY LeakInductive
<1>3. LeakInv => OnlyKnownLeaks
  BY DEF LeakInv, NoticesAccounted, VisitorsKnown, OnlyKnownLeaks, Clearing
<1>4. QED
  BY <1>1, <1>2, <1>3, PTL DEF Spec

-----------------------------------------------------------------------------
\* The comments under way are among those that were written, and none of them was cut short.
IdsInOrder ==
  /\ silent \subseteq 1..lastId
  /\ \A t \in Thread : Announcing(t) => req[t].row.id \in (1..lastId) \ silent

LEMMA IdsStayInOrder ==
  ASSUME IInv, IInv', IdsInOrder, [Next]_vars
  PROVE  IdsInOrder'
<1>0. TypeOK
  BY DEF IInv
<1>1. ASSUME NEW t \in Thread,
             UNCHANGED <<lastId, silent>>,
             \A s \in Thread : s # t => req'[s] = req[s],
             Announcing(t)' => Announcing(t) /\ req'[t].row.id = req[t].row.id
      PROVE  IdsInOrder'
  BY <1>1 DEF IdsInOrder, Announcing
<1>2. ASSUME NEW t \in Thread, NEW u \in User, NEW b \in Board, Create(t, u, b) PROVE IdsInOrder'
  BY <1>0, <1>1, <1>2 DEF Create, Announcing, TypeOK
<1>3. ASSUME NEW t \in Thread, Insert(t) PROVE IdsInOrder'
  <2>1. /\ lastId' = lastId + 1 /\ lastId \in Nat /\ silent' = silent
        /\ req'[t].row.id = lastId + 1
        /\ \A s \in Thread : s # t => req'[s] = req[s]
    BY <1>0, <1>3, InsertRequest DEF Insert
  <2>2. lastId + 1 \in (1..lastId') \ silent'
    BY <2>1 DEF IdsInOrder
  <2>3. \A i \in 1..lastId : i \in 1..lastId'
    BY <2>1
  <2>4. silent' \subseteq 1..lastId'
    BY <2>1, <2>3 DEF IdsInOrder
  <2>5. \A s \in Thread : Announcing(s)' => req'[s].row.id \in (1..lastId') \ silent'
    BY <2>1, <2>2, <2>3 DEF IdsInOrder, Announcing
  <2>6. QED
    BY <2>4, <2>5 DEF IdsInOrder
<1>4. ASSUME NEW t \in Thread, SelectUsers(t) PROVE IdsInOrder'
  BY <1>0, <1>1, <1>4, SelectRequest DEF SelectUsers, Announcing
<1>5. ASSUME NEW t \in Thread, NotifyUser(t) PROVE IdsInOrder'
  BY <1>0, <1>1, <1>5, NotifyUserRequest DEF NotifyUser, Announcing
<1>6. ASSUME NEW t \in Thread, NotifyOwner(t) PROVE IdsInOrder'
  BY <1>0, <1>1, <1>6 DEF NotifyOwner, Announcing, Idle, TypeOK
<1>7. ASSUME NEW t \in Thread, NEW c \in comments, NEW by \in {"author", "admin"},
             DestroyComment(t, c, by)
      PROVE  IdsInOrder'
  BY <1>0, <1>1, <1>7 DEF DestroyComment, Announcing, TypeOK
<1>8. ASSUME NEW t \in Thread, DeleteComment(t) PROVE IdsInOrder'
  BY <1>0, <1>1, <1>8, DeleteRequest DEF DeleteComment, Announcing, Idle
<1>9. ASSUME NEW t \in Thread, CollectNotices(t) PROVE IdsInOrder'
  BY <1>0, <1>1, <1>9, CollectRequest DEF CollectNotices, Announcing
<1>10. ASSUME NEW t \in Thread, DeleteNotice(t) PROVE IdsInOrder'
  BY <1>0, <1>1, <1>10, DeleteNoticeRequest DEF DeleteNotice, Announcing, Idle
<1>11. ASSUME NEW t \in Thread, NEW b \in Board, DestroyBoard(t, b) PROVE IdsInOrder'
  BY <1>0, <1>1, <1>11 DEF DestroyBoard, Announcing, TypeOK
<1>12. ASSUME NEW t \in Thread, CommitDestroyBoard(t) PROVE IdsInOrder'
  BY <1>0, <1>1, <1>12 DEF CommitDestroyBoard, Announcing, Idle, TypeOK
<1>13. ASSUME NEW t \in Thread, NEW u \in User, DestroyAccount(t, u) PROVE IdsInOrder'
  BY <1>0, <1>1, <1>13 DEF DestroyAccount, Announcing, TypeOK
<1>14. ASSUME NEW t \in Thread, CommitDestroyAccount(t) PROVE IdsInOrder'
  BY <1>0, <1>1, <1>14 DEF CommitDestroyAccount, Announcing, Idle, TypeOK
<1>15. ASSUME NEW t \in Thread, Abort(t) PROVE IdsInOrder'
  <2>1. /\ lastId' = lastId /\ req'[t] = Idle
        /\ \A s \in Thread : s # t => req'[s] = req[s]
        /\ silent' = IF Announcing(t) THEN silent \cup {req[t].row.id} ELSE silent
    BY <1>0, <1>15 DEF Abort, Announcing, TypeOK
  <2>2. \A s \in Thread : Announcing(s)' =>
          s # t /\ Announcing(s) /\ req'[s] = req[s]
    BY <2>1 DEF Announcing, Idle
  <2>3. \A s \in Thread : s # t /\ Announcing(s) /\ Announcing(t) => req[s].row.id # req[t].row.id
    BY DEF IInv, IdsAreUnique
  <2>4. silent' \subseteq 1..lastId'
    BY <2>1 DEF IdsInOrder
  <2>5. \A s \in Thread : Announcing(s)' => req'[s].row.id \in (1..lastId') \ silent'
    BY <2>1, <2>2, <2>3 DEF IdsInOrder
  <2>6. QED
    BY <2>4, <2>5 DEF IdsInOrder
<1>16. ASSUME UNCHANGED <<lastId, silent, req>> PROVE IdsInOrder'
  BY <1>16 DEF IdsInOrder, Announcing
<1>17. ASSUME NEW b \in Board, CreateBoard(b) PROVE IdsInOrder'
  BY <1>16, <1>17 DEF CreateBoard
<1>18. CASE UNCHANGED vars
  BY <1>16, <1>18 DEF vars
<1>19. QED
  BY <1>2, <1>3, <1>4, <1>5, <1>6, <1>7, <1>8, <1>9, <1>10, <1>11, <1>12, <1>13, <1>14, <1>15,
     <1>17, <1>18 DEF Next

\* What a step of t does to the set of announcements under way.
LEMMA OpenIdsAfter ==
  ASSUME NEW t \in Thread, \A s \in Thread : s # t => req'[s] = req[s]
  PROVE  /\ (Announcing(t) <=> Announcing(t)') /\ (Announcing(t) => req'[t].row.id = req[t].row.id)
              => OpenIds' = OpenIds
         /\ ~Announcing(t) /\ Announcing(t)' => OpenIds' = OpenIds \cup {req'[t].row.id}
         /\ IInv /\ Announcing(t) /\ ~Announcing(t)' => OpenIds' = OpenIds \ {req[t].row.id}
<1>1. \A s \in Thread : s # t => (Announcing(s)' <=> Announcing(s))
  BY DEF Announcing
<1>2. OpenIds = {req[s].row.id : s \in {r \in Thread : Announcing(r)}}
  BY DEF OpenIds
<1>3. OpenIds' = {req'[s].row.id : s \in {r \in Thread : Announcing(r)'}}
  BY DEF OpenIds
<1>4. ASSUME (Announcing(t) <=> Announcing(t)'), Announcing(t) => req'[t].row.id = req[t].row.id
      PROVE  OpenIds' = OpenIds
  BY <1>1, <1>2, <1>3, <1>4
<1>5. ASSUME ~Announcing(t), Announcing(t)' PROVE OpenIds' = OpenIds \cup {req'[t].row.id}
  BY <1>1, <1>2, <1>3, <1>5
<1>6. ASSUME IInv, Announcing(t), ~Announcing(t)' PROVE OpenIds' = OpenIds \ {req[t].row.id}
  <2>1. \A s \in Thread : s # t /\ Announcing(s) => req[s].row.id # req[t].row.id
    BY <1>6 DEF IInv, IdsAreUnique
  <2>2. QED
    BY <1>1, <1>2, <1>3, <1>6, <2>1
<1>7. QED
  BY <1>4, <1>5, <1>6

\* A step that leaves every announcement and every table it is about as it was.
LEMMA Unseen ==
  ASSUME UNCHANGED <<users, comments, notifications, lastId, silent>>, OpenIds' = OpenIds
  PROVE  UNCHANGED Told!vars
BY DEF Told!vars, StandingComments, Receipts, Promised

LEMMA WriteStep ==
  ASSUME IInv, IdsInOrder, NEW t \in Thread, Insert(t)
  PROVE  Told!Next
<1>1. PICK row \in Comment : row = req'[t].row
  BY InsertRequest DEF IInv
<1>2. /\ row.id = lastId + 1 /\ lastId \in Nat
      /\ comments' = comments \cup {row} /\ lastId' = lastId + 1
      /\ req[t].pc = "insert" /\ req'[t].pc = "select"
      /\ \A s \in Thread : s # t => req'[s] = req[s]
      /\ UNCHANGED <<users, notifications, silent>>
  BY <1>1, InsertRequest DEF Insert, IInv
<1>3. row.user \in User /\ row.board \in Board /\ row.id = lastId'
  BY <1>2 DEF Comment
<1>4. OpenIds' = OpenIds \cup {row.id}
  BY <1>1, <1>2, OpenIdsAfter DEF Announcing
<1>5. StandingComments' = StandingComments
                            \cup {[id |-> row.id, user |-> row.user, place |-> row.board]}
  BY <1>2 DEF StandingComments
<1>6. Receipts' = Receipts
  BY <1>2 DEF Receipts
<1>7. Promised' = Promised
  <2>1. \A i \in Nat : i \in 1..lastId' <=> i \in 1..lastId \/ i = lastId + 1
    BY <1>2
  <2>2. QED
    BY <1>2, <1>4, <2>1 DEF Promised
<1>8. Told!Write(row.user, row.board)
  BY <1>2, <1>3, <1>4, <1>5, <1>6, <1>7 DEF Told!Write
<1>9. QED
  BY <1>3, <1>8 DEF Told!Next

\* Saving the notification n for the row of t tells its receiver.
LEMMA TellStep ==
  ASSUME IInv, NEW t \in Thread, req[t].pc = "notify", NEW n \in Notification,
         NEW via \in {"commenter", "owner"}, NEW u \in User,
         n.board_comment = req[t].row.id, n.visited = u, n.via = via,
         \A m \in notifications : m.board_comment = req[t].row.id => m.visited # u,
         notifications' = notifications \cup {n},
         UNCHANGED <<users, comments, lastId, silent>>
  PROVE  Told!Tell(req[t].row.id, u, via)
<1>1. req[t].row.id \in OpenIds
  BY DEF OpenIds, Announcing
<1>2. Receipts' = Receipts \cup {[about |-> req[t].row.id, to |-> u, via |-> via]}
  BY DEF Receipts
<1>3. ~Told!Told(u, req[t].row.id)
  BY DEF Told!Told, Receipts
<1>4. StandingComments' = StandingComments
  BY DEF StandingComments
<1>5. QED
  BY <1>1, <1>2, <1>3, <1>4 DEF Told!Tell

LEMMA TellOneStep ==
  ASSUME IInv, IInv', NEW t \in Thread, NotifyUser(t)
  PROVE  Told!Next
<1>1. req[t].pc = "notify" /\ req[t].row \in Comment /\ req[t].todo \subseteq User
  BY NotifyUserRequest DEF IInv
<1>2. PICK u \in req[t].todo :
        notifications' = notifications \cup {NewNotification(req[t].row, u, "commenter")}
  BY DEF NotifyUser
<1> DEFINE n == NewNotification(req[t].row, u, "commenter")
<1>3. /\ n \in Notification
      /\ n.board_comment = req[t].row.id /\ n.visited = u /\ n.via = "commenter"
  BY <1>1, NewNotificationFields
<1>4. notifications' = notifications \cup {n}
  BY <1>2
<1> HIDE DEF n
<1>5. /\ req'[t].pc = "notify" /\ req'[t].row = req[t].row
      /\ \A s \in Thread : s # t => req'[s] = req[s]
      /\ UNCHANGED <<users, comments, lastId, silent>>
  BY NotifyUserRequest DEF NotifyUser, IInv
<1>6. \A m \in notifications : m.board_comment = req[t].row.id => m.visited # u
  BY <1>1 DEF IInv, StillToNotify
<1>7. Told!Tell(req[t].row.id, u, "commenter")
  BY <1>1, <1>3, <1>4, <1>5, <1>6, TellStep
<1>8. OpenIds' = OpenIds
  BY <1>1, <1>5, OpenIdsAfter DEF Announcing
<1>9. Promised' = Promised
  BY <1>5, <1>8 DEF Promised
<1>10. Told!TellOne(req[t].row.id, u, "commenter") /\ req[t].row.id \in OpenIds
  BY <1>1, <1>7, <1>8, <1>9 DEF Told!TellOne, OpenIds, Announcing
<1>11. QED
  BY <1>1, <1>10 DEF Told!Next

LEMMA TellLastStep ==
  ASSUME IInv, IInv', IdsInOrder, NEW t \in Thread, NotifyOwner(t)
  PROVE  Told!Next
<1>1. req[t].pc = "notify" /\ req[t].row \in Comment
  BY RequestKinds DEF NotifyOwner, IInv
<1>1a. PICK id \in Nat : id = req[t].row.id
  BY <1>1 DEF Comment
<1>1b. PICK u \in User : u = Owner[req[t].row.board]
  BY <1>1, BoardCommentsAssumption DEF Comment
<1> DEFINE n == NewNotification(req[t].row, u, "owner")
<1>2. /\ n \in Notification
      /\ n.board_comment = id /\ n.visited = u /\ n.via = "owner"
  BY <1>1, <1>1a, NewNotificationFields
<1>3. notifications' = notifications \cup {n}
  BY <1>1b DEF NotifyOwner
<1> HIDE DEF n
<1>4. /\ req'[t] = Idle
      /\ \A s \in Thread : s # t => req'[s] = req[s]
      /\ UNCHANGED <<users, comments, lastId, silent>>
  BY DEF NotifyOwner, IInv, TypeOK
<1>5. \A m \in notifications : m.board_comment = id => m.visited # u
  BY <1>1, <1>1a, <1>1b DEF IInv, StillToNotify
<1>6. Told!Tell(id, u, "owner")
  BY <1>1, <1>2, <1>3, <1>4, <1>5, <1>1a, TellStep
<1>7. OpenIds' = OpenIds \ {id}
  BY <1>1, <1>4, <1>1a, OpenIdsAfter DEF Announcing, Idle
<1>8. id \in (1..lastId) \ silent
  BY <1>1, <1>1a DEF IdsInOrder, Announcing
<1>9. Promised' = Promised \cup {id}
  BY <1>4, <1>7, <1>8 DEF Promised
<1>10. ASSUME NEW c \in comments', c.id = id
       PROVE  FannedOut(c)'
  <2>1. \A s \in Thread : Announcing(s)' => s # t /\ Announcing(s) /\ req'[s] = req[s]
    BY <1>4 DEF Announcing, Idle
  <2>2. \A s \in Thread : s # t /\ Announcing(s) => req[s].row.id # id
    BY <1>1, <1>1a DEF IInv, IdsAreUnique, Announcing
  <2>3. QED
    BY <1>4, <1>8, <1>10, <2>1, <2>2 DEF FannedOut, FanningOut, Announcing
<1>11. Told!AllTold(id)'
  <2> SUFFICES ASSUME NEW d \in StandingComments', d.id = id, NEW v \in User, Told!Due(v, d)'
               PROVE  Told!Told(v, id)'
    BY DEF Told!AllTold
  <2>1. PICK c \in comments' : d = [id |-> c.id, user |-> c.user, place |-> c.board]
    BY DEF StandingComments
  <2>2. v \in users' /\ HasClaim(v, c)'
    BY <2>1 DEF Told!Due, HasClaim, StandingComments
  <2>3. Received(v, c)'
    BY <1>10, <2>1, <2>2 DEF IInv, FanOutReachesAll
  <2>4. PICK m \in notifications' : m.board_comment = id /\ m.visited = v
    BY <2>1, <2>3 DEF Received
  <2>5. [about |-> m.board_comment, to |-> m.visited, via |-> m.via] \in Receipts'
    BY DEF Receipts
  <2>6. QED
    BY <2>4, <2>5 DEF Told!Told
<1>12. Told!TellLast(id, u, "owner")
  BY <1>6, <1>7, <1>9, <1>11 DEF Told!TellLast
<1>13. id \in OpenIds
  BY <1>1, <1>1a DEF OpenIds, Announcing
<1>14. QED
  BY <1>1, <1>12, <1>13 DEF Told!Next

\* A step of t that deletes takes no notification away while its receiver has a claim to it.
LEMMA WithdrawStep ==
  ASSUME NEW t \in Thread,
         \A s \in Thread : s # t => req'[s] = req[s],
         ~Announcing(t), ~Announcing(t)',
         users' \subseteq users, comments' \subseteq comments,
         notifications' \subseteq notifications,
         UNCHANGED <<lastId, silent>>,
         \A n \in notifications \ notifications', c \in comments' :
           n.board_comment = c.id => n.visited \notin users'
  PROVE  Told!Next
<1>1. OpenIds' = OpenIds
  BY OpenIdsAfter
<1>2. Promised' = Promised
  BY <1>1 DEF Promised
<1>3. /\ users' \in SUBSET users
      /\ StandingComments' \in SUBSET StandingComments
      /\ Receipts' \in SUBSET Receipts
  BY DEF StandingComments, Receipts
<1>4. ASSUME NEW r \in Receipts \ Receipts', NEW d \in StandingComments', d.id = r.about
      PROVE  ~Told!Due(r.to, d)'
  <2>1. PICK n \in notifications : r = [about |-> n.board_comment, to |-> n.visited, via |-> n.via]
    BY DEF Receipts
  <2>2. PICK c \in comments' : d = [id |-> c.id, user |-> c.user, place |-> c.board]
    BY DEF StandingComments
  <2>3. n \notin notifications'
    BY <1>4, <2>1 DEF Receipts
  <2>4. r.to \notin users'
    BY <1>4, <2>1, <2>2, <2>3
  <2>5. QED
    BY <2>4 DEF Told!Due
<1>5. Told!Withdraw
  BY <1>1, <1>2, <1>3, <1>4 DEF Told!Withdraw
<1>6. QED
  BY <1>5 DEF Told!Next

LEMMA CutShortStep ==
  ASSUME IInv, NEW t \in Thread, Abort(t)
  PROVE  [Told!Next]_Told!vars
<1>1. /\ req'[t] = Idle
      /\ \A s \in Thread : s # t => req'[s] = req[s]
      /\ silent' = IF Announcing(t) THEN silent \cup {req[t].row.id} ELSE silent
      /\ UNCHANGED <<users, comments, notifications, lastId>>
  BY DEF Abort, Announcing, IInv, TypeOK
<1>2. CASE Announcing(t)
  <2>1. PICK id : id = req[t].row.id
    OBVIOUS
  <2>2. OpenIds' = OpenIds \ {id} /\ id \in OpenIds
    BY <1>1, <1>2, <2>1, OpenIdsAfter DEF Announcing, Idle, OpenIds
  <2>3. Promised' = Promised
    BY <1>1, <1>2, <2>1, <2>2 DEF Promised
  <2>4. Told!CutShort(id)
    BY <1>1, <2>2, <2>3 DEF Told!CutShort, StandingComments, Receipts
  <2>5. QED
    BY <2>2, <2>4 DEF Told!Next
<1>3. CASE ~Announcing(t)
  <2>1. OpenIds' = OpenIds
    BY <1>1, <1>3, OpenIdsAfter DEF Announcing, Idle
  <2>2. QED
    BY <1>1, <1>3, <2>1, Unseen
<1>4. QED
  BY <1>2, <1>3

LEMMA StepsAreAnnounced ==
  ASSUME IInv, IInv', IdsInOrder, [Next]_vars
  PROVE  [Told!Next]_Told!vars
<1>0. TypeOK
  BY DEF IInv
<1>1. ASSUME NEW t \in Thread, ~Announcing(t), ~Announcing(t)',
             \A s \in Thread : s # t => req'[s] = req[s],
             UNCHANGED <<users, comments, notifications, lastId, silent>>
      PROVE  UNCHANGED Told!vars
  BY <1>1, OpenIdsAfter, Unseen
<1>2. ASSUME NEW t \in Thread, NEW u \in User, NEW b \in Board, Create(t, u, b)
      PROVE  UNCHANGED Told!vars
  BY <1>0, <1>1, <1>2 DEF Create, Announcing, Idle, TypeOK
<1>3. ASSUME NEW t \in Thread, SelectUsers(t) PROVE UNCHANGED Told!vars
  <2>1. /\ Announcing(t) /\ Announcing(t)' /\ req'[t].row = req[t].row
        /\ \A s \in Thread : s # t => req'[s] = req[s]
        /\ UNCHANGED <<users, comments, notifications, lastId, silent>>
    BY <1>0, <1>3, SelectRequest DEF SelectUsers, Announcing
  <2>2. QED
    BY <2>1, OpenIdsAfter, Unseen
<1>4. ASSUME NEW t \in Thread, NEW c \in comments, NEW by \in {"author", "admin"},
             DestroyComment(t, c, by)
      PROVE  UNCHANGED Told!vars
  BY <1>0, <1>1, <1>4 DEF DestroyComment, Announcing, Idle, TypeOK
<1>5. ASSUME NEW t \in Thread, DeleteComment(t) PROVE Told!Next
  <2>1. ~Announcing(t) /\ ~Announcing(t)' /\ \A s \in Thread : s # t => req'[s] = req[s]
    BY <1>0, <1>5, DeleteRequest DEF Announcing, Idle
  <2>2. QED
    BY <1>5, <2>1, WithdrawStep DEF DeleteComment
<1>6. ASSUME NEW t \in Thread, CollectNotices(t) PROVE UNCHANGED Told!vars
  BY <1>0, <1>1, <1>6, CollectRequest DEF CollectNotices, Announcing
<1>7. ASSUME NEW t \in Thread, DeleteNotice(t) PROVE Told!Next
  <2>1. /\ req[t].pc = "delete"
        /\ \A s \in Thread : s # t => req'[s] = req[s]
        /\ UNCHANGED <<users, comments, lastId, silent>>
    BY <1>0, <1>7, DeleteNoticeRequest DEF DeleteNotice
  <2>2. \/ req'[t] = Idle /\ notifications' = notifications
        \/ \E n \in req[t].notes :
             notifications' = notifications \ {n} /\ req'[t].pc = "delete"
    BY <1>0, <1>7, DeleteNoticeRequest
  <2>3. /\ \A c \in comments : c.id # req[t].row.id
        /\ \A n \in req[t].notes : n.board_comment = req[t].row.id
    BY <2>1 DEF IInv, DeletesInOrder
  <2>4. /\ notifications' \subseteq notifications
        /\ \A n \in notifications \ notifications', c \in comments' : n.board_comment # c.id
    BY <2>1, <2>2, <2>3
  <2>5. ~Announcing(t) /\ ~Announcing(t)'
    BY <2>1, <2>2 DEF Announcing, Idle
  <2>6. QED
    BY <2>1, <2>4, <2>5, WithdrawStep
<1>8. ASSUME NEW t \in Thread, NEW b \in Board, DestroyBoard(t, b) PROVE UNCHANGED Told!vars
  BY <1>0, <1>1, <1>8 DEF DestroyBoard, Announcing, Idle, TypeOK
<1>9. ASSUME NEW t \in Thread, CommitDestroyBoard(t) PROVE Told!Next
  <2>1. ~Announcing(t) /\ ~Announcing(t)' /\ \A s \in Thread : s # t => req'[s] = req[s]
    BY <1>0, <1>9 DEF CommitDestroyBoard, Announcing, Idle, TypeOK
  <2>2. QED
    BY <1>9, <2>1, WithdrawStep DEF CommitDestroyBoard
<1>10. ASSUME NEW t \in Thread, NEW u \in User, DestroyAccount(t, u) PROVE UNCHANGED Told!vars
  BY <1>0, <1>1, <1>10 DEF DestroyAccount, Announcing, Idle, TypeOK
<1>11. ASSUME NEW t \in Thread, CommitDestroyAccount(t) PROVE Told!Next
  <2>1. ~Announcing(t) /\ ~Announcing(t)' /\ \A s \in Thread : s # t => req'[s] = req[s]
    BY <1>0, <1>11 DEF CommitDestroyAccount, Announcing, Idle, TypeOK
  <2>2. /\ users' = users \ {req[t].user}
        /\ comments' = comments \ req[t].rows
        /\ notifications' = notifications \ req[t].notes
        /\ req[t].pc = "destroy_account"
        /\ UNCHANGED <<lastId, silent>>
    BY <1>11 DEF CommitDestroyAccount
  <2>3. \A n \in notifications \ notifications', c \in comments' :
          n.board_comment = c.id => n.visited \notin users'
    BY <2>2 DEF IInv, DeletesInOrder
  <2>4. QED
    BY <2>1, <2>2, <2>3, WithdrawStep
<1>12. ASSUME UNCHANGED <<users, comments, notifications, lastId, silent, req>>
       PROVE  UNCHANGED Told!vars
  BY <1>12, Unseen DEF OpenIds, Announcing
<1>13. ASSUME NEW b \in Board, CreateBoard(b) PROVE UNCHANGED Told!vars
  BY <1>12, <1>13 DEF CreateBoard
<1>14. CASE UNCHANGED vars
  BY <1>12, <1>14 DEF vars
<1>15. QED
  BY <1>2, <1>3, <1>4, <1>5, <1>6, <1>7, <1>8, <1>9, <1>10, <1>11, <1>13, <1>14,
     WriteStep, TellOneStep, TellLastStep, CutShortStep DEF Next

\* Although comments and their notifications go in separate transactions, the fan-out of
\* board_comment.rb:6-25 does what Announcements says and nothing else.
THEOREM AnswersAreAnnounced == Spec => ImplementsAnnouncements
<1>1. Init => IdsInOrder /\ Told!Init
  BY DEF Init, IdsInOrder, Announcing, Idle, Told!Init, StandingComments, Receipts, Promised,
         OpenIds
<1>2. IInv /\ IInv' /\ IdsInOrder /\ [Next]_vars => IdsInOrder' /\ [Told!Next]_Told!vars
  BY IdsStayInOrder, StepsAreAnnounced
<1>3. QED
  BY <1>1, <1>2, Initially, Inductive, PTL DEF Spec, ImplementsAnnouncements, Told!Spec
=============================================================================
