---------------------------- MODULE BoardComments ----------------------------
(***************************************************************************)
(* Answers on the question boards and the notifications they fan out       *)
(* (public/board_comments_controller.rb, admin/board_comments_controller.rb*)
(* boards_controller.rb, board.rb, board_comment.rb).  Unlike those about  *)
(* posts, these notifications refer to the comment alone, and the model of *)
(* the comment declares no notifications to destroy.                       *)
(***************************************************************************)
EXTENDS Naturals, FiniteSets

CONSTANTS User,        \* accounts
          Board,       \* ids that table boards may hand out
          Owner,       \* Owner[b] is boards.user_id of b
          Thread,      \* the Puma threads that serve requests
          MaxComment,  \* bound: how many comments are ever written
          Leaver       \* bound: the accounts that may be deleted

ASSUME BoardCommentsAssumption ==
  /\ Owner \in [Board -> User]
  /\ MaxComment \in Nat
  /\ IsFiniteSet(Thread)

VARIABLES users,          \* ids of the rows of table users
          boards,         \* boards[b]: whether table boards has a row with id b
          comments,       \* rows of table board_comments
          notifications,  \* rows of table notifications with action 'board_comment'
          lastId,         \* the last id that table board_comments handed out
          req,            \* req[t] is the request that thread t serves
          silent,         \* history: comments whose fan-out was cut short
          leaked,         \* history: comments that may go without their notifications
          contended       \* history: accounts deleted while a comment of theirs was on its way

vars == <<users, boards, comments, notifications, lastId, req, silent, leaked, contended>>

-----------------------------------------------------------------------------
Comment == [id : Nat, user : User, board : Board]
Notification == [board_comment : Nat, visitor : User, visited : User,
                 via : {"commenter", "owner"}]

Idle == [pc |-> "idle"]
Creating == [pc : {"insert", "select", "notify"}, row : Comment, todo : SUBSET User]
Destroying == [pc : {"destroy", "collect", "delete"}, by : {"author", "admin"},
               row : Comment, notes : SUBSET Notification]
DestroyingAccount == [pc : {"destroy_account"}, user : User, boards : SUBSET Board,
                      rows : SUBSET Comment, notes : SUBSET Notification]
DestroyingBoard == [pc : {"destroy_board"}, board : Board, rows : SUBSET Comment]

TypeOK ==
  /\ users \subseteq User
  /\ boards \in [Board -> {"unborn", "open", "gone"}]   \* an id is handed out once
  /\ comments \subseteq Comment
  /\ notifications \subseteq Notification
  /\ lastId \in Nat
  /\ req \in [Thread -> {Idle} \cup Creating \cup Destroying \cup DestroyingBoard
                              \cup DestroyingAccount]
  /\ silent \subseteq Nat
  /\ leaked \subseteq Nat
  /\ contended \subseteq User

Init ==
  /\ users = User
  /\ boards = [b \in Board |-> "unborn"]
  /\ comments = {}
  /\ notifications = {}
  /\ lastId = 0
  /\ req = [t \in Thread |-> Idle]
  /\ silent = {}
  /\ leaked = {}
  /\ contended = {}

-----------------------------------------------------------------------------
\* POST /boards, in one step.  An update changes the texts alone: its user_id is the owner's.
CreateBoard(b) ==
  /\ boards[b] = "unborn"
  /\ boards' = [boards EXCEPT ![b] = "open"]
  /\ UNCHANGED <<users, comments, notifications, lastId, req, silent, leaked, contended>>

\* t has a comment by u to save or to announce; t is about to delete the account u.
Speaking(t, u) == req[t].pc \in {"insert", "select", "notify"} /\ req[t].row.user = u
Closing(t, u) == req[t].pc = "destroy_account" /\ req[t].user = u

\* What counts against the bound: comments written and comments promised.
Written == lastId + Cardinality({t \in Thread : req[t].pc = "insert"})

\* The account is signed in, Board.find and the validations of @board_comment.save succeed.
Create(t, u, b) ==
  /\ req[t] = Idle
  /\ u \in users
  /\ boards[b] = "open"
  /\ Written < MaxComment
  /\ req' = [req EXCEPT ![t] = [pc |-> "insert", todo |-> {},
                                row |-> [id |-> 0, user |-> u, board |-> b]]]
  /\ contended' = contended \cup {v \in {u} : \E s \in Thread : Closing(s, v)}
  /\ UNCHANGED <<users, boards, comments, notifications, lastId, silent, leaked>>

\* The INSERT; no foreign key guards board_comments.board_id.
Insert(t) ==
  /\ req[t].pc = "insert"
  /\ lastId' = lastId + 1
  /\ req' = [req EXCEPT ![t].pc = "select", ![t].row.id = lastId']
  /\ comments' = comments \cup {req'[t].row}
  /\ UNCHANGED <<users, boards, notifications, silent, leaked, contended>>

\* Mutated: without .where.not(id: board.user_id), the owner is in the loop as well.
CommentUsersWithOwner(row) ==
  ({c.user : c \in {d \in comments : d.board = row.board}} \cap users) \ {row.user}

\* board_comment_users joins the accounts of whoever else has commented, without the author
\* and the owner.
CommentUsers(row) ==
  ({c.user : c \in {d \in comments : d.board = row.board}} \cap users)
    \ {row.user, Owner[row.board]}

SelectUsers(t) ==
  /\ req[t].pc = "select"
  /\ req' = [req EXCEPT ![t].pc = "notify", ![t].todo = CommentUsers(req[t].row)]
  /\ UNCHANGED <<users, boards, comments, notifications, lastId, silent, leaked, contended>>

\* Mutated: the id of the board goes where the id of the comment belongs.
NewNotificationOfBoard(row, visited, via) ==
  [board_comment |-> row.board, visitor |-> row.user, visited |-> visited, via |-> via]

\* board_id stays null.  checked, set for the author's own, is left out.
NewNotification(row, visited, via) ==
  [board_comment |-> row.id, visitor |-> row.user, visited |-> visited, via |-> via]

NotifyUser(t) ==
  /\ req[t].pc = "notify"
  /\ \E u \in req[t].todo :
       /\ notifications' = notifications \cup {NewNotification(req[t].row, u, "commenter")}
       /\ req' = [req EXCEPT ![t].todo = @ \ {u}]
  /\ UNCHANGED <<users, boards, comments, lastId, silent, leaked, contended>>

NotifyOwner(t) ==
  /\ req[t].pc = "notify"
  /\ req[t].todo = {}
  /\ LET row == req[t].row
     IN  notifications' = notifications \cup {NewNotification(row, Owner[row.board], "owner")}
  /\ req' = [req EXCEPT ![t] = Idle]
  /\ UNCHANGED <<users, boards, comments, lastId, silent, leaked, contended>>

-----------------------------------------------------------------------------
\* DELETE of a comment by its author or by the admin: the find ...
DestroyComment(t, c, by) ==
  /\ req[t] = Idle
  /\ c \in comments
  /\ boards[c.board] = "open"
  /\ req' = [req EXCEPT ![t] = [pc |-> "destroy", by |-> by, row |-> c, notes |-> {}]]
  /\ UNCHANGED <<users, boards, comments, notifications, lastId, silent, leaked, contended>>

\* The request that wrote comment id has not told everyone yet.
FanningOut(id) == \E t \in Thread : req[t].pc \in {"select", "notify"} /\ req[t].row.id = id

\* Mutated: the public controller without line 18, like the admin's.
DeleteCommentOnly(t) ==
  /\ req[t].pc = "destroy"
  /\ comments' = comments \ {req[t].row}
  /\ req' = [req EXCEPT ![t] = Idle]
  /\ leaked' = IF req[t].by = "admin" \/ FanningOut(req[t].row.id)
               THEN leaked \cup {req[t].row.id} ELSE leaked
  /\ UNCHANGED <<users, boards, notifications, lastId, silent, contended>>

\* ... the destroy, which is all that the admin's controller does ...
DeleteComment(t) ==
  /\ req[t].pc = "destroy"
  /\ comments' = comments \ {req[t].row}
  /\ req' = [req EXCEPT ![t] = IF @.by = "admin" THEN Idle ELSE [@ EXCEPT !.pc = "collect"]]
  /\ leaked' = IF req[t].by = "admin" \/ FanningOut(req[t].row.id)
               THEN leaked \cup {req[t].row.id} ELSE leaked
  /\ UNCHANGED <<users, boards, notifications, lastId, silent, contended>>

\* Mutated: the notifications about all comments on the same board.
CollectNoticesOfBoard(t) ==
  /\ req[t].pc = "collect"
  /\ req' = [req EXCEPT ![t].pc = "delete",
               ![t].notes = {n \in notifications :
                  n.board_comment = req[t].row.id
                    \/ \E c \in comments : c.id = n.board_comment /\ c.board = req[t].row.board}]
  /\ UNCHANGED <<users, boards, comments, notifications, lastId, silent, leaked, contended>>

\* ... and the public one's Notification.where(board_comment_id: id).destroy_all: one
\* SELECT, then a transaction for each row.
CollectNotices(t) ==
  /\ req[t].pc = "collect"
  /\ req' = [req EXCEPT ![t].pc = "delete",
               ![t].notes = {n \in notifications : n.board_comment = req[t].row.id}]
  /\ UNCHANGED <<users, boards, comments, notifications, lastId, silent, leaked, contended>>

DeleteNotice(t) ==
  /\ req[t].pc = "delete"
  /\ IF req[t].notes = {}
     THEN /\ req' = [req EXCEPT ![t] = Idle]
          /\ UNCHANGED notifications
     ELSE \E n \in req[t].notes :
            /\ notifications' = notifications \ {n}
            /\ req' = [req EXCEPT ![t].notes = @ \ {n}]
  /\ UNCHANGED <<users, boards, comments, lastId, silent, leaked, contended>>

\* The destroy of a board takes its comments along; the notifications that board.rb:6
\* means to destroy are found by board_id, and there are none.
DestroyBoard(t, b) ==
  /\ req[t] = Idle
  /\ boards[b] = "open"
  /\ req' = [req EXCEPT ![t] = [pc |-> "destroy_board", board |-> b,
                                rows |-> {c \in comments : c.board = b}]]
  /\ UNCHANGED <<users, boards, comments, notifications, lastId, silent, leaked, contended>>

CommitDestroyBoard(t) ==
  /\ req[t].pc = "destroy_board"
  /\ boards' = [boards EXCEPT ![req[t].board] = "gone"]
  /\ comments' = comments \ req[t].rows
  /\ leaked' = leaked \cup {c.id : c \in req[t].rows}
  /\ req' = [req EXCEPT ![t] = Idle]
  /\ UNCHANGED <<users, notifications, lastId, silent, contended>>

\* DELETE /users: the cascade of user.rb:11-14 reads the notifications from u and to u, the
\* boards of u with all comments on them, and the comments of u elsewhere ...
DestroyAccount(t, u) ==
  /\ req[t] = Idle
  /\ u \in users \cap Leaver
  /\ LET bs == {b \in Board : boards[b] = "open" /\ Owner[b] = u}
     IN  req' = [req EXCEPT ![t] =
           [pc |-> "destroy_account", user |-> u, boards |-> bs,
            rows |-> {c \in comments : c.user = u \/ c.board \in bs},
            notes |-> {n \in notifications : u \in {n.visitor, n.visited}}]]
  /\ contended' = contended \cup {v \in {u} : \E s \in Thread : Speaking(s, v)}
  /\ UNCHANGED <<users, boards, comments, notifications, lastId, silent, leaked>>

\* ... and deletes them.  What others have said on the boards goes without its notifications.
CommitDestroyAccount(t) ==
  /\ req[t].pc = "destroy_account"
  /\ users' = users \ {req[t].user}
  /\ boards' = [b \in Board |-> IF b \in req[t].boards THEN "gone" ELSE boards[b]]
  /\ comments' = comments \ req[t].rows
  /\ notifications' = notifications \ req[t].notes
  /\ leaked' = leaked \cup {c.id : c \in {d \in req[t].rows : d.user # req[t].user}}
  /\ req' = [req EXCEPT ![t] = Idle]
  /\ UNCHANGED <<lastId, silent, contended>>

\* The request ends early: the deploy job kills Puma, or a statement raises.
Abort(t) ==
  /\ req[t] # Idle
  /\ req' = [req EXCEPT ![t] = Idle]
  /\ silent' = IF req[t].pc \in {"select", "notify"} THEN silent \cup {req[t].row.id} ELSE silent
  /\ leaked' = IF req[t].pc \in {"collect", "delete"} THEN leaked \cup {req[t].row.id} ELSE leaked
  /\ UNCHANGED <<users, boards, comments, notifications, lastId, contended>>

-----------------------------------------------------------------------------
Next ==
  \/ \E b \in Board : CreateBoard(b)
  \/ \E t \in Thread :
       \/ \E u \in User, b \in Board : Create(t, u, b)
       \/ Insert(t) \/ SelectUsers(t) \/ NotifyUser(t) \/ NotifyOwner(t)
       \/ \E c \in comments, by \in {"author", "admin"} : DestroyComment(t, c, by)
       \/ DeleteComment(t) \/ CollectNotices(t) \/ DeleteNotice(t)
       \/ \E b \in Board : DestroyBoard(t, b)
       \/ CommitDestroyBoard(t)
       \/ \E u \in User : DestroyAccount(t, u)
       \/ CommitDestroyAccount(t)
       \/ Abort(t)

Spec == Init /\ [][Next]_vars

-----------------------------------------------------------------------------
\* A comment sends nobody two notifications, whatever else is written and deleted.
OneNotificationPerComment ==
  \A m, n \in notifications :
    m.board_comment = n.board_comment /\ m.visited = n.visited => m = n

FannedOut(c) == c.id \notin silent /\ ~FanningOut(c.id)

Received(u, c) == \E n \in notifications : n.board_comment = c.id /\ n.visited = u

\* u owns the board of c, or has an earlier comment on it that still stands.
HasClaim(u, c) ==
  \/ u = Owner[c.board]
  \/ /\ u # c.user
     /\ \E d \in comments : d.board = c.board /\ d.user = u /\ d.id < c.id

\* Once a comment's request has run to its end, the owner of the board and everyone with
\* an earlier comment that still stands has its notification, as long as the account is
\* there (board_comment.rb:6-13).
FanOutReachesAll ==
  \A c \in comments : FannedOut(c) =>
    \A u \in users : HasClaim(u, c) => Received(u, c)

\* When the author deletes a comment its notifications go too, and those from an account go
\* with it: what refers to a comment or a visitor that is gone was left by the admin, by the
\* destroy of a board, by a request that was cut short, or by a fan-out that met the
\* delete (board_comments_controller.rb:15-19, user.rb:11).
OnlyKnownLeaks ==
  \A n \in notifications :
    \/ (\E c \in comments : c.id = n.board_comment) /\ n.visitor \in users
    \/ n.board_comment \in leaked \/ n.visitor \in contended
    \/ \E t \in Thread : req[t].pc \in {"collect", "delete"} /\ req[t].row.id = n.board_comment

\* board.rb:6 destroys the notifications together with the board: none is left about a
\* comment of a board that has just gone, for the inbox to stumble over
\* (_notification.html.erb:29 reads notification.board_comment.board).
BoardTakesItsNotices ==
  [][\A c \in comments, n \in notifications' :
       boards[c.board] # boards'[c.board] => n.board_comment # c.id]_vars

-----------------------------------------------------------------------------
(***************************************************************************)
(* The refinement: a request that selects or notifies is an announcement   *)
(* under way.                                                              *)
(***************************************************************************)
Announcing(t) == req[t].pc \in {"select", "notify"}
OpenIds == {req[t].row.id : t \in {s \in Thread : Announcing(s)}}
StandingComments == {[id |-> c.id, user |-> c.user, place |-> c.board] : c \in comments}
Receipts == {[about |-> n.board_comment, to |-> n.visited, via |-> n.via] : n \in notifications}

Promised == (1..lastId) \ (silent \cup OpenIds)

Told == INSTANCE Announcements
  WITH Place <- Board, members <- users, standing <- StandingComments, last <- lastId,
       open <- OpenIds, promised <- Promised, receipts <- Receipts

\* Although comments and their notifications go in separate transactions, a comment is
\* announced as Announcements has it (board_comment.rb:6-25).
ImplementsAnnouncements == Told!Spec
=============================================================================
