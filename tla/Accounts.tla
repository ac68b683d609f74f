------------------------------ MODULE Accounts ------------------------------
(***************************************************************************)
(* Accounts: sign-up, guest sign-in, sign-in with Twitter, profiles, and   *)
(* the deletion of an account with the follows and notifications that tie  *)
(* it to others (user.rb, sessions_controller.rb, omniauth_callbacks_      *)
(* controller.rb, the two users_controller.rb, relationships_controller.rb *)
(* and Devise's registrations).  Requests run in the threads of the Puma   *)
(* pool; a step is one statement or one transaction.                       *)
(***************************************************************************)
EXTENDS Naturals, FiniteSets

CONSTANTS Uid,        \* Twitter identities
          Email,      \* addresses people sign up with
          Thread,     \* the Puma threads that serve requests
          MaxUser,    \* bound: how many accounts are ever made
          MaxTie,     \* bound: how many rows are ever inserted into ties
          MaxSecond   \* bound: the last second at which dummy_email reads the clock

ASSUME AccountsAssumption ==
  /\ "none" \notin Uid
  /\ MaxUser \in Nat /\ MaxTie \in Nat /\ MaxSecond \in Nat

VARIABLES users,      \* rows of table users
          ties,       \* rows of the other tables that name accounts
          lastUser,   \* the last id that table users handed out
          lastTie,    \* how many rows have been inserted into ties
          req,        \* req[t] is the request that thread t serves
          contended,  \* history: accounts deleted while a tie to them was being made
          doubled     \* history: identities that have signed in twice at once

vars == <<users, ties, lastUser, lastTie, req, contended, doubled>>

-----------------------------------------------------------------------------
\* An address is somebody's, the guest's, or that of dummy_email: the identity and the time.
Address == [of : Email \cup {"guest"} \cup Uid, second : Nat]
Mail(e) == [of |-> e, second |-> 0]

\* born stands for the column image, which is set once: guest_sign_in looks for it.
\* uid is "none" but for accounts made by find_for_oauth.
User == [id : Nat, email : Address, user_name : {"guest_user", "other"},
         born : {"guest", "form", "twitter"}, uid : Uid \cup {"none"}]

\* A follow or a notification of account from to account to, or what an account has of its
\* own, from itself to itself: a post, a board or a comment, by which others notify it.
Tie == [no : Nat, kind : {"follow", "notice", "own"}, from : Nat, to : Nat]

Idle == [pc |-> "idle"]
SigningIn == [pc : {"create_guest"}] \cup [pc : {"create_oauth"}, uid : Uid]
Tying == [pc : {"tie", "unfollow"}, row : Tie]
Destroying == [pc : {"destroy"}, id : Nat, doomed : SUBSET Tie]

TypeOK ==
  /\ users \subseteq User
  /\ ties \subseteq Tie
  /\ lastUser \in Nat
  /\ lastTie \in Nat
  /\ req \in [Thread -> {Idle} \cup SigningIn \cup Tying \cup Destroying]
  /\ contended \subseteq Nat
  /\ doubled \subseteq Uid

Init ==
  /\ users = {}
  /\ ties = {}
  /\ lastUser = 0
  /\ lastTie = 0
  /\ req = [t \in Thread |-> Idle]
  /\ contended = {}
  /\ doubled = {}

Ids == {u.id : u \in users}
Taken(email) == \E u \in users : u.email = email

\* The bound MaxUser counts the accounts under way.
RoomForOne ==
  lastUser + Cardinality({t \in Thread : req[t].pc \in {"create_guest", "create_oauth"}}) < MaxUser

\* The request makes a tie with account id, or is about to delete that account.
TyingTo(t, id) == req[t].pc = "tie" /\ id \in {req[t].row.from, req[t].row.to}
Deleting(t, id) == req[t].pc = "destroy" /\ req[t].id = id

-----------------------------------------------------------------------------
(***************************************************************************)
(* Making accounts.  users.email is validated and has a unique index.      *)
(***************************************************************************)

Account(email, name, born, uid) ==
  [id |-> lastUser + 1, email |-> email, user_name |-> name, born |-> born, uid |-> uid]

\* Mutated: neither the validation nor the unique index of users.email.
InsertUnchecked(t, user) ==
  /\ lastUser' = lastUser + 1
  /\ users' = users \cup {user}
  /\ req' = [req EXCEPT ![t] = Idle]
  /\ UNCHANGED <<ties, lastTie, contended, doubled>>

\* Thread t inserts an account, or raises because the address is taken.
Insert(t, user) ==
  /\ IF Taken(user.email)
     THEN UNCHANGED <<users, lastUser>>
     ELSE lastUser' = lastUser + 1 /\ users' = users \cup {user}
  /\ req' = [req EXCEPT ![t] = Idle]
  /\ UNCHANGED <<ties, lastTie, contended, doubled>>

\* POST /users, in one step: the form of Devise; Replace may rename the account.
SignUp(t, email) ==
  /\ req[t] = Idle
  /\ RoomForOne
  /\ Insert(t, Account(email, "other", "form", "none"))

\* guest_sign_in finds no account with all of the guest's e-mail, name and image.
FindGuest(t) ==
  /\ req[t] = Idle
  /\ RoomForOne
  /\ ~\E u \in users : u.email = Mail("guest") /\ u.user_name = "guest_user" /\ u.born = "guest"
  /\ req' = [req EXCEPT ![t] = [pc |-> "create_guest"]]
  /\ UNCHANGED <<users, ties, lastUser, lastTie, contended, doubled>>

CreateGuest(t) ==
  /\ req[t].pc = "create_guest"
  /\ Insert(t, Account(Mail("guest"), "guest_user", "guest", "none"))

\* Mutated: User.create! without find_by.
FindForOauthNever(t, x) ==
  /\ req[t] = Idle
  /\ RoomForOne
  /\ req' = [req EXCEPT ![t] = [pc |-> "create_oauth", uid |-> x]]
  /\ doubled' = IF \E s \in Thread : req[s].pc = "create_oauth" /\ req[s].uid = x
                THEN doubled \cup {x} ELSE doubled
  /\ UNCHANGED <<users, ties, lastUser, lastTie, contended>>

\* find_for_oauth finds no account with the uid; nothing keeps uids unique.
FindForOauth(t, x) ==
  /\ req[t] = Idle
  /\ RoomForOne
  /\ ~\E u \in users : u.uid = x
  /\ req' = [req EXCEPT ![t] = [pc |-> "create_oauth", uid |-> x]]
  /\ doubled' = IF \E s \in Thread : req[s].pc = "create_oauth" /\ req[s].uid = x
                THEN doubled \cup {x} ELSE doubled
  /\ UNCHANGED <<users, ties, lastUser, lastTie, contended>>

\* Mutated: uid and user_name change places.
CreateOauthSwapped(t, second) ==
  /\ req[t].pc = "create_oauth"
  /\ Insert(t, Account([of |-> req[t].uid, second |-> second], req[t].uid, "twitter", "none"))

CreateOauth(t, second) ==
  /\ req[t].pc = "create_oauth"
  /\ Insert(t, Account([of |-> req[t].uid, second |-> second], "other", "twitter", req[t].uid))

\* The UPDATE of a profile.
Replace(u, email, name) ==
  /\ email # u.email => ~Taken(email)
  /\ users' = (users \ {u}) \cup {[u EXCEPT !.user_name = name, !.email = email]}
  /\ UNCHANGED <<ties, lastUser, lastTie, req, contended, doubled>>

\* PATCH /users/:id, in one step: one's own name.
Rename(u, name) == Replace(u, u.email, name)

\* PATCH /admin/users/:id, in one step: the name and the address of anyone.
AdminUpdate(u, e, name) == Replace(u, Mail(e), name)

-----------------------------------------------------------------------------
(***************************************************************************)
(* Follows, notifications, and what they are about                         *)
(***************************************************************************)

\* Whom a request of u may tie u to: the presence checks of belongs_to (relationship.rb:2-3)
\* come before its INSERT, but the account to notify is known by its id only, from its post,
\* board or comment, and is never looked up (post.rb:79-88, :96-116, notification.rb:8).
Reach(kind, u) ==
  CASE kind = "follow" -> Ids
    [] kind = "notice" -> Ids \cup {k.to : k \in {j \in ties : j.kind = "own"}}
    [] kind = "own" -> {u}

\* u follows v, does something that notifies v, or saves something of its own.
Begin(t, kind, u, v) ==
  /\ req[t] = Idle
  /\ u \in Ids
  /\ v \in Reach(kind, u)
  /\ lastTie + Cardinality({s \in Thread : req[s].pc = "tie"}) < MaxTie
  /\ req' = [req EXCEPT ![t] =
       [pc |-> "tie", row |-> [no |-> 0, kind |-> kind, from |-> u, to |-> v]]]
  /\ contended' = contended \cup {id \in {u, v} : \E s \in Thread : Deleting(s, id)}
  /\ UNCHANGED <<users, ties, lastUser, lastTie, doubled>>

\* The INSERT, whatever has become of the accounts.  Nothing keeps a second follow away.
InsertTie(t) ==
  /\ req[t].pc = "tie"
  /\ lastTie' = lastTie + 1
  /\ ties' = ties \cup {[req[t].row EXCEPT !.no = lastTie + 1]}
  /\ req' = [req EXCEPT ![t] = Idle]
  /\ UNCHANGED <<users, lastUser, contended, doubled>>

\* unfollow finds one row; without one it raises on nil.  So does who destroys something.
Unfollow(t, k) ==
  /\ req[t] = Idle
  /\ k \in ties
  /\ k.kind # "notice"
  /\ req' = [req EXCEPT ![t] = [pc |-> "unfollow", row |-> k]]
  /\ UNCHANGED <<users, ties, lastUser, lastTie, contended, doubled>>

DeleteFollow(t) ==
  /\ req[t].pc = "unfollow"
  /\ ties' = ties \ {req[t].row}
  /\ req' = [req EXCEPT ![t] = Idle]
  /\ UNCHANGED <<users, lastUser, lastTie, contended, doubled>>

-----------------------------------------------------------------------------
\* Mutated: user.rb without reverse_of_relationships and passive_notifications.
TiesFrom(id) == {k \in ties : k.from = id}

\* What dependent: :destroy finds at an account, in both directions.
TiesOf(id) == {k \in ties : id \in {k.from, k.to}}

\* DELETE /users of Devise: the reads of the transaction ...
DestroyAccount(t, id) ==
  /\ req[t] = Idle
  /\ id \in Ids
  /\ req' = [req EXCEPT ![t] = [pc |-> "destroy", id |-> id, doomed |-> TiesOf(id)]]
  /\ contended' = IF \E s \in Thread : TyingTo(s, id) THEN contended \cup {id} ELSE contended
  /\ UNCHANGED <<users, ties, lastUser, lastTie, doubled>>

\* ... and its deletes.
CommitDestroyAccount(t) ==
  /\ req[t].pc = "destroy"
  /\ users' = {u \in users : u.id # req[t].id}
  /\ ties' = ties \ req[t].doomed
  /\ req' = [req EXCEPT ![t] = Idle]
  /\ UNCHANGED <<lastUser, lastTie, contended, doubled>>

\* The request ends early: the deploy job kills Puma, or a statement raises.
Abort(t) ==
  /\ req[t] # Idle
  /\ req' = [req EXCEPT ![t] = Idle]
  /\ UNCHANGED <<users, ties, lastUser, lastTie, contended, doubled>>

-----------------------------------------------------------------------------
Next ==
  \/ \E u \in users, name \in {"guest_user", "other"} :
       Rename(u, name) \/ \E e \in Email \cup {"guest"} : AdminUpdate(u, e, name)
  \/ \E t \in Thread :
       \/ \E e \in Email \cup {"guest"} : SignUp(t, Mail(e))
       \/ FindGuest(t) \/ CreateGuest(t)
       \/ \E x \in Uid : FindForOauth(t, x)
       \/ \E second \in 0..MaxSecond : CreateOauth(t, second)
       \/ \E u, v \in 1..lastUser, kind \in {"follow", "notice", "own"} : Begin(t, kind, u, v)
       \/ InsertTie(t)
       \/ \E k \in ties : Unfollow(t, k)
       \/ DeleteFollow(t)
       \/ \E id \in Ids : DestroyAccount(t, id)
       \/ CommitDestroyAccount(t)
       \/ Abort(t)

Spec == Init /\ [][Next]_vars

-----------------------------------------------------------------------------
\* No address has two accounts, whoever signs up, is renamed or is made a guest meanwhile:
\* in particular two guest sign-ins at once (sessions_controller.rb:7) make one guest.
EmailsUnique == \A u, v \in users : u.email = v.email => u = v

\* user.rb:29-30 finds the account of an identity before it makes one: an identity that
\* has not signed in twice at once has a single account.
OneAccountPerPerson ==
  \A u, v \in users : u.uid = v.uid /\ u.uid \in Uid \ doubled => u = v

\* user.rb:8-18: a deleted account leaves neither a follow nor a notification of its own or to
\* it, nor anything else that was its own, unless one was on its way while the account was
\* deleted.  A notification that comes later, by what an earlier race has left behind, counts
\* as such a race too.
TiesEndAtAccounts ==
  \A k \in ties : {k.from, k.to} \subseteq Ids \cup contended
=============================================================================
