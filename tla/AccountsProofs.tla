--------------------------- MODULE AccountsProofs ---------------------------
(***************************************************************************)
(* Theorems about Accounts, for any identities, addresses and threads.     *)
(***************************************************************************)
EXTENDS Accounts, TLAPS

LEMMA RequestKinds ==
  ASSUME TypeOK, NEW t \in Thread
  PROVE  /\ req[t].pc = "create_oauth" => req[t].uid \in Uid
         /\ req[t].pc \in {"tie", "unfollow"} => req[t] \in Tying /\ req[t].row \in Tie
         /\ req[t].pc = "destroy" =>
              req[t] \in Destroying /\ req[t].id \in Nat /\ req[t].doomed \subseteq Tie
<1>1. req[t] \in {Idle} \cup SigningIn \cup Tying \cup Destroying
  BY DEF TypeOK
<1>2. CASE req[t] = Idle
  BY <1>2 DEF Idle
<1>3. CASE req[t] \in SigningIn
  BY <1>3 DEF SigningIn
<1>4. CASE req[t] \in Tying
  BY <1>4 DEF Tying
<1>5. CASE req[t] \in Destroying
  BY <1>5 DEF Destroying
<1>6. QED
  BY <1>1, <1>2, <1>3, <1>4, <1>5

LEMMA GuestMail == \A e \in Email \cup {"guest"} : Mail(e) \in Address
  BY DEF Mail, Address

\* An account of a well-typed form is a row of users.
LEMMA AccountType ==
  ASSUME TypeOK, NEW email \in Address, NEW name \in {"guest_user", "other"},
         NEW born \in {"guest", "form", "twitter"}, NEW uid \in Uid \cup {"none"}
  PROVE  Account(email, name, born, uid) \in User
  BY DEF Account, User, TypeOK

LEMMA InsertType ==
  ASSUME TypeOK, NEW t \in Thread, NEW user \in User, Insert(t, user)
  PROVE  TypeOK'
  BY DEF TypeOK, Insert

LEMMA ReplaceType ==
  ASSUME TypeOK, NEW u \in users, NEW email \in Address,
         NEW name \in {"guest_user", "other"}, Replace(u, email, name)
  PROVE  TypeOK'
<1>1. [u EXCEPT !.user_name = name, !.email = email] \in User
  BY DEF TypeOK, User
<1>2. QED
  BY <1>1 DEF TypeOK, Replace

LEMMA IdsAreNumbers == TypeOK => Ids \subseteq Nat
  BY DEF TypeOK, Ids, User

LEMMA TypeInvariant == TypeOK /\ [Next]_vars => TypeOK'
<1> SUFFICES ASSUME TypeOK, [Next]_vars PROVE TypeOK'
  OBVIOUS
<1>1. ASSUME NEW u \in users, NEW name \in {"guest_user", "other"}, Rename(u, name)
      PROVE  TypeOK'
  <2>1. u.email \in Address
    BY DEF TypeOK, User
  <2>2. QED
    BY <1>1, <2>1, ReplaceType DEF Rename
<1>2. ASSUME NEW u \in users, NEW name \in {"guest_user", "other"},
             NEW e \in Email \cup {"guest"}, AdminUpdate(u, e, name)
      PROVE  TypeOK'
  BY <1>2, ReplaceType, GuestMail DEF AdminUpdate
<1>3. ASSUME NEW t \in Thread, NEW e \in Email \cup {"guest"}, SignUp(t, Mail(e)) PROVE TypeOK'
  BY <1>3, InsertType, GuestMail, AccountType DEF SignUp
<1>4. ASSUME NEW t \in Thread, FindGuest(t) PROVE TypeOK'
  <2>1. [pc |-> "create_guest"] \in SigningIn
    BY DEF SigningIn
  <2>2. QED
    BY <1>4, <2>1 DEF FindGuest, TypeOK
<1>5. ASSUME NEW t \in Thread, CreateGuest(t) PROVE TypeOK'
  BY <1>5, InsertType, GuestMail, AccountType DEF CreateGuest
<1>6. ASSUME NEW t \in Thread, NEW x \in Uid, FindForOauth(t, x) PROVE TypeOK'
  <2>1. [pc |-> "create_oauth", uid |-> x] \in SigningIn
    BY DEF SigningIn
  <2>2. QED
    BY <1>6, <2>1 DEF FindForOauth, TypeOK
<1>7. ASSUME NEW t \in Thread, NEW second \in 0..MaxSecond, CreateOauth(t, second) PROVE TypeOK'
  <2>1. req[t].uid \in Uid
    BY <1>7, RequestKinds DEF CreateOauth
  <2>2. [of |-> req[t].uid, second |-> second] \in Address
    BY <2>1 DEF Address
  <2>3. QED
    BY <1>7, <2>1, <2>2, InsertType, AccountType DEF CreateOauth
<1>8. ASSUME NEW t \in Thread, NEW u \in 1..lastUser, NEW v \in 1..lastUser,
             NEW kind \in {"follow", "notice", "own"}, Begin(t, kind, u, v)
      PROVE  TypeOK'
  <2>0. u \in Nat /\ v \in Nat
    BY DEF TypeOK
  <2>1. [pc |-> "tie", row |-> [no |-> 0, kind |-> kind, from |-> u, to |-> v]] \in Tying
    BY <2>0 DEF Tying, Tie
  <2>2. QED
    BY <1>8, <2>0, <2>1 DEF Begin, TypeOK
<1>9. ASSUME NEW t \in Thread, InsertTie(t) PROVE TypeOK'
  <2>1. req[t].row \in Tie
    BY <1>9, RequestKinds DEF InsertTie
  <2>2. [req[t].row EXCEPT !.no = lastTie + 1] \in Tie
    BY <2>1 DEF Tie, TypeOK
  <2>3. QED
    BY <1>9, <2>2 DEF InsertTie, TypeOK
<1>10. ASSUME NEW t \in Thread, NEW k \in ties, Unfollow(t, k) PROVE TypeOK'
  <2>1. [pc |-> "unfollow", row |-> k] \in Tying
    BY DEF Tying, TypeOK
  <2>2. QED
    BY <1>10, <2>1 DEF Unfollow, TypeOK
<1>11. ASSUME NEW t \in Thread, DeleteFollow(t) PROVE TypeOK'
  BY <1>11 DEF DeleteFollow, TypeOK
<1>12. ASSUME NEW t \in Thread, NEW id \in Ids, DestroyAccount(t, id) PROVE TypeOK'
  <2>1. [pc |-> "destroy", id |-> id, doomed |-> TiesOf(id)] \in Destroying
    BY IdsAreNumbers DEF Destroying, TiesOf, TypeOK
  <2>2. QED
    BY <1>12, <2>1, IdsAreNumbers DEF DestroyAccount, TypeOK
<1>13. ASSUME NEW t \in Thread, CommitDestroyAccount(t) PROVE TypeOK'
  BY <1>13 DEF CommitDestroyAccount, TypeOK
<1>14. ASSUME NEW t \in Thread, Abort(t) PROVE TypeOK'
  BY <1>14 DEF Abort, TypeOK
<1>15. CASE UNCHANGED vars
  BY <1>15 DEF vars, TypeOK
<1>16. QED
  BY <1>1, <1>2, <1>3, <1>4, <1>5, <1>6, <1>7, <1>8, <1>9, <1>10, <1>11, <1>12, <1>13,
     <1>14, <1>15 DEF Next

\* Accounts, follows, notifications and requests always have the shape of their tables.
THEOREM TypeCorrect == Spec => []TypeOK
<1>1. Init => TypeOK
  BY DEF Init, TypeOK
<1>2. QED
  BY <1>1, TypeInvariant, PTL DEF Spec

-----------------------------------------------------------------------------
LEMMA InsertKeepsEmails ==
  ASSUME EmailsUnique, NEW t \in Thread, NEW user, Insert(t, user)
  PROVE  EmailsUnique'
  BY DEF EmailsUnique, Insert, Taken

LEMMA ReplaceKeepsEmails ==
  ASSUME EmailsUnique, TypeOK, NEW u \in users, NEW email, NEW name, Replace(u, email, name)
  PROVE  EmailsUnique'
<1> DEFINE new == [u EXCEPT !.user_name = name, !.email = email]
<1>1. new.email = email
  BY DEF TypeOK, User
<1>2. \A v \in users \ {u} : v.email # email
  BY DEF Replace, Taken, EmailsUnique
<1>3. users' = (users \ {u}) \cup {new}
  BY DEF Replace
<1> HIDE DEF new
<1>4. QED
  BY <1>1, <1>2, <1>3 DEF EmailsUnique

\* Two accounts never share an address, whatever sign-ups, guest and Twitter sign-ins and
\* edits of profiles run at once (validatable in user.rb:4 and the index of users.email).
THEOREM OneAccountPerAddress == Spec => []EmailsUnique
<1>1. Init => EmailsUnique
  BY DEF Init, EmailsUnique
<1>2. TypeOK /\ EmailsUnique /\ [Next]_vars => EmailsUnique'
  <2> SUFFICES ASSUME TypeOK, EmailsUnique, [Next]_vars PROVE EmailsUnique'
    OBVIOUS
  <2>1. ASSUME NEW u \in users, NEW name, NEW email, Replace(u, email, name) PROVE EmailsUnique'
    BY <2>1, ReplaceKeepsEmails
  <2>2. ASSUME NEW t \in Thread, NEW e, SignUp(t, Mail(e)) PROVE EmailsUnique'
    BY <2>2, InsertKeepsEmails DEF SignUp
  <2>3. ASSUME NEW t \in Thread, CreateGuest(t) PROVE EmailsUnique'
    BY <2>3, InsertKeepsEmails DEF CreateGuest
  <2>4. ASSUME NEW t \in Thread, NEW second, CreateOauth(t, second) PROVE EmailsUnique'
    BY <2>4, InsertKeepsEmails DEF CreateOauth
  <2>5. ASSUME NEW t \in Thread, CommitDestroyAccount(t) PROVE EmailsUnique'
    BY <2>5 DEF CommitDestroyAccount, EmailsUnique
  <2>6. ASSUME UNCHANGED users PROVE EmailsUnique'
    BY <2>6 DEF EmailsUnique
  <2>7. QED
    BY <2>1, <2>2, <2>3, <2>4, <2>5, <2>6
       DEF Next, Rename, AdminUpdate, FindGuest, FindForOauth, Begin, InsertTie, Unfollow, DeleteFollow,
           DestroyAccount, Abort, vars
<1>3. QED
  BY <1>1, <1>2, TypeCorrect, PTL DEF Spec

-----------------------------------------------------------------------------
\* Why OneAccountPerPerson holds: while one request is about to create the account of an
\* identity, no account has it and no other request is about to.
MakingFor(t, x) == req[t].pc = "create_oauth" /\ req[t].uid = x

MakersAreAlone ==
  \A x \in Uid \ doubled, t \in Thread :
    MakingFor(t, x) => /\ \A u \in users : u.uid # x
                       /\ \A s \in Thread : MakingFor(s, x) => s = t

PersonInv == TypeOK /\ OneAccountPerPerson /\ MakersAreAlone

LEMMA InsertKeepsPersons ==
  ASSUME PersonInv, NEW t \in Thread, NEW user, Insert(t, user),
         user.uid = "none" \/ MakingFor(t, user.uid)
  PROVE  OneAccountPerPerson' /\ MakersAreAlone'
<1>1. /\ req'[t] = Idle
      /\ \A s \in Thread : s # t => req'[s] = req[s]
      /\ doubled' = doubled
      /\ users' = users \/ users' = users \cup {user}
  BY DEF Insert, PersonInv, TypeOK
<1>2. \A x, s : ~MakingFor(t, x)' /\ (s \in Thread => (MakingFor(s, x)' => MakingFor(s, x)))
  BY <1>1 DEF MakingFor, Idle
<1>3. CASE user.uid = "none"
  BY <1>1, <1>2, <1>3, AccountsAssumption DEF PersonInv, OneAccountPerPerson, MakersAreAlone
<1>4. CASE MakingFor(t, user.uid)
  <2>1. \A x \in Uid \ doubled, s \in Thread : MakingFor(s, x)' => user.uid # x
    BY <1>2, <1>4 DEF PersonInv, MakersAreAlone
  <2>2. user.uid \in Uid \ doubled => \A u \in users : u.uid # user.uid
    BY <1>4 DEF PersonInv, MakersAreAlone
  <2>3. MakersAreAlone'
    BY <1>1, <1>2, <2>1 DEF PersonInv, MakersAreAlone
  <2>4. OneAccountPerPerson'
    BY <1>1, <2>2 DEF PersonInv, OneAccountPerPerson
  <2>5. QED
    BY <2>3, <2>4
<1>5. QED
  BY <1>3, <1>4

LEMMA ReplaceKeepsPersons ==
  ASSUME PersonInv, NEW u \in users, NEW email, NEW name, Replace(u, email, name)
  PROVE  OneAccountPerPerson' /\ MakersAreAlone'
<1> DEFINE new == [u EXCEPT !.user_name = name, !.email = email]
<1>1. new.uid = u.uid
  BY DEF PersonInv, TypeOK, User
<1>2. users' = (users \ {u}) \cup {new} /\ req' = req /\ doubled' = doubled
  BY DEF Replace
<1> HIDE DEF new
<1>3. QED
  BY <1>1, <1>2 DEF PersonInv, OneAccountPerPerson, MakersAreAlone, MakingFor

\* A request that is not creating an account leaves identities alone.
LEMMA OthersKeepPersons ==
  ASSUME PersonInv, users' \subseteq users, doubled' = doubled,
         \A s \in Thread : req'[s] = req[s] \/ req'[s].pc # "create_oauth"
  PROVE  OneAccountPerPerson' /\ MakersAreAlone'
<1>1. \A x \in Uid, s \in Thread : MakingFor(s, x)' => MakingFor(s, x)
  BY DEF MakingFor
<1>2. QED
  BY <1>1 DEF PersonInv, OneAccountPerPerson, MakersAreAlone

\* An identity that has not signed in twice at once has one account (user.rb:29-30).
THEOREM OnePersonOneAccount == Spec => []OneAccountPerPerson
<1>1. Init => OneAccountPerPerson /\ MakersAreAlone
  BY DEF Init, OneAccountPerPerson, MakersAreAlone, MakingFor, Idle
<1>2. PersonInv /\ [Next]_vars => OneAccountPerPerson' /\ MakersAreAlone'
  <2> SUFFICES ASSUME PersonInv, [Next]_vars PROVE OneAccountPerPerson' /\ MakersAreAlone'
    OBVIOUS
  <2>1. ASSUME NEW u \in users, NEW name, NEW email, Replace(u, email, name)
        PROVE  OneAccountPerPerson' /\ MakersAreAlone'
    BY <2>1, ReplaceKeepsPersons
  <2>2. ASSUME NEW t \in Thread, NEW e, SignUp(t, Mail(e)) PROVE OneAccountPerPerson' /\ MakersAreAlone'
    BY <2>2, InsertKeepsPersons DEF SignUp, Account
  <2>3. ASSUME NEW t \in Thread, CreateGuest(t) PROVE OneAccountPerPerson' /\ MakersAreAlone'
    BY <2>3, InsertKeepsPersons DEF CreateGuest, Account
  <2>4. ASSUME NEW t \in Thread, NEW second, CreateOauth(t, second)
        PROVE  OneAccountPerPerson' /\ MakersAreAlone'
    BY <2>4, InsertKeepsPersons DEF CreateOauth, Account, MakingFor
  <2>5. ASSUME NEW t \in Thread, NEW x \in Uid, FindForOauth(t, x)
        PROVE  OneAccountPerPerson' /\ MakersAreAlone'
    <3>1. /\ users' = users /\ doubled \subseteq doubled'
          /\ \A u \in users : u.uid # x
          /\ MakingFor(t, x)'
          /\ \A y : MakingFor(t, y)' => y = x
          /\ \A s \in Thread : s # t => req'[s] = req[s]
          /\ (\E s \in Thread : MakingFor(s, x)) => x \in doubled'
      BY <2>5 DEF FindForOauth, PersonInv, TypeOK, MakingFor
    <3>2. \A s \in Thread : s # t => \A y : (MakingFor(s, y)' <=> MakingFor(s, y))
      BY <3>1 DEF MakingFor
    <3>3. QED
      BY <3>1, <3>2 DEF PersonInv, OneAccountPerPerson, MakersAreAlone
  <2>6. ASSUME NEW t \in Thread, CommitDestroyAccount(t) PROVE OneAccountPerPerson' /\ MakersAreAlone'
    BY <2>6, OthersKeepPersons DEF CommitDestroyAccount, Idle, PersonInv, TypeOK
  <2>7. ASSUME NEW t \in Thread, FindGuest(t) PROVE OneAccountPerPerson' /\ MakersAreAlone'
    BY <2>7, OthersKeepPersons DEF FindGuest, PersonInv, TypeOK
  <2>8. ASSUME NEW t \in Thread, NEW u, NEW v, NEW kind, Begin(t, kind, u, v)
        PROVE  OneAccountPerPerson' /\ MakersAreAlone'
    BY <2>8, OthersKeepPersons DEF Begin, PersonInv, TypeOK
  <2>9. ASSUME NEW t \in Thread, InsertTie(t) PROVE OneAccountPerPerson' /\ MakersAreAlone'
    BY <2>9, OthersKeepPersons DEF InsertTie, Idle, PersonInv, TypeOK
  <2>10. ASSUME NEW t \in Thread, NEW k \in ties, Unfollow(t, k)
         PROVE  OneAccountPerPerson' /\ MakersAreAlone'
    BY <2>10, OthersKeepPersons DEF Unfollow, PersonInv, TypeOK
  <2>11. ASSUME NEW t \in Thread, DeleteFollow(t) PROVE OneAccountPerPerson' /\ MakersAreAlone'
    BY <2>11, OthersKeepPersons DEF DeleteFollow, Idle, PersonInv, TypeOK
  <2>12. ASSUME NEW t \in Thread, NEW id \in Ids, DestroyAccount(t, id)
         PROVE  OneAccountPerPerson' /\ MakersAreAlone'
    BY <2>12, OthersKeepPersons DEF DestroyAccount, PersonInv, TypeOK
  <2>13. ASSUME NEW t \in Thread, Abort(t) PROVE OneAccountPerPerson' /\ MakersAreAlone'
    BY <2>13, OthersKeepPersons DEF Abort, Idle, PersonInv, TypeOK
  <2>14. CASE UNCHANGED vars
    BY <2>14, OthersKeepPersons DEF vars
  <2>15. QED
    BY <2>1, <2>2, <2>3, <2>4, <2>5, <2>6, <2>7, <2>8, <2>9, <2>10, <2>11, <2>12, <2>13,
       <2>14 DEF Next, Rename, AdminUpdate
<1>3. QED
  BY <1>1, <1>2, TypeCorrect, PTL DEF Spec, PersonInv

-----------------------------------------------------------------------------
\* Why TiesEndAtAccounts holds: unless the two have met, an account to which a tie is being
\* made still exists, and a destroy has read all ties of its account and none is coming.
Ends(k) == {k.from, k.to}

TiesHaveEnds == \A k \in ties : Ends(k) \subseteq Ids \cup contended

TyingToAccounts ==
  \A t \in Thread : req[t].pc = "tie" => Ends(req[t].row) \subseteq Ids \cup contended

DestroysKnowAll ==
  \A t \in Thread : req[t].pc = "destroy" /\ req[t].id \notin contended =>
    /\ \A k \in ties : req[t].id \in Ends(k) => k \in req[t].doomed
    /\ \A s \in Thread : req[s].pc = "tie" => req[t].id \notin Ends(req[s].row)

TieInv == TypeOK /\ TiesHaveEnds /\ TyingToAccounts /\ DestroysKnowAll

\* A step that makes no tie, starts no tie and no destroy, and keeps the accounts.
LEMMA OthersKeepTies ==
  ASSUME TieInv, Ids \subseteq Ids', ties' \subseteq ties, contended' = contended,
         \A s \in Thread : req'[s] = req[s] \/ req'[s].pc \notin {"tie", "destroy"}
  PROVE  TiesHaveEnds' /\ TyingToAccounts' /\ DestroysKnowAll'
<1>1. TiesHaveEnds'
  BY DEF TieInv, TiesHaveEnds, Ends
<1>2. TyingToAccounts'
  BY DEF TieInv, TyingToAccounts, Ends
<1>3. DestroysKnowAll'
  BY DEF TieInv, DestroysKnowAll, Ends
<1>4. QED
  BY <1>1, <1>2, <1>3

LEMMA InsertKeepsTies ==
  ASSUME TieInv, NEW t \in Thread, NEW user, Insert(t, user)
  PROVE  TiesHaveEnds' /\ TyingToAccounts' /\ DestroysKnowAll'
<1>1. Ids \subseteq Ids'
  BY DEF Insert, Ids
<1>2. QED
  BY <1>1, OthersKeepTies DEF Insert, Idle, TieInv, TypeOK

LEMMA ReplaceKeepsTies ==
  ASSUME TieInv, NEW u \in users, NEW email, NEW name, Replace(u, email, name)
  PROVE  TiesHaveEnds' /\ TyingToAccounts' /\ DestroysKnowAll'
<1> DEFINE new == [u EXCEPT !.user_name = name, !.email = email]
<1>1. new.id = u.id
  BY DEF TieInv, TypeOK, User
<1>2. users' = (users \ {u}) \cup {new}
  BY DEF Replace
<1> HIDE DEF new
<1>3. Ids \subseteq Ids'
  BY <1>1, <1>2 DEF Ids
<1>4. QED
  BY <1>3, OthersKeepTies DEF Replace

LEMMA BeginKeepsTies ==
  ASSUME TieInv, NEW t \in Thread, NEW u, NEW v, NEW kind \in {"follow", "notice", "own"},
         Begin(t, kind, u, v)
  PROVE  TiesHaveEnds' /\ TyingToAccounts' /\ DestroysKnowAll'
<1>0. {u, v} \subseteq Ids \cup contended
  <2>1. \A k \in ties : k.to \in Ids \cup contended
    BY DEF TieInv, TiesHaveEnds, Ends
  <2>2. u \in Ids /\ v \in Reach(kind, u)
    BY DEF Begin
  <2>3. QED
    BY <2>1, <2>2 DEF Reach
<1>1. /\ Ids' = Ids /\ ties' = ties /\ contended \subseteq contended'
      /\ req'[t].pc = "tie" /\ Ends(req'[t].row) = {u, v}
      /\ \A s \in Thread : s # t => req'[s] = req[s]
  BY DEF Begin, Ids, Ends, TieInv, TypeOK
<1>2. \A s \in Thread : req[s].pc = "destroy" /\ req[s].id \in {u, v} => req[s].id \in contended'
  BY DEF Begin, Deleting
<1>3. TiesHaveEnds'
  BY <1>1 DEF TieInv, TiesHaveEnds, Ends
<1>4. TyingToAccounts'
  <2>1. SUFFICES ASSUME NEW s \in Thread, req'[s].pc = "tie"
                 PROVE  Ends(req'[s].row) \subseteq Ids' \cup contended'
    BY DEF TyingToAccounts, Ends
  <2>2. CASE s = t
    BY <1>0, <1>1, <2>2
  <2>3. CASE s # t
    BY <1>1, <2>1, <2>3 DEF TieInv, TyingToAccounts
  <2>4. QED
    BY <2>2, <2>3
<1>5. DestroysKnowAll'
  <2>1. SUFFICES ASSUME NEW s \in Thread, req'[s].pc = "destroy", req'[s].id \notin contended'
                 PROVE  /\ \A k \in ties' : req'[s].id \in Ends(k) => k \in req'[s].doomed
                        /\ \A r \in Thread : req'[r].pc = "tie" => req'[s].id \notin Ends(req'[r].row)
    BY DEF DestroysKnowAll, Ends
  <2>2. s # t /\ req'[s] = req[s] /\ req[s].id \notin contended
    BY <1>1, <2>1
  <2>3. \A k \in ties' : req'[s].id \in Ends(k) => k \in req'[s].doomed
    BY <1>1, <2>1, <2>2 DEF TieInv, DestroysKnowAll
  <2>4. ASSUME NEW r \in Thread, req'[r].pc = "tie" PROVE req'[s].id \notin Ends(req'[r].row)
    <3>1. CASE r = t
      BY <1>1, <1>2, <2>1, <2>2, <3>1
    <3>2. CASE r # t
      BY <1>1, <2>1, <2>2, <2>4, <3>2 DEF TieInv, DestroysKnowAll
    <3>3. QED
      BY <3>1, <3>2
  <2>5. QED
    BY <2>3, <2>4
<1>6. QED
  BY <1>3, <1>4, <1>5

LEMMA InsertTieKeepsTies ==
  ASSUME TieInv, NEW t \in Thread, InsertTie(t)
  PROVE  TiesHaveEnds' /\ TyingToAccounts' /\ DestroysKnowAll'
<1> DEFINE row == [req[t].row EXCEPT !.no = lastTie + 1]
<1>1. req[t].pc = "tie" /\ req[t].row \in Tie
  BY RequestKinds DEF InsertTie, TieInv
<1>2. row.from = req[t].row.from /\ row.to = req[t].row.to
  BY <1>1 DEF Tie
<1>3. Ends(row) = Ends(req[t].row)
  BY <1>2 DEF Ends
<1>4. /\ ties' = ties \cup {row} /\ Ids' = Ids /\ contended' = contended
      /\ req'[t].pc = "idle"
      /\ \A s \in Thread : s # t => req'[s] = req[s]
  BY DEF InsertTie, Ids, Idle, TieInv, TypeOK
<1> HIDE DEF row
<1>5. TiesHaveEnds'
  BY <1>1, <1>3, <1>4 DEF TieInv, TiesHaveEnds, TyingToAccounts, Ends
<1>6. TyingToAccounts'
  BY <1>4 DEF TieInv, TyingToAccounts, Ends
<1>7. DestroysKnowAll'
  BY <1>1, <1>3, <1>4 DEF TieInv, DestroysKnowAll, Ends
<1>8. QED
  BY <1>5, <1>6, <1>7

LEMMA DestroyKeepsTies ==
  ASSUME TieInv, NEW t \in Thread, NEW id \in Ids, DestroyAccount(t, id)
  PROVE  TiesHaveEnds' /\ TyingToAccounts' /\ DestroysKnowAll'
<1>1. /\ Ids' = Ids /\ ties' = ties /\ contended \subseteq contended'
      /\ req'[t].pc = "destroy" /\ req'[t].id = id
      /\ req'[t].doomed = {k \in ties : id \in Ends(k)}
      /\ \A s \in Thread : s # t => req'[s] = req[s]
  BY DEF DestroyAccount, Ids, Ends, TiesOf, TieInv, TypeOK
<1>2. \A s \in Thread : req[s].pc = "tie" /\ id \in Ends(req[s].row) => id \in contended'
  BY DEF DestroyAccount, TyingTo, Ends
<1>3. TiesHaveEnds'
  BY <1>1 DEF TieInv, TiesHaveEnds, Ends
<1>4. \A s \in Thread : req'[s].pc = "tie" => req[s].pc = "tie" /\ req'[s] = req[s]
  BY <1>1
<1>5. TyingToAccounts'
  BY <1>1, <1>4 DEF TieInv, TyingToAccounts, Ends
<1>6. DestroysKnowAll'
  BY <1>1, <1>2, <1>4 DEF TieInv, DestroysKnowAll, Ends
<1>7. QED
  BY <1>3, <1>5, <1>6

LEMMA CommitKeepsTies ==
  ASSUME TieInv, NEW t \in Thread, CommitDestroyAccount(t)
  PROVE  TiesHaveEnds' /\ TyingToAccounts' /\ DestroysKnowAll'
<1>1. /\ ties' = ties \ req[t].doomed /\ contended' = contended
      /\ Ids \subseteq Ids' \cup {req[t].id}
      /\ req[t].pc = "destroy" /\ req'[t].pc = "idle"
      /\ \A s \in Thread : s # t => req'[s] = req[s]
  BY DEF CommitDestroyAccount, Ids, Idle, TieInv, TypeOK
<1>2. \A k \in ties' : req[t].id \in Ends(k) => req[t].id \in contended
  BY <1>1 DEF TieInv, DestroysKnowAll
<1>3. TiesHaveEnds'
  <2>1. SUFFICES ASSUME NEW k \in ties' PROVE Ends(k) \subseteq Ids' \cup contended'
    BY DEF TiesHaveEnds, Ends
  <2>2. Ends(k) \subseteq Ids \cup contended
    BY <1>1 DEF TieInv, TiesHaveEnds
  <2>3. QED
    BY <1>1, <1>2, <2>2
<1>4. TyingToAccounts'
  <2>1. SUFFICES ASSUME NEW s \in Thread, req'[s].pc = "tie"
                 PROVE  Ends(req'[s].row) \subseteq Ids' \cup contended'
    BY DEF TyingToAccounts, Ends
  <2>2. req'[s] = req[s]
    BY <1>1, <2>1
  <2>3. Ends(req[s].row) \subseteq Ids \cup contended
    BY <2>1, <2>2 DEF TieInv, TyingToAccounts
  <2>4. req[t].id \in Ends(req[s].row) => req[t].id \in contended
    BY <1>1, <2>1, <2>2 DEF TieInv, DestroysKnowAll
  <2>5. QED
    BY <1>1, <2>2, <2>3, <2>4
<1>5. DestroysKnowAll'
  BY <1>1 DEF TieInv, DestroysKnowAll, Ends
<1>6. QED
  BY <1>3, <1>4, <1>5

\* A deleted account leaves a follow or a notification only if that was on its way while
\* the account was being deleted, for any number of threads (user.rb:11-12 and 17-18).
THEOREM OnlyRacesLeaveTies == Spec => []TiesEndAtAccounts
<1>1. Init => TiesHaveEnds /\ TyingToAccounts /\ DestroysKnowAll
  BY DEF Init, TiesHaveEnds, TyingToAccounts, DestroysKnowAll, Idle
<1>2. TieInv /\ [Next]_vars => TiesHaveEnds' /\ TyingToAccounts' /\ DestroysKnowAll'
  <2> DEFINE Goal == TiesHaveEnds' /\ TyingToAccounts' /\ DestroysKnowAll'
  <2> SUFFICES ASSUME TieInv, [Next]_vars PROVE Goal
    OBVIOUS
  <2>1. ASSUME NEW u \in users, NEW name, NEW email, Replace(u, email, name) PROVE Goal
    BY <2>1, ReplaceKeepsTies
  <2>2. ASSUME NEW t \in Thread, NEW e, SignUp(t, Mail(e)) PROVE Goal
    BY <2>2, InsertKeepsTies DEF SignUp
  <2>3. ASSUME NEW t \in Thread, CreateGuest(t) PROVE Goal
    BY <2>3, InsertKeepsTies DEF CreateGuest
  <2>4. ASSUME NEW t \in Thread, NEW second, CreateOauth(t, second) PROVE Goal
    BY <2>4, InsertKeepsTies DEF CreateOauth
  <2>5. ASSUME NEW t \in Thread, NEW u, NEW v, NEW kind \in {"follow", "notice", "own"},
               Begin(t, kind, u, v)
        PROVE  Goal
    BY <2>5, BeginKeepsTies
  <2>6. ASSUME NEW t \in Thread, InsertTie(t) PROVE Goal
    BY <2>6, InsertTieKeepsTies
  <2>7. ASSUME NEW t \in Thread, NEW id \in Ids, DestroyAccount(t, id) PROVE Goal
    BY <2>7, DestroyKeepsTies
  <2>8. ASSUME NEW t \in Thread, CommitDestroyAccount(t) PROVE Goal
    BY <2>8, CommitKeepsTies
  <2>9. ASSUME NEW t \in Thread, FindGuest(t) \/ \E x \in Uid : FindForOauth(t, x) PROVE Goal
    BY <2>9, OthersKeepTies DEF FindGuest, FindForOauth, Ids, TieInv, TypeOK
  <2>10. ASSUME NEW t \in Thread, (\E k \in ties : Unfollow(t, k)) \/ DeleteFollow(t) \/ Abort(t)
         PROVE  Goal
    BY <2>10, OthersKeepTies DEF Unfollow, DeleteFollow, Abort, Ids, Idle, TieInv, TypeOK
  <2>11. CASE UNCHANGED vars
    BY <2>11, OthersKeepTies DEF vars, Ids
  <2>12. QED
    <3> HIDE DEF Goal
    <3>1. QED
      BY <2>1, <2>2, <2>3, <2>4, <2>5, <2>6, <2>7, <2>8, <2>9, <2>10, <2>11
         DEF Next, Rename, AdminUpdate
<1>3. TieInv => TiesEndAtAccounts
  BY DEF TieInv, TiesHaveEnds, TiesEndAtAccounts, Ends
<1>4. QED
  BY <1>1, <1>2, <1>3, TypeCorrect, PTL DEF Spec, TieInv

-----------------------------------------------------------------------------
\* Whoever deletes an account has the application to itself.
DeletionsAlone ==
  \A s, t \in Thread : req[s].pc = "destroy" /\ req[t] # Idle => s = t

\* No identity calls back twice at once.
CallbacksApart ==
  \A s, t \in Thread :
    req[s].pc = "create_oauth" /\ req[t].pc = "create_oauth" /\ req[s].uid = req[t].uid => s = t

\* What dependent: :destroy and find_for_oauth promise, with nothing excepted.
NothingLeft == \A k \in ties : {k.from, k.to} \subseteq Ids
OneForEach == \A u, v \in users : u.uid = v.uid /\ u.uid \in Uid => u = v

LEMMA NothingContends ==
  ASSUME TypeOK, contended = {}, [Next]_vars, DeletionsAlone, DeletionsAlone'
  PROVE  contended' = {}
<1>1. ASSUME NEW t \in Thread, NEW u, NEW v, NEW kind, Begin(t, kind, u, v)
      PROVE  contended' = {}
  <2>1. /\ req[t] = Idle /\ req'[t].pc = "tie" /\ \A s \in Thread : s # t => req'[s] = req[s]
        /\ contended' = contended \cup {id \in {u, v} : \E s \in Thread : Deleting(s, id)}
    BY <1>1 DEF Begin, TypeOK
  <2>2. ASSUME NEW id, NEW s \in Thread PROVE ~Deleting(s, id)
    BY <2>1 DEF Deleting, Idle, DeletionsAlone
  <2>3. QED
    BY <2>1, <2>2
<1>2. ASSUME NEW t \in Thread, NEW id, DestroyAccount(t, id) PROVE contended' = {}
  <2>1. /\ req[t] = Idle /\ req'[t].pc = "destroy" /\ \A s \in Thread : s # t => req'[s] = req[s]
        /\ contended' = IF \E s \in Thread : TyingTo(s, id) THEN contended \cup {id} ELSE contended
    BY <1>2 DEF DestroyAccount, TypeOK
  <2>2. ASSUME NEW s \in Thread PROVE ~TyingTo(s, id)
    BY <2>1 DEF TyingTo, Idle, DeletionsAlone
  <2>3. QED
    BY <2>1, <2>2
<1>3. QED
  BY <1>1, <1>2 DEF Next, vars, Rename, AdminUpdate, Replace, SignUp, Insert, FindGuest,
     CreateGuest, FindForOauth, CreateOauth, InsertTie, Unfollow, DeleteFollow,
     CommitDestroyAccount, Abort

LEMMA NobodyDoubles ==
  ASSUME TypeOK, doubled = {}, [Next]_vars, CallbacksApart, CallbacksApart'
  PROVE  doubled' = {}
<1>1. ASSUME NEW t \in Thread, NEW x \in Uid, FindForOauth(t, x) PROVE doubled' = {}
  <2>1. /\ req[t] = Idle /\ req'[t].pc = "create_oauth" /\ req'[t].uid = x
        /\ \A s \in Thread : s # t => req'[s] = req[s]
        /\ doubled' = IF \E s \in Thread : req[s].pc = "create_oauth" /\ req[s].uid = x
                      THEN doubled \cup {x} ELSE doubled
    BY <1>1 DEF FindForOauth, TypeOK
  <2>2. ASSUME NEW s \in Thread PROVE ~(req[s].pc = "create_oauth" /\ req[s].uid = x)
    BY <2>1 DEF Idle, CallbacksApart
  <2>3. QED
    BY <2>1, <2>2
<1>2. QED
  BY <1>1 DEF Next, vars, Rename, AdminUpdate, Replace, SignUp, Insert, FindGuest,
     CreateGuest, CreateOauth, Begin, InsertTie, Unfollow, DeleteFollow, DestroyAccount,
     CommitDestroyAccount, Abort

\* If whoever deletes an account were alone with the database, no follow, no notification
\* and nothing else of a deleted account would be left (user.rb:8-18).
THEOREM AloneNothingLeaks == Spec /\ []DeletionsAlone => []NothingLeft
<1> DEFINE Inv == contended = {}
<1>1. Init => Inv
  BY DEF Init
<1>2. TypeOK /\ Inv /\ DeletionsAlone /\ DeletionsAlone' /\ [Next]_vars => Inv'
  BY NothingContends
<1>3. TiesEndAtAccounts /\ Inv => NothingLeft
  BY DEF TiesEndAtAccounts, NothingLeft
<1> HIDE DEF Inv
<1>4. QED
  BY <1>1, <1>2, <1>3, TypeCorrect, OnlyRacesLeaveTies, PTL DEF Spec

\* If the callbacks of one identity came one after another, each identity would have one
\* account whatever else goes on: the lookup of user.rb:29 needs no more than that.
THEOREM ApartOneForEach == Spec /\ []CallbacksApart => []OneForEach
<1> DEFINE Inv == doubled = {}
<1>1. Init => Inv
  BY DEF Init
<1>2. TypeOK /\ Inv /\ CallbacksApart /\ CallbacksApart' /\ [Next]_vars => Inv'
  BY NobodyDoubles
<1>3. OneAccountPerPerson /\ Inv => OneForEach
  BY DEF OneAccountPerPerson, OneForEach
<1> HIDE DEF Inv
<1>4. QED
  BY <1>1, <1>2, <1>3, TypeCorrect, OnePersonOneAccount, PTL DEF Spec
=============================================================================
