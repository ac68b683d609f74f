----------------------------- MODULE Announcements -----------------------------
(***************************************************************************)
(* What the application promises of a comment, on a post (post.rb:92-117)  *)
(* or on a board (board_comment.rb:6-25): it is announced to the owner of  *)
(* the place and to everyone who commented there before and still stands,  *)
(* in any order, to each once; the announcement may be cut short.  Who     *)
(* announces, what a request has in its hands and in how many steps a      *)
(* cascade reads and deletes is not said here.  PostComments and           *)
(* BoardComments implement this specification.                             *)
(***************************************************************************)
EXTENDS Naturals

CONSTANTS User,   \* whoever may comment and be told
          Place,  \* where comments are written: posts or boards
          Owner   \* Owner[p] is told of every comment in p

VARIABLES members,   \* accounts that are there
          standing,  \* comments that stand
          last,      \* the last id that a comment got
          open,      \* ids of comments that are being announced
          promised,  \* ids of comments that have been announced in full
          receipts   \* who has been told of which comment, and in which capacity

vars == <<members, standing, last, open, promised, receipts>>

-----------------------------------------------------------------------------
Comment == [id : Nat, user : User, place : Place]
Receipt == [about : Nat, to : User, via : {"commenter", "owner"}]

TypeOK ==
  /\ members \subseteq User
  /\ standing \subseteq Comment
  /\ last \in Nat
  /\ open \subseteq Nat
  /\ promised \subseteq Nat
  /\ receipts \subseteq Receipt

Init ==
  /\ members = User
  /\ standing = {}
  /\ last = 0
  /\ open = {}
  /\ promised = {}
  /\ receipts = {}

\* u has a claim to hear of c: as the owner, or for a comment of an earlier id.
Due(u, c) ==
  /\ u \in members
  /\ \/ u = Owner[c.place]
     \/ /\ u # c.user
        /\ \E d \in standing : d.place = c.place /\ d.user = u /\ d.id < c.id

Told(u, id) == \E r \in receipts : r.about = id /\ r.to = u

\* Everyone with a claim to hear of comment id has heard, if it stands at all.
AllTold(id) == \A c \in standing : c.id = id => \A u \in User : Due(u, c) => Told(u, id)

-----------------------------------------------------------------------------
\* A comment is written, to be announced or not.
Write(u, p) ==
  /\ last' = last + 1
  /\ standing' = standing \cup {[id |-> last', user |-> u, place |-> p]}
  /\ open' \in {open, open \cup {last'}}
  /\ UNCHANGED <<members, promised, receipts>>

\* Someone who has not heard of the comment hears of it.
Tell(id, u, via) ==
  /\ id \in open
  /\ ~Told(u, id)
  /\ receipts' = receipts \cup {[about |-> id, to |-> u, via |-> via]}
  /\ UNCHANGED <<members, standing, last>>

TellOne(id, u, via) == Tell(id, u, via) /\ UNCHANGED <<open, promised>>

\* After the last one everybody has heard who should have.
TellLast(id, u, via) ==
  /\ Tell(id, u, via)
  /\ AllTold(id)'
  /\ open' = open \ {id}
  /\ promised' = promised \cup {id}

\* The announcement ends early, and nobody goes on with it.
CutShort(id) ==
  /\ id \in open
  /\ open' = open \ {id}
  /\ UNCHANGED <<members, standing, last, promised, receipts>>

\* Accounts, comments and receipts go, together or one by one.  A receipt does not go while
\* its receiver has a claim to it: the comment or the claim goes before it or with it.
Withdraw ==
  /\ members' \in SUBSET members
  /\ standing' \in SUBSET standing
  /\ receipts' \in SUBSET receipts
  /\ \A r \in receipts \ receipts' : \A c \in standing' : c.id = r.about => ~Due(r.to, c)'
  /\ UNCHANGED <<last, open, promised>>

Next ==
  \/ \E u \in User, p \in Place : Write(u, p)
  \/ \E id \in open, u \in User, via \in {"commenter", "owner"} :
       TellOne(id, u, via) \/ TellLast(id, u, via)
  \/ \E id \in open : CutShort(id)
  \/ Withdraw

Spec == Init /\ [][Next]_vars

-----------------------------------------------------------------------------
\* Nobody is told of one comment twice (post.rb:94).
ToldOnce == \A r, s \in receipts : r.about = s.about /\ r.to = s.to => r = s

\* A comment that was announced in full and stands has been heard of by everyone with a
\* claim, and stays so whatever is written and withdrawn later (post.rb:93).
PromisesKept == \A id \in promised : AllTold(id)
=============================================================================
