-------------------------- MODULE AnnouncementsProofs --------------------------
(***************************************************************************)
(* What follows from Announcements, and with it holds of every module that *)
(* implements it: nobody is told twice, and a promise once kept stays so.  *)
(***************************************************************************)
EXTENDS Announcements, TLAPS

\* Ids are handed out in order.
IdsInOrder ==
  /\ \A c \in standing : c.id <= last
  /\ \A id \in open \cup promised : id <= last

IInv == TypeOK /\ IdsInOrder /\ ToldOnce /\ PromisesKept

LEMMA Initially == Init => IInv
BY DEF Init, IInv, TypeOK, IdsInOrder, ToldOnce, PromisesKept

LEMMA WriteStep ==
  ASSUME IInv, NEW u \in User, NEW p \in Place, Write(u, p)
  PROVE  IInv'
<1> DEFINE row == [id |-> last + 1, user |-> u, place |-> p]
<1>1. /\ last \in Nat /\ last' = last + 1 /\ row \in Comment /\ row.id = last + 1
      /\ standing' = standing \cup {row}
      /\ open' \in {open, open \cup {last + 1}}
      /\ UNCHANGED <<members, promised, receipts>>
  BY DEF Write, IInv, TypeOK, Comment
<1> HIDE DEF row
<1>2. \A c \in standing : c.id \in Nat /\ c.id <= last
  BY DEF IInv, TypeOK, IdsInOrder, Comment
<1>3. \A id \in open \cup promised : id \in Nat /\ id <= last
  BY DEF IInv, TypeOK, IdsInOrder
<1>4. TypeOK'
  BY <1>1 DEF IInv, TypeOK
<1>5. IdsInOrder'
  BY <1>1, <1>2, <1>3 DEF IdsInOrder
<1>6. PromisesKept'
  <2> SUFFICES ASSUME NEW id \in promised, NEW c \in standing', c.id = id,
                      NEW v \in User, Due(v, c)'
               PROVE  Told(v, id)
    BY <1>1 DEF PromisesKept, AllTold, Told
  <2>1. c \in standing
    BY <1>1, <1>3
  <2>2. Due(v, c)
    BY <1>1, <1>2, <2>1 DEF Due
  <2>3. QED
    BY <2>1, <2>2 DEF IInv, PromisesKept, AllTold
<1>7. QED
  BY <1>1, <1>4, <1>5, <1>6 DEF IInv, ToldOnce

\* Telling someone keeps the promises, and makes none.
LEMMA TellStep ==
  ASSUME IInv, NEW id \in open, NEW u \in User, NEW via \in {"commenter", "owner"},
         Tell(id, u, via)
  PROVE  /\ receipts' \subseteq Receipt
         /\ ToldOnce'
         /\ \A i \in promised : AllTold(i)'
<1>1. receipts' = receipts \cup {[about |-> id, to |-> u, via |-> via]}
  BY DEF Tell
<1>2. id \in Nat
  BY DEF IInv, TypeOK
<1>3. receipts' \subseteq Receipt
  BY <1>1, <1>2 DEF IInv, TypeOK, Receipt
<1>4. ToldOnce'
  BY <1>1 DEF IInv, ToldOnce, Tell, Told
<1>5. ASSUME NEW i \in promised PROVE AllTold(i)'
  <2> SUFFICES ASSUME NEW c \in standing, c.id = i, NEW v \in User, Due(v, c)
               PROVE  Told(v, i)'
    BY DEF Tell, AllTold, Due
  <2>1. Told(v, i)
    BY DEF IInv, PromisesKept, AllTold
  <2>2. QED
    BY <1>1, <2>1 DEF Told
<1>6. QED
  BY <1>3, <1>4, <1>5

LEMMA WithdrawStep ==
  ASSUME IInv, Withdraw
  PROVE  IInv'
<1>1. TypeOK' /\ IdsInOrder' /\ ToldOnce'
  BY DEF Withdraw, IInv, TypeOK, IdsInOrder, ToldOnce
<1>2. PromisesKept'
  <2> SUFFICES ASSUME NEW id \in promised, NEW c \in standing', c.id = id,
                      NEW v \in User, Due(v, c)'
               PROVE  Told(v, id)'
    BY DEF Withdraw, PromisesKept, AllTold
  <2>1. c \in standing /\ Due(v, c)
    BY DEF Withdraw, Due
  <2>2. PICK r \in receipts : r.about = id /\ r.to = v
    BY <2>1 DEF IInv, PromisesKept, AllTold, Told
  <2>3. r \in receipts'
    BY <2>2 DEF Withdraw
  <2>4. QED
    BY <2>2, <2>3 DEF Told
<1>3. QED
  BY <1>1, <1>2 DEF IInv

LEMMA Inductive == IInv /\ [Next]_vars => IInv'
<1> SUFFICES ASSUME IInv, [Next]_vars PROVE IInv'
  OBVIOUS
<1>1. ASSUME NEW id \in open, NEW u \in User, NEW via \in {"commenter", "owner"},
             TellOne(id, u, via)
      PROVE  IInv'
  <2>1. /\ receipts' \subseteq Receipt /\ ToldOnce' /\ \A i \in promised : AllTold(i)'
        /\ UNCHANGED <<members, standing, last, open, promised>>
    BY <1>1, TellStep DEF TellOne, Tell
  <2>2. QED
    BY <2>1 DEF IInv, TypeOK, IdsInOrder, PromisesKept
<1>2. ASSUME NEW id \in open, NEW u \in User, NEW via \in {"commenter", "owner"},
             TellLast(id, u, via)
      PROVE  IInv'
  <2>1. /\ receipts' \subseteq Receipt /\ ToldOnce' /\ \A i \in promised : AllTold(i)'
        /\ AllTold(id)'
        /\ open' = open \ {id} /\ promised' = promised \cup {id}
        /\ UNCHANGED <<members, standing, last>>
    BY <1>2, TellStep DEF TellLast, Tell
  <2>2. QED
    BY <2>1 DEF IInv, TypeOK, IdsInOrder, PromisesKept
<1>3. ASSUME NEW id \in open, CutShort(id) PROVE IInv'
  <2>1. open' \subseteq open /\ UNCHANGED <<members, standing, last, promised, receipts>>
    BY <1>3 DEF CutShort
  <2>2. TypeOK' /\ IdsInOrder' /\ ToldOnce'
    BY <2>1 DEF IInv, TypeOK, IdsInOrder, ToldOnce
  <2>3. PromisesKept'
    BY <2>1 DEF IInv, PromisesKept, AllTold, Due, Told
  <2>4. QED
    BY <2>2, <2>3 DEF IInv
<1>4. CASE UNCHANGED vars
  BY <1>4 DEF vars, IInv, TypeOK, IdsInOrder, ToldOnce, PromisesKept, AllTold, Due, Told
<1>5. QED
  BY <1>1, <1>2, <1>3, <1>4, WriteStep, WithdrawStep DEF Next

\* Nobody is told of one comment twice (post.rb:94).
THEOREM NobodyTwice == Spec => []ToldOnce
<1>1. IInv => ToldOnce
  BY DEF IInv
<1>2. QED
  BY <1>1, Initially, Inductive, PTL DEF Spec

\* Who has a claim to a comment that was announced in full has heard of it, however many
\* comments, accounts and notifications are withdrawn later (post.rb:93).
THEOREM PromisesStayKept == Spec => []PromisesKept
<1>1. IInv => PromisesKept
  BY DEF IInv
<1>2. QED
  BY <1>1, Initially, Inductive, PTL DEF Spec
=============================================================================
