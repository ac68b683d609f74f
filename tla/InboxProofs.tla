----------------------------- MODULE InboxProofs -----------------------------
(***************************************************************************)
(* Theorems about Inbox, for any page size and any number of tabs.         *)
(***************************************************************************)
EXTENDS Inbox, FiniteSetTheorems, WellFoundedInduction, TLAPS

LEMMA UpdatedType ==
  ASSUME TypeOK, NEW k
  PROVE  LET new == {IF n.no = k THEN [n EXCEPT !.checked = TRUE] ELSE n : n \in notices}
         IN  new \subseteq Notice /\ IsFiniteSet(new)
<1> DEFINE f(n) == IF n.no = k THEN [n EXCEPT !.checked = TRUE] ELSE n
           new == {f(n) : n \in notices}
<1>1. new \subseteq Notice
  BY DEF TypeOK, Notice
<1>2. IsFiniteSet(new)
  <2> DEFINE g == [n \in notices |-> f(n)]
  <2> HIDE DEF f
  <2>1. g \in Surjection(notices, new)
    BY DEF Surjection
  <2>2. QED
    BY <2>1, FS_Surjection DEF TypeOK
<1>3. QED
  BY <1>1, <1>2

LEMMA TypeInvariant == TypeOK /\ [Next]_vars => TypeOK'
<1> SUFFICES ASSUME TypeOK, [Next]_vars PROVE TypeOK'
  OBVIOUS
<1>1. CASE Arrive
  <2>1. [no |-> lastNotice', checked |-> FALSE] \in Notice /\ lastNotice' \in Nat
    BY <1>1 DEF Arrive, TypeOK, Notice
  <2>2. IsFiniteSet(notices')
    BY <1>1, FS_AddElement DEF Arrive, TypeOK
  <2>3. QED
    BY <1>1, <2>1, <2>2 DEF Arrive, TypeOK
<1>2. ASSUME NEW n \in notices, Remove(n) PROVE TypeOK'
  BY <1>2, FS_RemoveElement DEF Remove, TypeOK
<1>3. ASSUME NEW t \in Thread, NEW p \in 1..MaxPage, Index(t, p) PROVE TypeOK'
  <2>1. \A S \in SUBSET notices : Numbers(Page(S, p)) \subseteq Nat
    BY DEF Numbers, Page, TypeOK, Notice
  <2>2. Unread \subseteq notices
    BY DEF Unread
  <2>3. [pc |-> "mark", page |-> p, todo |-> Numbers(Page(Unread, p)),
         listed |-> Numbers(Page(notices, p))] \in Marking
    BY <2>1, <2>2 DEF Marking
  <2>4. QED
    BY <1>3, <2>3 DEF Index, TypeOK
<1>4. ASSUME NEW t \in Thread, Mark(t) PROVE TypeOK'
  <2>1. PICK k \in req[t].todo :
          /\ notices' = {IF n.no = k THEN [n EXCEPT !.checked = TRUE] ELSE n : n \in notices}
          /\ req' = [req EXCEPT ![t].todo = @ \ {k}]
    BY <1>4 DEF Mark
  <2>2. notices' \subseteq Notice /\ IsFiniteSet(notices')
    BY <2>1, UpdatedType
  <2>3. req[t] \in Marking
    BY <1>4 DEF Mark, TypeOK, Idle
  <2>4. [req[t] EXCEPT !.todo = @ \ {k}] \in Marking
    BY <2>3 DEF Marking
  <2>5. req' \in [Thread -> {Idle} \cup Marking]
    BY <2>1, <2>4 DEF TypeOK
  <2>6. QED
    BY <1>4, <2>2, <2>5 DEF Mark, TypeOK
<1>5. ASSUME NEW t \in Thread, Show(t) \/ Abort(t) PROVE TypeOK'
  BY <1>5 DEF Show, Abort, TypeOK
<1>6. CASE UNCHANGED vars
  BY <1>6 DEF vars, TypeOK
<1>7. QED
  BY <1>1, <1>2, <1>3, <1>4, <1>5, <1>6 DEF Next

\* The rows and the requests always have the shape of their table and of the controller.
THEOREM TypeCorrect == Spec => []TypeOK
<1>1. Init => TypeOK
  BY FS_EmptySet DEF Init, TypeOK
<1>2. QED
  BY <1>1, TypeInvariant, PTL DEF Spec

-----------------------------------------------------------------------------
\* The unread rows of the first page are among the first unread rows: fewer rows are newer.
LEMMA UnreadComeFirst ==
  ASSUME TypeOK, NEW n \in Page(notices, 1), ~n.checked
  PROVE  n \in Page(Unread, 1)
<1> DEFINE newer == {m \in notices : m.no > n.no}
           newerUnread == {m \in Unread : m.no > n.no}
<1>1. n \in Unread
  BY DEF Page, Unread
<1>2. newerUnread \subseteq newer /\ newer \subseteq notices
  BY DEF Unread
<1>3. IsFiniteSet(newer)
  BY <1>2, FS_Subset DEF TypeOK
<1>4. /\ IsFiniteSet(newerUnread)
      /\ Cardinality(newerUnread) <= Cardinality(newer)
  BY <1>2, <1>3, FS_Subset
<1>5. Cardinality(newerUnread) \in Nat /\ Cardinality(newer) \in Nat
  BY <1>3, <1>4, FS_CardinalityType
<1>6. Cardinality(newer) < 1 * PerPage
  BY DEF Page
<1> HIDE DEF newer
<1>7. (1 - 1) * PerPage <= Cardinality(newerUnread) /\ Cardinality(newerUnread) < 1 * PerPage
  BY <1>4, <1>5, <1>6, InboxAssumption
<1>8. QED
  BY <1>1, <1>7 DEF Page

\* While a request for the first page loops, it still has every unread row of that page
\* before it.
LoopCoversPage ==
  \A t \in Thread : req[t].pc = "mark" /\ req[t].page = 1 =>
    \A n \in notices : n.no \in req[t].listed /\ ~n.checked => n.no \in req[t].todo

\* A number that was given out is not given out again.
NumbersGrow ==
  /\ \A n \in notices : n.no <= lastNotice
  /\ \A t \in Thread : req[t].pc = "mark" => \A k \in req[t].listed : k <= lastNotice
  /\ \A m, n \in notices : m.no = n.no => m = n

ReadInv == TypeOK /\ NumbersGrow /\ LoopCoversPage

\* A step that brings no row and starts no loop.
LEMMA OthersKeepReading ==
  ASSUME ReadInv, notices' \subseteq notices, lastNotice' = lastNotice,
         \A s \in Thread : req'[s] = req[s] \/ req'[s].pc # "mark"
  PROVE  NumbersGrow' /\ LoopCoversPage'
<1>1. NumbersGrow'
  BY DEF ReadInv, NumbersGrow
<1>2. LoopCoversPage'
  BY DEF ReadInv, LoopCoversPage
<1>3. QED
  BY <1>1, <1>2

LEMMA ArriveKeepsReading == ReadInv /\ Arrive => NumbersGrow' /\ LoopCoversPage'
<1> SUFFICES ASSUME ReadInv, Arrive PROVE NumbersGrow' /\ LoopCoversPage'
  OBVIOUS
<1> DEFINE new == [no |-> lastNotice', checked |-> FALSE]
<1>1. /\ lastNotice \in Nat /\ lastNotice' = lastNotice + 1
      /\ notices' = notices \cup {new} /\ new.no = lastNotice + 1 /\ req' = req
  BY DEF Arrive, ReadInv, TypeOK
<1> HIDE DEF new
<1>2. \A n \in notices : n.no \in Nat /\ n.no <= lastNotice
  BY DEF ReadInv, TypeOK, NumbersGrow, Notice
<1>3. \A t \in Thread : req[t].pc = "mark" =>
        req[t].listed \subseteq Nat /\ \A k \in req[t].listed : k <= lastNotice
  BY DEF ReadInv, TypeOK, NumbersGrow, Marking, Idle
<1>4. NumbersGrow'
  <2>1. \A n \in notices' : n.no <= lastNotice'
    BY <1>1, <1>2
  <2>2. \A t \in Thread : req'[t].pc = "mark" => \A k \in req'[t].listed : k <= lastNotice'
    BY <1>1, <1>3
  <2>3. \A n \in notices : n.no # new.no
    BY <1>1, <1>2
  <2>4. \A m, n \in notices' : m.no = n.no => m = n
    BY <1>1, <2>3 DEF ReadInv, NumbersGrow
  <2>5. QED
    BY <2>1, <2>2, <2>4 DEF NumbersGrow
<1>5. LoopCoversPage'
  <2>1. \A t \in Thread : req[t].pc = "mark" => new.no \notin req[t].listed
    BY <1>1, <1>3
  <2>2. QED
    BY <1>1, <2>1 DEF ReadInv, LoopCoversPage
<1>6. QED
  BY <1>4, <1>5

LEMMA IndexKeepsReading ==
  ASSUME ReadInv, NEW t \in Thread, NEW p \in 1..MaxPage, Index(t, p)
  PROVE  NumbersGrow' /\ LoopCoversPage'
<1>1. /\ notices' = notices /\ lastNotice' = lastNotice
      /\ req'[t].page = p
      /\ req'[t].todo = Numbers(Page(Unread, p)) /\ req'[t].listed = Numbers(Page(notices, p))
      /\ \A s \in Thread : s # t => req'[s] = req[s]
  BY DEF Index, ReadInv, TypeOK
<1>2. \A k \in Numbers(Page(notices, p)) : k <= lastNotice
  BY DEF ReadInv, NumbersGrow, Numbers, Page
<1>3. NumbersGrow'
  BY <1>1, <1>2 DEF ReadInv, NumbersGrow
<1>4. ASSUME p = 1, NEW n \in notices, n.no \in Numbers(Page(notices, 1)), ~n.checked
      PROVE  n.no \in Numbers(Page(Unread, 1))
  <2>1. PICK m \in Page(notices, 1) : m.no = n.no
    BY <1>4 DEF Numbers
  <2>2. m = n
    BY <2>1 DEF ReadInv, NumbersGrow, Page
  <2>3. n \in Page(Unread, 1)
    BY <1>4, <2>1, <2>2, UnreadComeFirst DEF ReadInv
  <2>4. QED
    BY <2>3 DEF Numbers
<1>5. LoopCoversPage'
  BY <1>1, <1>4 DEF ReadInv, LoopCoversPage
<1>6. QED
  BY <1>3, <1>5

LEMMA MarkKeepsReading ==
  ASSUME ReadInv, NEW t \in Thread, Mark(t)
  PROVE  NumbersGrow' /\ LoopCoversPage'
<1> DEFINE f(k, n) == IF n.no = k THEN [n EXCEPT !.checked = TRUE] ELSE n
<1>1. PICK k \in req[t].todo :
        /\ notices' = {f(k, n) : n \in notices}
        /\ req' = [req EXCEPT ![t].todo = @ \ {k}]
  BY DEF Mark
<1>2. \A n \in notices : /\ f(k, n).no = n.no
                         /\ n.no = k => f(k, n).checked
                         /\ n.no # k => f(k, n) = n
  BY DEF ReadInv, TypeOK, Notice
<1> HIDE DEF f
<1>3. req[t] \in Marking
  BY DEF Mark, ReadInv, TypeOK, Idle
<1>4. /\ req'[t].pc = "mark" /\ req'[t].page = req[t].page /\ req'[t].listed = req[t].listed
      /\ req'[t].todo = req[t].todo \ {k}
      /\ \A s \in Thread : s # t => req'[s] = req[s]
      /\ lastNotice' = lastNotice
  BY <1>1, <1>3 DEF Mark, Marking, ReadInv, TypeOK
<1>5. NumbersGrow'
  <2>1. \A n \in notices' : n.no <= lastNotice
    BY <1>1, <1>2 DEF ReadInv, NumbersGrow
  <2>2. \A m, n \in notices' : m.no = n.no => m = n
    BY <1>1, <1>2 DEF ReadInv, NumbersGrow
  <2>3. \A s \in Thread : req'[s].pc = "mark" => \A j \in req'[s].listed : j <= lastNotice
    BY <1>4 DEF ReadInv, NumbersGrow, Mark
  <2>4. QED
    BY <1>4, <2>1, <2>2, <2>3 DEF NumbersGrow
<1>6. LoopCoversPage'
  <2>1. SUFFICES ASSUME NEW s \in Thread, req'[s].pc = "mark", req'[s].page = 1,
                        NEW n \in notices', n.no \in req'[s].listed, ~n.checked
                 PROVE  n.no \in req'[s].todo
    BY DEF LoopCoversPage
  <2>2. n \in notices /\ n.no # k
    BY <1>1, <1>2, <2>1
  <2>3. req[s].pc = "mark" /\ req[s].page = 1 /\ n.no \in req[s].listed
    BY <1>4, <2>1 DEF Mark
  <2>4. n.no \in req[s].todo
    BY <2>1, <2>2, <2>3 DEF ReadInv, LoopCoversPage
  <2>5. QED
    BY <1>4, <2>2, <2>4
<1>7. QED
  BY <1>5, <1>6

LEMMA ReadInvHolds == Spec => []ReadInv
<1>1. Init => NumbersGrow /\ LoopCoversPage
  BY DEF Init, NumbersGrow, LoopCoversPage, Idle
<1>2. ReadInv /\ [Next]_vars => NumbersGrow' /\ LoopCoversPage'
  <2> SUFFICES ASSUME ReadInv, [Next]_vars PROVE NumbersGrow' /\ LoopCoversPage'
    OBVIOUS
  <2>1. CASE Arrive
    BY <2>1, ArriveKeepsReading
  <2>2. ASSUME NEW n \in notices, Remove(n) PROVE NumbersGrow' /\ LoopCoversPage'
    BY <2>2, OthersKeepReading DEF Remove
  <2>3. ASSUME NEW t \in Thread, NEW p \in 1..MaxPage, Index(t, p)
        PROVE  NumbersGrow' /\ LoopCoversPage'
    BY <2>3, IndexKeepsReading
  <2>4. ASSUME NEW t \in Thread, Mark(t) PROVE NumbersGrow' /\ LoopCoversPage'
    BY <2>4, MarkKeepsReading
  <2>5. ASSUME NEW t \in Thread, Show(t) \/ Abort(t) PROVE NumbersGrow' /\ LoopCoversPage'
    BY <2>5, OthersKeepReading DEF Show, Abort, Idle, ReadInv, TypeOK
  <2>6. CASE UNCHANGED vars
    BY <2>6, OthersKeepReading DEF vars
  <2>7. QED
    BY <2>1, <2>2, <2>3, <2>4, <2>5, <2>6 DEF Next
<1>3. QED
  BY <1>1, <1>2, TypeCorrect, PTL DEF Spec, ReadInv

\* What the first page lists has been marked when it is rendered, for any page size, any
\* number of tabs and whatever comes and goes meanwhile (notifications_controller.rb:3-7).
THEOREM FirstPageMarked == Spec => []FirstPageIsRead
<1>1. ReadInv => FirstPageIsRead
  BY DEF ReadInv, LoopCoversPage, FirstPageIsRead, Ready
<1>2. QED
  BY <1>1, ReadInvHolds, PTL

-----------------------------------------------------------------------------
\* Of unread rows there is a newest one, and it is on the first page of them.
LEMMA NewestComesFirst ==
  ASSUME ReadInv, Unread # {}
  PROVE  Numbers(Page(Unread, 1)) # {}
<1> DEFINE age(n) == lastNotice - n.no
           ages == {age(n) : n \in Unread}
<1>1. \A n \in Unread : n.no \in Nat /\ n.no <= lastNotice
  BY DEF ReadInv, TypeOK, NumbersGrow, Unread, Notice
<1>2. lastNotice \in Nat
  BY DEF ReadInv, TypeOK
<1>3. ages \subseteq Nat /\ ages # {}
  BY <1>1, <1>2
<1>4. PICK a \in ages : \A b \in ages : <<b, a>> \notin OpToRel(<, Nat)
  <2> HIDE DEF ages
  <2>1. QED
    BY <1>3, NatLessThanWellFounded, WFMin
<1>5. \A b \in ages : ~(b < a)
  <2> HIDE DEF ages
  <2>1. QED
    BY <1>3, <1>4 DEF OpToRel
<1>6. PICK n \in Unread : a = age(n)
  OBVIOUS
<1>7. {m \in Unread : m.no > n.no} = {}
  <2>1. ASSUME NEW m \in Unread, m.no > n.no PROVE FALSE
    <3>1. age(m) \in ages
      OBVIOUS
    <3>2. ~(age(m) < age(n))
      BY <1>5, <1>6, <3>1
    <3>3. QED
      BY <1>1, <1>2, <2>1, <3>2
  <2>2. QED
    BY <2>1
<1>8. Cardinality({m \in Unread : m.no > n.no}) = 0
  BY <1>7, FS_EmptySet
<1>9. n \in Page(Unread, 1)
  <2>1. (1 - 1) * PerPage <= 0 /\ 0 < 1 * PerPage
    BY InboxAssumption
  <2>2. QED
    BY <1>8, <2>1 DEF Page
<1>10. QED
  BY <1>9 DEF Numbers

\* What a step of the application does to the unread rows and to the loop of one tab.
Wears ==
  /\ lastNotice' = lastNotice => Numbers(Unread') \subseteq Numbers(Unread)
  /\ \A t \in Thread :
       req[t].pc = "idle" /\ req'[t].pc = "mark" /\ req'[t].page = 1 /\ Unread # {} =>
         req'[t].todo # {}
  /\ \A t \in Thread :
       req[t].pc = "mark" /\ req'[t].pc = "mark" =>
         \A k \in req[t].todo \ req'[t].todo : k \notin Numbers(Unread')

\* The rows that one UPDATE leaves unread.
LEMMA MarkWears ==
  ASSUME ReadInv, NEW t \in Thread, Mark(t)
  PROVE  Wears
<1> DEFINE f(k, n) == IF n.no = k THEN [n EXCEPT !.checked = TRUE] ELSE n
<1>1. PICK k \in req[t].todo :
        /\ notices' = {f(k, n) : n \in notices}
        /\ req' = [req EXCEPT ![t].todo = @ \ {k}]
  BY DEF Mark
<1>2. \A n \in notices : /\ n.no = k => f(k, n).checked
                         /\ n.no # k => f(k, n) = n
                         /\ f(k, n).no = n.no
  BY DEF ReadInv, TypeOK, Notice
<1> HIDE DEF f
<1>3. req[t] \in Marking
  BY DEF Mark, ReadInv, TypeOK, Idle
<1>4. /\ req[t].pc = "mark" /\ req'[t].todo = req[t].todo \ {k}
      /\ \A s \in Thread : s # t => req'[s] = req[s]
  BY <1>1, <1>3 DEF Marking, ReadInv, TypeOK
<1>5. Unread' \subseteq {n \in Unread : n.no # k}
  BY <1>1, <1>2 DEF Unread
<1>6. Numbers(Unread') \subseteq Numbers(Unread) /\ k \notin Numbers(Unread')
  BY <1>5 DEF Numbers
<1>7. QED
  BY <1>4, <1>6 DEF Wears

\* The badge wears off with every visit of the first page, for any page size and any number
\* of tabs: the safety half of BadgeGoesOut (notifications_controller.rb:4-6).
THEOREM BadgeWearsOff == Spec => VisitsWearTheBadgeOff
<1>1. ReadInv /\ [Next]_vars => Wears
  <2> SUFFICES ASSUME ReadInv, [Next]_vars PROVE Wears
    OBVIOUS
  <2>1. CASE Arrive
    <3>1. lastNotice' # lastNotice /\ req' = req
      BY <2>1 DEF Arrive, ReadInv, TypeOK
    <3>2. QED
      BY <3>1 DEF Wears
  <2>2. ASSUME NEW n \in notices, Remove(n) PROVE Wears
    BY <2>2 DEF Remove, Wears, Unread, Numbers
  <2>3. ASSUME NEW t \in Thread, NEW p \in 1..MaxPage, Index(t, p) PROVE Wears
    <3>1. /\ req[t] = Idle /\ UNCHANGED <<notices, lastNotice>>
          /\ req'[t].page = p /\ req'[t].todo = Numbers(Page(Unread, p))
          /\ \A s \in Thread : s # t => req'[s] = req[s]
      BY <2>3 DEF Index, ReadInv, TypeOK
    <3>2. p = 1 /\ Unread # {} => req'[t].todo # {}
      BY <3>1, NewestComesFirst
    <3>3. Numbers(Unread') = Numbers(Unread)
      BY <3>1 DEF Unread
    <3>4. QED
      BY <3>1, <3>2, <3>3 DEF Wears, Idle
  <2>4. ASSUME NEW t \in Thread, Mark(t) PROVE Wears
    BY <2>4, MarkWears
  <2>5. ASSUME NEW t \in Thread, Show(t) \/ Abort(t) PROVE Wears
    <3>1. /\ UNCHANGED <<notices, lastNotice>> /\ req'[t] = Idle
          /\ \A s \in Thread : s # t => req'[s] = req[s]
      BY <2>5 DEF Show, Abort, ReadInv, TypeOK
    <3>2. Numbers(Unread') = Numbers(Unread)
      BY <3>1 DEF Unread
    <3>3. QED
      BY <3>1, <3>2 DEF Wears, Idle
  <2>6. CASE UNCHANGED vars
    BY <2>6 DEF vars, Wears, Unread
  <2>7. QED
    BY <2>1, <2>2, <2>3, <2>4, <2>5, <2>6 DEF Next
<1>2. QED
  BY <1>1, ReadInvHolds, PTL DEF Spec, VisitsWearTheBadgeOff, Wears

\* No later page takes anything to mark unless so many rows are unread that they fill the
\* pages before it: the comment at notifications_controller.rb:4 promises the unread rows of
\* the page, and the query finds a page of the unread rows.
THEOREM LaterPagesMarkNothing ==
  Spec => [][\A t \in Thread, p \in 1..MaxPage :
               Index(t, p) /\ Cardinality(Unread) <= (p - 1) * PerPage => req'[t].todo = {}]_vars
<1>1. ASSUME ReadInv, NEW t \in Thread, NEW p \in 1..MaxPage, Index(t, p),
             Cardinality(Unread) <= (p - 1) * PerPage
      PROVE  req'[t].todo = {}
  <2>1. IsFiniteSet(Unread)
    BY <1>1, FS_Subset DEF ReadInv, TypeOK, Unread
  <2>2. (p - 1) * PerPage \in Nat
    BY InboxAssumption
  <2>3. ASSUME NEW n \in Page(Unread, p) PROVE FALSE
    <3> DEFINE newer == {m \in Unread : m.no > n.no}
    <3>1. n \in Unread /\ (p - 1) * PerPage <= Cardinality(newer)
      BY <2>3 DEF Page
    <3>2. n.no \in Nat
      BY <1>1, <3>1 DEF ReadInv, TypeOK, Unread, Notice
    <3>3. newer \subseteq Unread /\ newer # Unread
      BY <3>1, <3>2
    <3> HIDE DEF newer
    <3>4. IsFiniteSet(newer) /\ Cardinality(newer) < Cardinality(Unread)
      <4>1. /\ IsFiniteSet(newer)
            /\ Cardinality(newer) <= Cardinality(Unread)
            /\ Cardinality(newer) = Cardinality(Unread) => newer = Unread
        BY <2>1, <3>3, FS_Subset
      <4>2. Cardinality(newer) \in Nat /\ Cardinality(Unread) \in Nat
        BY <2>1, <4>1, FS_CardinalityType
      <4>3. QED
        BY <3>3, <4>1, <4>2
    <3>5. Cardinality(newer) \in Nat /\ Cardinality(Unread) \in Nat
      BY <2>1, <3>4, FS_CardinalityType
    <3>6. QED
      BY <1>1, <2>2, <3>1, <3>4, <3>5
  <2>4. Numbers(Page(Unread, p)) = {}
    BY <2>3 DEF Numbers
  <2>5. QED
    BY <1>1, <2>4 DEF Index, ReadInv, TypeOK
<1>2. ReadInv /\ [Next]_vars =>
        [\A t \in Thread, p \in 1..MaxPage :
           Index(t, p) /\ Cardinality(Unread) <= (p - 1) * PerPage => req'[t].todo = {}]_vars
  BY <1>1
<1>3. QED
  BY <1>2, ReadInvHolds, PTL DEF Spec
=============================================================================
