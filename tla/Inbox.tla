-------------------------------- MODULE Inbox --------------------------------
(***************************************************************************)
(* One user's list of notifications: pages of PerPage rows, newest first,  *)
(* and the marking as read when a page is opened                           *)
(* (public/notifications_controller.rb, notification.rb,                   *)
(* notifications/index.html.erb).  The user may open several tabs; a step  *)
(* is one statement.                                                       *)
(*                                                                         *)
(* The notifications of one's own doings are left out: they are saved as   *)
(* read, and the page filters them out.                                    *)
(***************************************************************************)
EXTENDS Naturals, FiniteSets

CONSTANTS Thread,   \* the Puma threads that serve the user's tabs
          PerPage,  \* rows on a page: 20 in the code
          MaxPage,  \* bound: the last page that is asked for
          MaxNotice \* bound: how many notifications ever arrive

ASSUME InboxAssumption ==
  /\ PerPage \in Nat \ {0}
  /\ MaxPage \in Nat \ {0}
  /\ MaxNotice \in Nat

VARIABLES notices,    \* the user's rows of table notifications
          lastNotice, \* how many have arrived; the order of created_at
          req         \* req[t] is the request that thread t serves

vars == <<notices, lastNotice, req>>

-----------------------------------------------------------------------------
Notice == [no : Nat, checked : BOOLEAN]

Idle == [pc |-> "idle"]

\* todo: the rows of the loop that are not updated yet, by number.  listed (history): the
\* rows that the page held when the loop's query ran.
Marking == [pc : {"mark"}, page : 1..MaxPage, todo : SUBSET Nat, listed : SUBSET Nat]

TypeOK ==
  /\ notices \subseteq Notice
  /\ IsFiniteSet(notices)
  /\ lastNotice \in Nat
  /\ req \in [Thread -> {Idle} \cup Marking]

Init ==
  /\ notices = {}
  /\ lastNotice = 0
  /\ req = [t \in Thread |-> Idle]

-----------------------------------------------------------------------------
Unread == {n \in notices : ~n.checked}

\* Page p of the rows S: LIMIT PerPage OFFSET (p - 1) * PerPage, in the default scope's order.
Page(S, p) ==
  {n \in S : LET newer == Cardinality({m \in S : m.no > n.no})
             IN  (p - 1) * PerPage <= newer /\ newer < p * PerPage}

Numbers(S) == {n.no : n \in S}

\* Another user's request saves a notification, unread.
Arrive ==
  /\ lastNotice < MaxNotice
  /\ lastNotice' = lastNotice + 1
  /\ notices' = notices \cup {[no |-> lastNotice', checked |-> FALSE]}
  /\ UNCHANGED req

\* dependent: :destroy of what the notification is about.
Remove(n) ==
  /\ notices' = notices \ {n}
  /\ UNCHANGED <<lastNotice, req>>

\* Mutated: pages are counted from zero.
IndexFromZero(t, p) ==
  /\ req[t] = Idle
  /\ req' = [req EXCEPT ![t] = [pc |-> "mark", page |-> p, todo |-> Numbers(Page(Unread, p + 1)),
                                listed |-> Numbers(Page(notices, p))]]
  /\ UNCHANGED <<notices, lastNotice>>

\* Mutated: the request remembers an offset instead of a page.
IndexOffset(t, p) ==
  /\ req[t] = Idle
  /\ req' = [req EXCEPT ![t] = [pc |-> "mark", page |-> p - 1, todo |-> Numbers(Page(Unread, p)),
                                listed |-> Numbers(Page(notices, p))]]
  /\ UNCHANGED <<notices, lastNotice>>

\* The query of the loop: where(checked: false) joins the condition, and the page is one
\* of the unread rows, not the unread rows of the page.
Index(t, p) ==
  /\ req[t] = Idle
  /\ req' = [req EXCEPT ![t] = [pc |-> "mark", page |-> p, todo |-> Numbers(Page(Unread, p)),
                                listed |-> Numbers(Page(notices, p))]]
  /\ UNCHANGED <<notices, lastNotice>>

\* Mutated: the attribute is assigned and not saved.
MarkUnsaved(t) ==
  /\ req[t].pc = "mark"
  /\ \E k \in req[t].todo : req' = [req EXCEPT ![t].todo = @ \ {k}]
  /\ UNCHANGED <<notices, lastNotice>>

\* notification.update(checked: true), newest first; a row that is gone is no error.
Mark(t) ==
  /\ req[t].pc = "mark"
  /\ \E k \in req[t].todo :
       /\ \A j \in req[t].todo : j <= k
       /\ notices' = {IF n.no = k THEN [n EXCEPT !.checked = TRUE] ELSE n : n \in notices}
       /\ req' = [req EXCEPT ![t].todo = @ \ {k}]
  /\ UNCHANGED lastNotice

\* The view queries the page and renders it.
Show(t) ==
  /\ req[t].pc = "mark"
  /\ req[t].todo = {}
  /\ req' = [req EXCEPT ![t] = Idle]
  /\ UNCHANGED <<notices, lastNotice>>

\* The request ends early: the deploy job kills Puma, or a statement raises.
Abort(t) ==
  /\ req[t] # Idle
  /\ req' = [req EXCEPT ![t] = Idle]
  /\ UNCHANGED <<notices, lastNotice>>

-----------------------------------------------------------------------------
Next ==
  \/ Arrive
  \/ \E n \in notices : Remove(n)
  \/ \E t \in Thread :
       \/ \E p \in 1..MaxPage : Index(t, p)
       \/ Mark(t) \/ Show(t) \/ Abort(t)

Spec == Init /\ [][Next]_vars

-----------------------------------------------------------------------------
\* Thread t is about to render page p.
Ready(t, p) == req[t].pc = "mark" /\ req[t].todo = {} /\ req[t].page = p

\* notifications_controller.rb:3-7: what the first page lists is marked before it is shown,
\* whatever arrives, disappears or is marked in another tab meanwhile.
FirstPageIsRead ==
  \A t \in Thread : Ready(t, 1) => \A n \in notices : n.no \in req[t].listed => n.checked

\* The comment at notifications_controller.rb:4 says so of every page: of the records of the
\* page it takes the unread ones and marks them.
EveryPageIsRead ==
  \A t \in Thread, p \in 1..MaxPage :
    Ready(t, p) => \A n \in notices : n.no \in req[t].listed => n.checked

\* The badge of the layout (unchecked_notifications) goes out for good once nothing arrives
\* any more, for a user who keeps opening the first page: each visit takes up to PerPage of
\* the newest unread, on whatever page they are listed.
BadgeGoesOut ==
  []<><<\E t \in Thread : Show(t) /\ req[t].page = 1>>_vars => <>[](Unread = {})

\* Why the badge goes out: no tab turns a row unread again, no visit of the first page finds
\* nothing to mark while something is unread, and what a loop has worked off is read or gone,
\* whatever other tabs mark and others delete meanwhile (notifications_controller.rb:4-6).
VisitsWearTheBadgeOff ==
  [][/\ lastNotice' = lastNotice => Numbers(Unread') \subseteq Numbers(Unread)
     /\ \A t \in Thread :
          req[t].pc = "idle" /\ req'[t].pc = "mark" /\ req'[t].page = 1 /\ Unread # {} =>
            req'[t].todo # {}
     /\ \A t \in Thread :
          req[t].pc = "mark" /\ req'[t].pc = "mark" =>
            \A k \in req[t].todo \ req'[t].todo : k \notin Numbers(Unread')]_vars
=============================================================================
