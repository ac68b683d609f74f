--------------------------- MODULE PostFormsProofs ---------------------------
(***************************************************************************)
(* Theorems about PostForms, for any number of posts, pens, softwares,     *)
(* accounts, forms and threads.                                            *)
(***************************************************************************)
EXTENDS PostForms, TLAPS

Request == {Idle} \cup Editing \cup Destroying

\* What req[t] holds, by the kind of the request.
LEMMA RequestKinds ==
  ASSUME TypeOK, NEW t \in Thread
  PROVE  /\ req[t] \in Request
         /\ req[t].pc \notin {"idle", "destroy"} =>
              /\ req[t] \in Editing
              /\ req[t].post \in Post /\ req[t].form \in Form /\ req[t].read \in Row
              /\ req[t].doomed \in SUBSET PenRow
         /\ req[t].pc = "destroy" =>
              /\ req[t].posts \in SUBSET Post /\ req[t].doomed \in SUBSET PenRow
              /\ req[t].with \in Software \cup User \cup {"none"}
         /\ req[t] = Idle <=> req[t].pc = "idle"
<1>1. req[t] \in {Idle} \cup Editing \cup Destroying
  BY DEF TypeOK
<1>2. CASE req[t] = Idle
  BY <1>2 DEF Idle, Request
<1>3. CASE req[t] \in Editing
  BY <1>3 DEF Editing, Request, Idle
<1>4. CASE req[t] \in Destroying
  BY <1>4 DEF Destroying, Request, Idle
<1>5. QED
  BY <1>1, <1>2, <1>3, <1>4

LEMMA FormFields ==
  ASSUME NEW form \in Form
  PROVE  /\ form.no \in Nat /\ form.pens \in SUBSET Pen
         /\ form.status \in {"published", "draft", "keep"}
         /\ form.software \in Software \cup {"none"}
         /\ form.by \in {"author", "admin"}
BY DEF Form

\* A row of posts has a status of its own, an id without a row says why.
LEMMA RowKinds ==
  ASSUME TypeOK, NEW p \in Post
  PROVE  /\ posts[p] \in NoRow <=> posts[p].status \in {"unborn", "gone"}
         /\ posts[p] \notin NoRow <=> posts[p].status \in {"published", "draft"}
         /\ posts[p] \notin NoRow => posts[p] \in Row /\ posts[p].software \in Software \cup {"none"}
<1>1. posts[p] \in Row \cup NoRow
  BY DEF TypeOK
<1>2. CASE posts[p] \in Row
  <2>1. posts[p].status \in {"published", "draft"}
    BY <1>2 DEF Row
  <2>2. posts[p] \notin NoRow
    BY <2>1 DEF NoRow
  <2>3. QED
    BY <1>2, <2>1, <2>2 DEF Row
<1>3. CASE posts[p] \in NoRow
  BY <1>3 DEF NoRow
<1>4. QED
  BY <1>1, <1>2, <1>3

LEMMA AssignedIsRow ==
  ASSUME NEW read \in Row, NEW form \in Form
  PROVE  /\ Assigned(read, form) \in Row
         /\ Assigned(read, form).software = form.software
         /\ form.status # "keep" => Assigned(read, form).status = form.status
         /\ form.status = "keep" => Assigned(read, form).status = read.status
         /\ Assigned(Assigned(read, form), form) = Assigned(read, form)
<1>1. /\ read.status \in {"published", "draft"}
      /\ form.status \in {"published", "draft", "keep"}
      /\ form.software \in Software \cup {"none"}
  BY FormFields DEF Row
<1>2. QED
  BY <1>1 DEF Assigned, Row

\* Where nobody has changed the row since it was read, the whole form is written.
LEMMA WrittenIsRow ==
  ASSUME TypeOK, NEW p \in Post, NEW read \in Row, NEW form \in Form
  PROVE  /\ posts[p] \in NoRow => Written(p, read, form) = posts[p]
         /\ posts[p] \notin NoRow =>
              /\ Written(p, read, form) \in Row
              /\ Written(p, read, form) \notin NoRow
              /\ posts[p] = read => Written(p, read, form) = Assigned(read, form)
<1>1. CASE posts[p] \in NoRow
  BY <1>1 DEF Written
<1>2. CASE posts[p] \notin NoRow
  <2>1. /\ posts[p].status \in {"published", "draft"}
        /\ posts[p].software \in Software \cup {"none"}
        /\ posts[p] \in Row
    BY <1>2, RowKinds
  <2> DEFINE new == Assigned(read, form)
             row == [status |-> IF new.status # read.status THEN new.status ELSE posts[p].status,
                     software |-> IF new.software # read.software
                                  THEN new.software ELSE posts[p].software]
  <2>2. new \in Row
    BY AssignedIsRow
  <2>3. Written(p, read, form) = row
    BY <1>2 DEF Written
  <2>4. /\ new.status \in {"published", "draft"}
        /\ new.software \in Software \cup {"none"}
        /\ new = [status |-> new.status, software |-> new.software]
    BY <2>2 DEF Row
  <2> HIDE DEF new
  <2>5. row \in Row
    BY <2>1, <2>4 DEF Row
  <2>6. row.status \in {"published", "draft"}
    BY <2>5 DEF Row
  <2>7. row \notin NoRow
    BY <2>6 DEF NoRow
  <2>8. posts[p] = read => row = new
    BY <2>4
  <2>9. QED
    BY <1>2, <2>3, <2>5, <2>7, <2>8 DEF new
<1>3. QED
  BY <1>1, <1>2

LEMMA BuiltPensAreRows ==
  ASSUME NEW p \in Post, NEW form \in Form, NEW saves \in SUBSET {"first", "second", "final"}
  PROVE  BuiltPens(p, form, saves) \subseteq PenRow
BY FormFields DEF BuiltPens, PenRow

-----------------------------------------------------------------------------
\* The parts that the steps of a request are made of.
OthersWait(t) == \A s \in Thread : s # t => req'[s] = req[s]

Raises(t) ==
  /\ posts[req[t].post] \in NoRow
  /\ cut' = cut \cup {req[t].form.no}
  /\ req'[t] = Idle
  /\ UNCHANGED <<posts, pens>>

Stores(t, saves) ==
  /\ posts' = [posts EXCEPT ![req[t].post] = Written(req[t].post, req[t].read, req[t].form)]
  /\ pens' = pens \cup BuiltPens(req[t].post, req[t].form, saves)
  /\ posts[req[t].post] \in NoRow => req[t].form.pens = {}
  /\ cut' = cut

GoesOn(t, pc) ==
  /\ req'[t] \in Editing
  /\ req'[t].pc = pc
  /\ req'[t].post = req[t].post /\ req'[t].form = req[t].form

Saved(t, pc) == GoesOn(t, pc) /\ req'[t].read = Assigned(req[t].read, req[t].form)

Drafted(t) == req[t].form.by = "author" /\ Assigned(req[t].read, req[t].form).status = "draft"

\* A save for which the request still has its place in memory.
LEMMA Goes ==
  ASSUME TypeOK, NEW t \in Thread, NEW pc \in {"second", "load", "load_draft"},
         req[t].pc \notin {"idle", "destroy"}, req'[t] = GoOn(t, pc)
  PROVE  Saved(t, pc)
<1>1. /\ req[t] \in Editing /\ req[t].read \in Row /\ req[t].form \in Form
  BY RequestKinds
<1>2. Assigned(req[t].read, req[t].form) \in Row
  BY <1>1, AssignedIsRow
<1>3. GoOn(t, pc) = [req[t] EXCEPT !.pc = pc, !.read = Assigned(req[t].read, req[t].form)]
  BY DEF GoOn
<1> DEFINE new == Assigned(req[t].read, req[t].form)
<1>5. new \in Row
  BY <1>2
<1>6. req'[t] = [req[t] EXCEPT !.pc = pc, !.read = new]
  BY <1>3
<1> HIDE DEF new
<1>7. /\ req'[t] \in Editing
      /\ req'[t].pc = pc /\ req'[t].post = req[t].post /\ req'[t].form = req[t].form
      /\ req'[t].read = new
  BY <1>1, <1>5, <1>6 DEF Editing
<1>8. QED
  BY <1>7 DEF Saved, GoesOn, new

LEMMA CreateStep ==
  ASSUME TypeOK, NEW t \in Thread, NEW p \in Post, NEW form \in Form, Create(t, p, form)
  PROVE  /\ req[t] = Idle /\ OthersWait(t)
         /\ posts[p].status = "unborn" /\ ~Busy(p)
         /\ Owner[p] \in users
         /\ Complete(form) \/ form.status = "draft"
         /\ req'[t] \in Editing
         /\ req'[t].pc = "create" /\ req'[t].post = p /\ req'[t].form = form
         /\ req'[t].doomed = {}
         /\ req'[t].read.status = form.status /\ req'[t].read.software = form.software
         /\ lastForm' = lastForm + 1
         /\ contended \subseteq contended' /\ contended' \subseteq contended \cup {p}
         /\ \A o \in Thread : Undercuts(o, p, form.software) => p \in contended'
         /\ UNCHANGED <<posts, pens, softwares, users, cut, claim, crossed>>
<1>1. form.software \in Software \cup {"none"} /\ form.status \in {"published", "draft"}
  BY FormFields DEF Create
<1>2. [pc |-> "create", post |-> p, form |-> form, doomed |-> {},
       read |-> [status |-> form.status, software |-> form.software]] \in Editing
  BY <1>1 DEF Editing, Row
<1>3. QED
  BY <1>1, <1>2 DEF Create, OthersWait, TypeOK, parents, met

LEMMA InsertStep ==
  ASSUME TypeOK, NEW t \in Thread, Insert(t)
  PROVE  /\ req[t].pc = "create" /\ OthersWait(t) /\ req'[t] = Idle
         /\ posts' = [posts EXCEPT ![req[t].post] = req[t].read]
         /\ pens' = pens \cup BuiltPens(req[t].post, req[t].form, {"final"})
         /\ claim' = [claim EXCEPT ![req[t].post] = [known |-> TRUE, pens |-> req[t].form.pens]]
         /\ UNCHANGED <<softwares, users, lastForm, cut, contended, crossed>>
BY DEF Insert, OthersWait, TypeOK, parents, met

LEMMA EditStep ==
  ASSUME TypeOK, NEW t \in Thread, NEW p \in Post, NEW form \in Form, Edit(t, p, form)
  PROVE  /\ req[t] = Idle /\ OthersWait(t)
         /\ posts[p] \notin NoRow
         /\ req'[t] \in Editing
         /\ req'[t].pc \in {"load", "first", "save_draft"}
         /\ req'[t].pc = "load" => form.by = "admin"
         /\ req'[t].pc = "first" => Complete(form) /\ Owner[p] \in users
         /\ req'[t].pc = "save_draft" => Assigned(posts[p], form).status = "draft"
         /\ req'[t].post = p /\ req'[t].form = form
         /\ req'[t].doomed = {}
         /\ req'[t].read = posts[p]
         /\ lastForm' = lastForm + 1
         /\ contended \subseteq contended' /\ contended' \subseteq contended \cup {p}
         /\ Busy(p) => p \in contended'
         /\ \A o \in Thread : Undercuts(o, p, form.software) => p \in contended'
         /\ crossed' = IF Busy(p) THEN crossed \cup {p} ELSE crossed \ {p}
         /\ claim' = [claim EXCEPT ![p] = InDoubt]
         /\ UNCHANGED <<posts, pens, softwares, users, cut>>
<1> DEFINE pc == IF form.by = "admin" THEN "load"
                 ELSE IF Complete(form) THEN "first" ELSE "save_draft"
           new == [pc |-> pc, post |-> p, form |-> form, read |-> posts[p], doomed |-> {}]
<1>1. posts[p] \in Row
  BY RowKinds DEF Edit
<1>2. new \in Editing
  BY <1>1 DEF Editing
<1>3. req' = [req EXCEPT ![t] = new]
  BY DEF Edit
<1>4. /\ new.pc = pc /\ new.post = p /\ new.form = form /\ new.read = posts[p] /\ new.doomed = {}
  OBVIOUS
<1> HIDE DEF new
<1>5. req'[t] = new /\ OthersWait(t)
  BY <1>3 DEF TypeOK, OthersWait
<1>6. /\ pc \in {"load", "first", "save_draft"}
      /\ pc = "load" => form.by = "admin"
      /\ pc = "first" => Complete(form) /\ form.by # "admin"
      /\ pc = "save_draft" => ~Complete(form) /\ form.by # "admin"
  OBVIOUS
<1> HIDE DEF pc
<1>7. /\ form.by # "admin" => Owner[p] \in users /\ (Complete(form) \/ Assigned(posts[p], form).status = "draft")
      /\ req[t] = Idle /\ posts[p] \notin NoRow
      /\ lastForm' = lastForm + 1
      /\ contended \subseteq contended' /\ contended' \subseteq contended \cup {p}
      /\ Busy(p) => p \in contended'
      /\ \A o \in Thread : Undercuts(o, p, form.software) => p \in contended'
      /\ crossed' = IF Busy(p) THEN crossed \cup {p} ELSE crossed \ {p}
      /\ claim' = [claim EXCEPT ![p] = InDoubt]
      /\ UNCHANGED <<posts, pens, softwares, users, cut>>
  BY DEF Edit, parents, met
<1>8. QED
  BY <1>2, <1>4, <1>5, <1>6, <1>7

\* A save either raises or stores, and then the request is what next says.
LEMMA SaveParts ==
  ASSUME TypeOK, NEW t \in Thread, NEW STATE saves, NEW STATE next, Save(t, saves, next)
  PROVE  /\ OthersWait(t)
         /\ Raises(t) \/ (Stores(t, saves) /\ req'[t] = next)
<1>1. CASE posts[req[t].post] \in NoRow /\ req[t].form.pens # {}
  BY <1>1 DEF Save, OthersWait, Raises, TypeOK
<1>2. CASE ~(posts[req[t].post] \in NoRow /\ req[t].form.pens # {})
  BY <1>2 DEF Save, OthersWait, Stores, TypeOK
<1>3. QED
  BY <1>1, <1>2

LEMMA FirstSaveStep ==
  ASSUME TypeOK, NEW t \in Thread, FirstSave(t)
  PROVE  /\ req[t].pc = "first" /\ OthersWait(t)
         /\ Raises(t) \/ (Stores(t, {"first"}) /\ Saved(t, "second"))
         /\ UNCHANGED <<softwares, users, lastForm, claim, contended, crossed>>
<1>1. req[t].pc = "first" /\ Save(t, {"first"}, GoOn(t, "second"))
      /\ UNCHANGED <<softwares, users, lastForm, claim, contended, crossed>>
  BY DEF FirstSave, parents, met
<1>2. OthersWait(t) /\ (Raises(t) \/ (Stores(t, {"first"}) /\ req'[t] = GoOn(t, "second")))
  BY <1>1, SaveParts
<1>3. QED
  BY <1>1, <1>2, Goes

LEMMA SecondSaveStep ==
  ASSUME TypeOK, NEW t \in Thread, SecondSave(t)
  PROVE  /\ req[t].pc = "second" /\ OthersWait(t)
         /\ Raises(t) \/ (Stores(t, {"second"}) /\ Saved(t, "load"))
         /\ UNCHANGED <<softwares, users, lastForm, claim, contended, crossed>>
<1>1. req[t].pc = "second" /\ Save(t, {"second"}, GoOn(t, "load"))
      /\ UNCHANGED <<softwares, users, lastForm, claim, contended, crossed>>
  BY DEF SecondSave, parents, met
<1>2. OthersWait(t) /\ (Raises(t) \/ (Stores(t, {"second"}) /\ req'[t] = GoOn(t, "load")))
  BY <1>1, SaveParts
<1>3. QED
  BY <1>1, <1>2, Goes

LEMMA SaveDraftStep ==
  ASSUME TypeOK, NEW t \in Thread, SaveDraft(t)
  PROVE  /\ req[t].pc = "save_draft" /\ OthersWait(t)
         /\ \/ Raises(t)
            \/ Stores(t, {"first", "second", "final"}) /\ Saved(t, "load_draft")
         /\ UNCHANGED <<softwares, users, lastForm, claim, contended, crossed>>
<1>1. /\ req[t].pc = "save_draft"
      /\ Save(t, {"first", "second", "final"}, GoOn(t, "load_draft"))
      /\ UNCHANGED <<softwares, users, lastForm, claim, contended, crossed>>
  BY DEF SaveDraft, parents, met
<1>2. /\ OthersWait(t)
      /\ Raises(t) \/ (Stores(t, {"first", "second", "final"}) /\ req'[t] = GoOn(t, "load_draft"))
  BY <1>1, SaveParts
<1>3. QED
  BY <1>1, <1>2, Goes

LEMMA FinalSaveStep ==
  ASSUME TypeOK, NEW t \in Thread, FinalSave(t)
  PROVE  /\ req[t].pc = "final" /\ OthersWait(t)
         /\ \/ Raises(t)
            \/ Stores(t, {"final"}) /\ ~Drafted(t) /\ req'[t] = Idle
            \/ /\ Stores(t, {"final"}) /\ Drafted(t)
               /\ Saved(t, "clean_draft")
               /\ req'[t].doomed = BuiltPens(req[t].post, req[t].form, {"final"})
         /\ Claimed(t)
         /\ UNCHANGED <<softwares, users, lastForm, contended, crossed>>
<1> DEFINE doomed == BuiltPens(req[t].post, req[t].form, {"final"})
           new == Assigned(req[t].read, req[t].form)
           went == [[req[t] EXCEPT !.pc = "clean_draft", !.read = new] EXCEPT !.doomed = doomed]
<1>1. /\ req[t].pc = "final"
      /\ Save(t, {"final"}, IF Drafted(t) THEN went ELSE Idle)
      /\ Claimed(t)
      /\ UNCHANGED <<softwares, users, lastForm, contended, crossed>>
  BY DEF FinalSave, parents, met, Drafted, GoOn
<1>2. /\ OthersWait(t)
      /\ \/ Raises(t)
         \/ Stores(t, {"final"}) /\ req'[t] = IF Drafted(t) THEN went ELSE Idle
  BY <1>1, SaveParts
<1>3. req[t] \in Editing /\ req[t].post \in Post /\ req[t].read \in Row /\ req[t].form \in Form
  BY <1>1, RequestKinds
<1>4. new \in Row
  BY <1>3, AssignedIsRow
<1>5. doomed \in SUBSET PenRow
  BY <1>3, BuiltPensAreRows
<1>6. /\ went \in Editing /\ went.pc = "clean_draft" /\ went.read = new /\ went.doomed = doomed
      /\ went.post = req[t].post /\ went.form = req[t].form
  <2> HIDE DEF new, doomed
  <2>1. QED
    BY <1>3, <1>4, <1>5 DEF Editing
<1>7. ASSUME Drafted(t), req'[t] = went
      PROVE  Saved(t, "clean_draft") /\ req'[t].doomed = doomed
  <2> HIDE DEF went
  <2>1. QED
    BY <1>6, <1>7 DEF Saved, GoesOn
<1> HIDE DEF went, doomed
<1>8. QED
  BY <1>1, <1>2, <1>7 DEF doomed

LEMMA LoadPensStep ==
  ASSUME TypeOK, NEW t \in Thread, LoadPens(t)
  PROVE  /\ req[t].pc \in {"load", "load_draft"} /\ OthersWait(t)
         /\ GoesOn(t, IF req[t].pc = "load" THEN "clean" ELSE "clean_draft")
         /\ req'[t].read = req[t].read
         /\ req'[t].doomed = PensOf(req[t].post)
         /\ UNCHANGED <<posts, pens, softwares, users, lastForm, cut, claim, contended, crossed>>
<1> DEFINE doomed == PensOf(req[t].post)
           pc == IF req[t].pc = "load" THEN "clean" ELSE "clean_draft"
<1>1. req[t].pc \in {"load", "load_draft"} /\ req[t] \in Editing
  BY RequestKinds DEF LoadPens
<1>2. doomed \in SUBSET PenRow
  BY DEF PensOf, TypeOK
<1>3. req' = [req EXCEPT ![t] = [req[t] EXCEPT !.doomed = doomed, !.pc = pc]]
  BY DEF LoadPens, TypeOK
<1>4. req'[t] = [req[t] EXCEPT !.doomed = doomed, !.pc = pc] /\ OthersWait(t)
  BY <1>3 DEF TypeOK, OthersWait
<1>5. pc \in {"clean", "clean_draft"}
  OBVIOUS
<1> HIDE DEF doomed, pc
<1>6. /\ req'[t] \in Editing /\ req'[t].pc = pc /\ req'[t].read = req[t].read
      /\ req'[t].doomed = doomed /\ req'[t].post = req[t].post /\ req'[t].form = req[t].form
  BY <1>1, <1>2, <1>4, <1>5 DEF Editing
<1>7. UNCHANGED <<posts, pens, softwares, users, lastForm, cut, claim, contended, crossed>>
  BY DEF LoadPens, parents, met
<1>8. QED
  BY <1>1, <1>4, <1>6, <1>7 DEF GoesOn, doomed, pc

LEMMA CleanedStep ==
  ASSUME TypeOK, NEW t \in Thread, Cleaned(t)
  PROVE  /\ req[t].pc = "clean" /\ OthersWait(t)
         /\ req[t].doomed \cap pens = {}
         /\ \/ /\ req[t].form.by = "author" \/ (Complete(req[t].form) /\ Owner[req[t].post] \in users)
               /\ GoesOn(t, "final") /\ req'[t].read = req[t].read /\ req'[t].doomed = {}
               /\ claim' = claim
            \/ /\ req'[t] = Idle
               /\ claim' = [claim EXCEPT ![req[t].post] = [known |-> TRUE, pens |-> {}]]
         /\ UNCHANGED <<posts, pens, softwares, users, lastForm, cut, contended, crossed>>
<1>1. /\ req[t].pc = "clean" /\ req[t] \in Editing /\ req[t].doomed \cap pens = {}
      /\ UNCHANGED <<posts, pens, softwares, users, lastForm, cut, contended, crossed>>
  BY RequestKinds DEF Cleaned, parents, met
<1>2. CASE req[t].form.by = "author" \/ (Complete(req[t].form) /\ Owner[req[t].post] \in users)
  <2>1. req' = [req EXCEPT ![t] = [req[t] EXCEPT !.pc = "final", !.doomed = {}]] /\ claim' = claim
    BY <1>2 DEF Cleaned, TypeOK
  <2>2. req'[t] = [req[t] EXCEPT !.pc = "final", !.doomed = {}] /\ OthersWait(t)
    BY <2>1 DEF TypeOK, OthersWait
  <2>3. /\ req'[t] \in Editing /\ req'[t].pc = "final" /\ req'[t].read = req[t].read
        /\ req'[t].doomed = {} /\ req'[t].post = req[t].post /\ req'[t].form = req[t].form
    BY <1>1, <2>2 DEF Editing
  <2>4. QED
    BY <1>1, <1>2, <2>1, <2>2, <2>3 DEF GoesOn
<1>3. CASE ~(req[t].form.by = "author" \/ (Complete(req[t].form) /\ Owner[req[t].post] \in users))
  BY <1>1, <1>3 DEF Cleaned, TypeOK, OthersWait
<1>4. QED
  BY <1>2, <1>3

LEMMA DraftSavedStep ==
  ASSUME TypeOK, NEW t \in Thread, DraftSaved(t)
  PROVE  /\ req[t].pc = "clean_draft" /\ OthersWait(t) /\ req'[t] = Idle
         /\ req[t].doomed \cap pens = {}
         /\ claim' = [claim EXCEPT ![req[t].post] = [known |-> TRUE, pens |-> req[t].form.pens]]
         /\ UNCHANGED <<posts, pens, softwares, users, lastForm, cut, contended, crossed>>
BY DEF DraftSaved, TypeOK, OthersWait, parents, met

\* A destroy that begins, whichever of the three it is.
LEMMA DestroyStep ==
  ASSUME TypeOK, NEW t \in Thread, Destroy(t)
  PROVE  /\ req[t] = Idle /\ OthersWait(t)
         /\ req'[t] \in Destroying /\ req'[t].pc = "destroy"
         /\ req'[t].doomed = {r \in pens : r.post \in req'[t].posts}
         /\ \A p \in req'[t].posts : posts[p] \notin NoRow
         /\ \A p \in Post : /\ posts[p] \notin NoRow
                            /\ req'[t].with \in {posts[p].software, Owner[p]} \ {"none"}
                            => p \in req'[t].posts
         /\ contended \subseteq contended'
         /\ \A p \in req'[t].posts : Busy(p) => p \in contended'
         /\ \A p \in Post, o \in Thread :
              Edits(o, p) /\ req'[t].with \in {req[o].form.software, Owner[p]} \ {"none"}
                => p \in contended'
         /\ contended' \subseteq Post
         /\ crossed \subseteq crossed' /\ crossed' \subseteq Post
         /\ \A p \in req'[t].posts : Busy(p) => p \in crossed'
         /\ UNCHANGED <<posts, pens, softwares, users, lastForm, cut, claim>>
<1> DEFINE byNone(ps, with) == with = "none"
           bySoftware(ps, with) ==
             with \in Software /\ ps = {p \in Post : posts[p] \notin NoRow /\ posts[p].software = with}
           byUser(ps, with) ==
             with \in User /\ ps = {p \in Post : posts[p] \notin NoRow /\ Owner[p] = with}
<1>1. PICK ps \in SUBSET Post, with \in Software \cup User \cup {"none"} :
        /\ \A p \in ps : posts[p] \notin NoRow
        /\ byNone(ps, with) \/ bySoftware(ps, with) \/ byUser(ps, with)
        /\ DestroyPosts(t, ps, with)
  <2>1. CASE \E p \in Post : posts[p] \notin NoRow /\ DestroyPosts(t, {p}, "none")
    BY <2>1
  <2>2. CASE \E s \in Software :
               /\ softwares[s] = "listed"
               /\ DestroyPosts(t, {p \in Post : posts[p] \notin NoRow /\ posts[p].software = s}, s)
    <3>1. PICK s \in Software :
            DestroyPosts(t, {p \in Post : posts[p] \notin NoRow /\ posts[p].software = s}, s)
      BY <2>2
    <3> DEFINE ps == {p \in Post : posts[p] \notin NoRow /\ posts[p].software = s}
    <3>2. ps \in SUBSET Post /\ (\A p \in ps : posts[p] \notin NoRow) /\ bySoftware(ps, s)
      OBVIOUS
    <3>3. QED
      BY <3>1, <3>2
  <2>3. CASE \E u \in users :
               DestroyPosts(t, {p \in Post : posts[p] \notin NoRow /\ Owner[p] = u}, u)
    <3>1. PICK u \in User : DestroyPosts(t, {p \in Post : posts[p] \notin NoRow /\ Owner[p] = u}, u)
      BY <2>3 DEF TypeOK
    <3> DEFINE ps == {p \in Post : posts[p] \notin NoRow /\ Owner[p] = u}
    <3>2. ps \in SUBSET Post /\ (\A p \in ps : posts[p] \notin NoRow) /\ byUser(ps, u)
      OBVIOUS
    <3>3. QED
      BY <3>1, <3>2
  <2>4. QED
    BY <2>1, <2>2, <2>3 DEF Destroy
<1> DEFINE doomed == {r \in pens : r.post \in ps}
           new == [pc |-> "destroy", posts |-> ps, with |-> with, doomed |-> doomed]
<1>2. doomed \in SUBSET PenRow
  BY DEF TypeOK
<1>3. new \in Destroying
  BY <1>2 DEF Destroying
<1>4. new.pc = "destroy" /\ new.posts = ps /\ new.with = with /\ new.doomed = doomed
  OBVIOUS
<1>5. req[t] = Idle /\ req' = [req EXCEPT ![t] = new]
  BY <1>1 DEF DestroyPosts
<1> HIDE DEF new
<1>6. req'[t] = new /\ OthersWait(t)
  BY <1>5 DEF TypeOK, OthersWait
<1>7. /\ contended \subseteq contended'
      /\ \A p \in ps : Busy(p) => p \in contended'
      /\ \A p \in Post, o \in Thread :
           Edits(o, p) /\ with \in {req[o].form.software, Owner[p]} \ {"none"} => p \in contended'
      /\ contended' \subseteq Post
      /\ crossed \subseteq crossed' /\ crossed' \subseteq Post
      /\ \A p \in ps : Busy(p) => p \in crossed'
      /\ UNCHANGED <<posts, pens, softwares, users, lastForm, cut, claim>>
  BY <1>1 DEF DestroyPosts, parents, met, TypeOK
<1>8. ASSUME NEW p \in Post, posts[p] \notin NoRow, with \in {posts[p].software, Owner[p]} \ {"none"}
      PROVE  p \in ps
  <2>1. posts[p].software \in Software \cup {"none"} /\ Owner[p] \in User
    BY <1>8, RowKinds, PostFormsAssumption
  <2>2. CASE bySoftware(ps, with)
    BY <1>8, <2>1, <2>2, PostFormsAssumption
  <2>3. CASE byUser(ps, with)
    BY <1>8, <2>1, <2>3, PostFormsAssumption
  <2>4. QED
    BY <1>1, <1>8, <2>2, <2>3
<1>9. QED
  BY <1>1, <1>3, <1>4, <1>5, <1>6, <1>7, <1>8

LEMMA CommitDestroyStep ==
  ASSUME TypeOK, NEW t \in Thread, CommitDestroy(t)
  PROVE  /\ req[t].pc = "destroy" /\ OthersWait(t) /\ req'[t] = Idle
         /\ \/ /\ \A r \in pens : r.post \in req[t].posts => r \in req[t].doomed
               /\ posts' = [p \in Post |-> IF p \in req[t].posts
                                          THEN [status |-> "gone"] ELSE posts[p]]
               /\ pens' = pens \ req[t].doomed
               /\ softwares' = [s \in Software |-> IF s = req[t].with THEN "gone" ELSE softwares[s]]
               /\ users' = users \ {req[t].with}
            \/ UNCHANGED <<posts, pens, softwares, users>>
         /\ UNCHANGED <<lastForm, cut, claim, contended, crossed>>
BY DEF CommitDestroy, TypeOK, OthersWait, parents, met

LEMMA AbortStep ==
  ASSUME TypeOK, NEW t \in Thread, Abort(t)
  PROVE  /\ req[t] # Idle /\ OthersWait(t) /\ req'[t] = Idle
         /\ cut \subseteq cut'
         /\ req[t].pc # "destroy" => req[t].form.no \in cut'
         /\ cut' \subseteq cut \cup {req[t].form.no}
         /\ req[t].pc = "destroy" => cut' = cut
         /\ UNCHANGED <<posts, pens, softwares, users, lastForm, claim, contended, crossed>>
BY DEF Abort, TypeOK, OthersWait, parents, met

LEMMA NextSteps ==
  ASSUME TypeOK, [Next]_vars
  PROVE  \/ \E t \in Thread, p \in Post, form \in Form : Create(t, p, form) \/ Edit(t, p, form)
         \/ \E s \in Software : CreateSoftware(s)
         \/ \E t \in Thread :
              \/ Insert(t) \/ FirstSave(t) \/ SecondSave(t) \/ LoadPens(t) \/ DestroyPen(t)
              \/ Cleaned(t) \/ FinalSave(t) \/ SaveDraft(t) \/ DraftSaved(t)
              \/ Destroy(t) \/ CommitDestroy(t) \/ Abort(t)
         \/ UNCHANGED vars
<1> DEFINE form(status, software, x, by) ==
             [no |-> lastForm + 1, status |-> status, software |-> software, pens |-> x, by |-> by]
<1>1. ASSUME NEW t \in Thread, NEW p \in Post, NEW status \in {"published", "draft", "keep"},
             NEW software \in Offered, NEW x \in SUBSET Pen, NEW by \in {"author", "admin"},
             Create(t, p, form(status, software, x, by)) \/ Edit(t, p, form(status, software, x, by))
      PROVE  \E f \in Form : Create(t, p, f) \/ Edit(t, p, f)
  <2>1. form(status, software, x, by) \in Form
    BY DEF Form, Offered, TypeOK
  <2> HIDE DEF form
  <2>2. QED
    BY <1>1, <2>1
<1>2. CASE UNCHANGED vars
  BY <1>2
<1>3. CASE \E t \in Thread, p \in Post, status \in {"published", "draft", "keep"},
             software \in Offered, x \in SUBSET Pen, by \in {"author", "admin"} :
               LET f == form(status, software, x, by) IN Create(t, p, f) \/ Edit(t, p, f)
  <2>1. PICK t \in Thread, p \in Post, status \in {"published", "draft", "keep"},
             software \in Offered, x \in SUBSET Pen, by \in {"author", "admin"} :
               Create(t, p, form(status, software, x, by)) \/ Edit(t, p, form(status, software, x, by))
    BY <1>3
  <2>2. \E f \in Form : Create(t, p, f) \/ Edit(t, p, f)
    BY <1>1, <2>1
  <2>3. QED
    BY <2>2
<1>4. QED
  BY <1>2, <1>3 DEF Next

\* A save that stores keeps the types.
LEMMA StoresTypes ==
  ASSUME TypeOK, NEW t \in Thread, NEW saves \in SUBSET {"first", "second", "final"},
         req[t].pc \notin {"idle", "destroy"}, Raises(t) \/ Stores(t, saves)
  PROVE  posts' \in [Post -> Row \cup NoRow] /\ pens' \subseteq PenRow /\ cut' \subseteq Nat
<1>1. req[t].post \in Post /\ req[t].read \in Row /\ req[t].form \in Form /\ req[t].form.no \in Nat
  BY RequestKinds, FormFields
<1>2. CASE Raises(t)
  BY <1>1, <1>2 DEF Raises, TypeOK
<1>3. CASE Stores(t, saves)
  <2>1. Written(req[t].post, req[t].read, req[t].form) \in Row \cup NoRow
    BY <1>1, WrittenIsRow
  <2>2. BuiltPens(req[t].post, req[t].form, saves) \subseteq PenRow
    BY <1>1, BuiltPensAreRows
  <2>3. QED
    BY <1>3, <2>1, <2>2 DEF Stores, TypeOK
<1>4. QED
  BY <1>2, <1>3

\* req stays a function on the threads.
LEMMA RequestsAreUpdated ==
  ASSUME TypeOK, [Next]_vars
  PROVE  req' = [s \in Thread |-> req'[s]]
<1>1. ASSUME NEW t \in Thread, NEW STATE saves, NEW STATE next, Save(t, saves, next)
      PROVE  req' = [s \in Thread |-> req'[s]]
  BY <1>1 DEF Save, TypeOK
<1>2. ASSUME NEW t \in Thread
      PROVE  /\ FirstSave(t) => req' = [s \in Thread |-> req'[s]]
             /\ SecondSave(t) => req' = [s \in Thread |-> req'[s]]
             /\ FinalSave(t) => req' = [s \in Thread |-> req'[s]]
             /\ SaveDraft(t) => req' = [s \in Thread |-> req'[s]]
  BY <1>1 DEF FirstSave, SecondSave, FinalSave, SaveDraft
<1>3. ASSUME NEW t \in Thread
      PROVE  /\ \A p \in Post : \A form \in Form :
                  (Create(t, p, form) \/ Edit(t, p, form)) => req' = [s \in Thread |-> req'[s]]
             /\ Insert(t) \/ LoadPens(t) \/ DestroyPen(t) \/ Cleaned(t) \/ DraftSaved(t)
                \/ CommitDestroy(t) \/ Abort(t) => req' = [s \in Thread |-> req'[s]]
             /\ Destroy(t) => req' = [s \in Thread |-> req'[s]]
  BY DEF Create, Edit, Insert, LoadPens, DestroyPen, Cleaned, DraftSaved, CommitDestroy, Abort,
         Destroy, DestroyPosts, TypeOK
<1>4. CASE UNCHANGED vars
  BY <1>4 DEF vars, TypeOK
<1>5. \A s \in Software : CreateSoftware(s) => req' = [r \in Thread |-> req'[r]]
  BY DEF CreateSoftware, TypeOK
<1>6. QED
  BY <1>2, <1>3, <1>4, <1>5, NextSteps

Claim == [known : BOOLEAN, pens : SUBSET Pen]

LEMMA ClaimType ==
  ASSUME TypeOK, NEW p \in Post, NEW c \in Claim
  PROVE  [claim EXCEPT ![p] = c] \in [Post -> [known : BOOLEAN, pens : SUBSET Pen]]
BY DEF Claim, TypeOK

LEMMA Claims ==
  ASSUME NEW x \in SUBSET Pen
  PROVE  /\ [known |-> TRUE, pens |-> x] \in Claim
         /\ InDoubt \in Claim
         /\ [known |-> TRUE, pens |-> {}] \in Claim
BY DEF Claim, InDoubt

LEMMA TypeInvariant == TypeOK /\ [Next]_vars => TypeOK'
<1> SUFFICES ASSUME TypeOK, [Next]_vars PROVE TypeOK'
  OBVIOUS
<1>r. req' = [s \in Thread |-> req'[s]]
  BY RequestsAreUpdated
<1>0. ASSUME NEW t \in Thread, OthersWait(t), req'[t] \in Request
      PROVE  req' \in [Thread -> {Idle} \cup Editing \cup Destroying]
  BY <1>r, <1>0 DEF OthersWait, TypeOK, Request
<1>i. Idle \in Request
  BY DEF Request
<1>e. Editing \subseteq Request /\ Destroying \subseteq Request
  BY DEF Request
<1>1. ASSUME NEW t \in Thread, NEW p \in Post, NEW form \in Form, Create(t, p, form) PROVE TypeOK'
  <2>1. req' \in [Thread -> {Idle} \cup Editing \cup Destroying]
    BY <1>0, <1>1, <1>e, CreateStep
  <2>2. /\ lastForm' = lastForm + 1 /\ contended' \subseteq contended \cup {p}
        /\ UNCHANGED <<posts, pens, softwares, users, cut, claim, crossed>>
    BY <1>1, CreateStep
  <2>3. QED
    BY <2>1, <2>2 DEF TypeOK
<1>2. ASSUME NEW t \in Thread, NEW p \in Post, NEW form \in Form, Edit(t, p, form) PROVE TypeOK'
  <2>1. req' \in [Thread -> {Idle} \cup Editing \cup Destroying]
    BY <1>0, <1>2, <1>e, EditStep
  <2>2. claim' \in [Post -> [known : BOOLEAN, pens : SUBSET Pen]]
    BY <1>2, EditStep, ClaimType, Claims
  <2>3. /\ lastForm' = lastForm + 1 /\ contended' \subseteq contended \cup {p}
        /\ crossed' = IF Busy(p) THEN crossed \cup {p} ELSE crossed \ {p}
        /\ UNCHANGED <<posts, pens, softwares, users, cut>>
    BY <1>2, EditStep
  <2>4. QED
    BY <2>1, <2>2, <2>3 DEF TypeOK
<1>3. ASSUME NEW s \in Software, CreateSoftware(s) PROVE TypeOK'
  BY <1>3 DEF TypeOK, CreateSoftware, met
<1>4. ASSUME NEW t \in Thread, Insert(t) PROVE TypeOK'
  <2>1. /\ req[t].post \in Post /\ req[t].read \in Row /\ req[t].form \in Form
        /\ req[t].form.pens \in SUBSET Pen
    BY <1>4, InsertStep, RequestKinds, FormFields
  <2>2. BuiltPens(req[t].post, req[t].form, {"final"}) \subseteq PenRow
    BY <2>1, BuiltPensAreRows
  <2>3. req' \in [Thread -> {Idle} \cup Editing \cup Destroying]
    BY <1>0, <1>4, <1>i, InsertStep
  <2>4. claim' \in [Post -> [known : BOOLEAN, pens : SUBSET Pen]]
    <3> DEFINE c == [known |-> TRUE, pens |-> req[t].form.pens]
    <3>1. c \in Claim
      BY <2>1, Claims
    <3>2. claim' = [claim EXCEPT ![req[t].post] = c]
      BY <1>4, InsertStep
    <3> HIDE DEF c
    <3>3. QED
      BY <2>1, <3>1, <3>2, ClaimType
  <2>5. QED
    BY <1>4, <2>1, <2>2, <2>3, <2>4, InsertStep DEF TypeOK
<1>5. ASSUME NEW t \in Thread, FirstSave(t) \/ SecondSave(t) \/ SaveDraft(t) PROVE TypeOK'
  <2>1. /\ req[t].pc \in {"first", "second", "save_draft"} /\ OthersWait(t)
        /\ \/ Raises(t)
           \/ \E saves \in SUBSET {"first", "second", "final"} :
                Stores(t, saves) /\ req'[t] \in Editing
        /\ UNCHANGED <<softwares, users, lastForm, claim, contended, crossed>>
    BY <1>5, FirstSaveStep, SecondSaveStep, SaveDraftStep DEF Saved, GoesOn
  <2>2. posts' \in [Post -> Row \cup NoRow] /\ pens' \subseteq PenRow /\ cut' \subseteq Nat
    BY <2>1, StoresTypes
  <2>3. req' \in [Thread -> {Idle} \cup Editing \cup Destroying]
    BY <1>0, <1>e, <1>i, <2>1 DEF Raises
  <2>4. QED
    BY <2>1, <2>2, <2>3 DEF TypeOK
<1>6. ASSUME NEW t \in Thread, FinalSave(t) PROVE TypeOK'
  <2>1. /\ req[t].pc = "final" /\ OthersWait(t) /\ (Raises(t) \/ Stores(t, {"final"}))
        /\ req'[t] \in Request
        /\ UNCHANGED <<softwares, users, lastForm, contended, crossed>>
        /\ Claimed(t)
    BY <1>6, <1>i, <1>e, FinalSaveStep DEF Saved, GoesOn, Raises
  <2>2. posts' \in [Post -> Row \cup NoRow] /\ pens' \subseteq PenRow /\ cut' \subseteq Nat
    BY <2>1, StoresTypes
  <2>3. claim' \in [Post -> [known : BOOLEAN, pens : SUBSET Pen]]
    <3>1. req[t].form.pens \in SUBSET Pen
      BY <2>1, RequestKinds, FormFields
    <3>2. [known |-> req[t].form.no \notin cut', pens |-> req[t].form.pens]
            \in [known : BOOLEAN, pens : SUBSET Pen]
      BY <3>1
    <3>3. QED
      BY <2>1, <3>2 DEF Claimed, TypeOK
  <2>4. QED
    BY <1>0, <2>1, <2>2, <2>3 DEF TypeOK
<1>7. ASSUME NEW t \in Thread, LoadPens(t) PROVE TypeOK'
  BY <1>0, <1>e, <1>7, LoadPensStep DEF TypeOK, GoesOn
<1>8. ASSUME NEW t \in Thread, DestroyPen(t) PROVE TypeOK'
  BY <1>8 DEF TypeOK, DestroyPen, parents, met
<1>9. ASSUME NEW t \in Thread, Cleaned(t) PROVE TypeOK'
  <2>1. claim' \in [Post -> [known : BOOLEAN, pens : SUBSET Pen]]
    <3>1. req[t].post \in Post
      BY <1>9, CleanedStep, RequestKinds
    <3>2. QED
      BY <1>9, <3>1, CleanedStep, ClaimType, Claims DEF TypeOK
  <2>2. req' \in [Thread -> {Idle} \cup Editing \cup Destroying]
    BY <1>0, <1>9, <1>e, <1>i, CleanedStep DEF GoesOn
  <2>3. QED
    BY <1>9, <2>1, <2>2, CleanedStep DEF TypeOK
<1>10. ASSUME NEW t \in Thread, DraftSaved(t) PROVE TypeOK'
  <2>1. req[t].post \in Post /\ req[t].form.pens \in SUBSET Pen
    BY <1>10, DraftSavedStep, RequestKinds, FormFields
  <2>2. claim' \in [Post -> [known : BOOLEAN, pens : SUBSET Pen]]
    <3> DEFINE c == [known |-> TRUE, pens |-> req[t].form.pens]
    <3>1. c \in Claim
      BY <2>1, Claims
    <3>2. claim' = [claim EXCEPT ![req[t].post] = c]
      BY <1>10, DraftSavedStep
    <3> HIDE DEF c
    <3>3. QED
      BY <2>1, <3>1, <3>2, ClaimType
  <2>3. req' \in [Thread -> {Idle} \cup Editing \cup Destroying]
    BY <1>0, <1>10, <1>i, DraftSavedStep
  <2>4. QED
    BY <1>10, <2>2, <2>3, DraftSavedStep DEF TypeOK
<1>11. ASSUME NEW t \in Thread, Destroy(t) PROVE TypeOK'
  BY <1>0, <1>e, <1>11, DestroyStep DEF TypeOK
<1>12. ASSUME NEW t \in Thread, CommitDestroy(t) PROVE TypeOK'
  <2>1. [status |-> "gone"] \in NoRow
    BY DEF NoRow
  <2>2. QED
    BY <1>0, <1>i, <1>12, <2>1, CommitDestroyStep DEF TypeOK
<1>13. ASSUME NEW t \in Thread, Abort(t) PROVE TypeOK'
  <2>1. req[t].pc # "destroy" => req[t].form.no \in Nat
    BY <1>13, AbortStep, RequestKinds, FormFields DEF Idle
  <2>2. cut' \subseteq Nat
    BY <1>13, <2>1, AbortStep DEF TypeOK
  <2>3. QED
    BY <1>0, <1>i, <1>13, <2>2, AbortStep DEF TypeOK
<1>14. CASE UNCHANGED vars
  BY <1>14 DEF TypeOK, vars
<1>15. QED
  BY <1>1, <1>2, <1>3, <1>4, <1>5, <1>6, <1>7, <1>8, <1>9, <1>10, <1>11, <1>12, <1>13, <1>14,
     NextSteps

\* The tables and the requests always hold rows of the shape the schema gives them.
THEOREM TypeCorrect == Spec => []TypeOK
<1>1. Init => TypeOK
  <2>1. [status |-> "unborn"] \in NoRow
    BY DEF NoRow
  <2>2. QED
    BY <2>1 DEF Init, TypeOK, InDoubt
<1>2. QED
  BY <1>1, TypeInvariant, PTL DEF Spec

-----------------------------------------------------------------------------
\* The interim pen r is in the hands of the request that inserted it: it is going to be
\* loaded or is on the list of what will be destroyed.
InHand(t, r) ==
  /\ Edits(t, r.post) /\ req[t].form.no = r.no
  /\ \/ req[t].pc \in {"second", "load", "load_draft"}
     \/ req[t].pc \in {"clean", "clean_draft"} /\ r \in req[t].doomed

LeftoversInHand ==
  \A r \in pens : r.save = "final" \/ r.no \in cut \/ \E t \in Thread : InHand(t, r)

\* Whoever else moves, a pen in hand stays in hand; and t itself may only lose it to cut.
LEMMA HandsHold ==
  ASSUME LeftoversInHand, NEW t \in Thread, OthersWait(t), cut \subseteq cut',
         \A r \in pens' : r \in pens \/ r.save = "final",
         \A r \in pens' : InHand(t, r) => r.no \in cut' \/ InHand(t, r)'
  PROVE  LeftoversInHand'
BY DEF LeftoversInHand, InHand, Edits, OthersWait

LEMMA LeftoversInductive ==
  ASSUME TypeOK, LeftoversInHand, [Next]_vars
  PROVE  LeftoversInHand'
<1>0. \A t \in Thread : req[t] = Idle => req[t].pc = "idle"
  BY DEF Idle
<1>i. Idle.pc = "idle"
  BY DEF Idle
<1>b. ASSUME NEW p, NEW form, NEW saves, NEW r \in BuiltPens(p, form, saves)
      PROVE  r.post = p /\ r.no = form.no /\ r.save \in saves
  BY <1>b DEF BuiltPens
<1>1. ASSUME NEW t \in Thread, NEW p \in Post, NEW form \in Form, Create(t, p, form) \/ Edit(t, p, form)
      PROVE  LeftoversInHand'
  <2>1. req[t] = Idle /\ OthersWait(t) /\ pens' = pens /\ cut' = cut
    BY <1>1, CreateStep, EditStep
  <2>2. \A r \in pens' : ~InHand(t, r)
    BY <1>0, <2>1 DEF InHand, Edits
  <2>3. QED
    BY <2>1, <2>2, HandsHold
<1>2. ASSUME NEW s \in Software, CreateSoftware(s) PROVE LeftoversInHand'
  BY <1>2 DEF CreateSoftware, LeftoversInHand, InHand, Edits
<1>3. ASSUME NEW t \in Thread, Insert(t) PROVE LeftoversInHand'
  <2>1. /\ req[t].pc = "create" /\ OthersWait(t) /\ cut' = cut
        /\ pens' = pens \cup BuiltPens(req[t].post, req[t].form, {"final"})
    BY <1>3, InsertStep
  <2>2. \A r \in pens' : r \in pens \/ r.save = "final"
    BY <1>b, <2>1
  <2>3. \A r \in pens' : ~InHand(t, r)
    BY <2>1 DEF InHand
  <2>4. QED
    BY <2>1, <2>2, <2>3, HandsHold
<1>4. ASSUME NEW t \in Thread, NEW saves, NEW pc \in {"second", "load", "load_draft"},
             req[t].pc \in {"first", "second", "save_draft"}, OthersWait(t),
             Raises(t) \/ (Stores(t, saves) /\ Saved(t, pc))
      PROVE  LeftoversInHand'
  <2>1. CASE Raises(t)
    <3>1. \A r \in pens' : InHand(t, r) => r.no \in cut'
      BY <2>1 DEF Raises, InHand
    <3>2. QED
      BY <1>4, <2>1, <3>1, HandsHold DEF Raises
  <2>2. CASE Stores(t, saves) /\ Saved(t, pc)
    <3>1. ASSUME NEW r \in pens', r.save # "final", r.no \notin cut'
          PROVE  \E s \in Thread : InHand(s, r)'
      <4>1. /\ req'[t].pc = pc /\ req'[t].post = req[t].post /\ req'[t].form = req[t].form
            /\ cut' = cut
            /\ pens' = pens \cup BuiltPens(req[t].post, req[t].form, saves)
        BY <2>2 DEF Saved, GoesOn, Stores
      <4>2. CASE r \in pens
        <5>1. PICK s \in Thread : InHand(s, r)
          BY <3>1, <4>1, <4>2 DEF LeftoversInHand
        <5>2. InHand(s, r)'
          BY <1>4, <4>1, <5>1 DEF InHand, Edits, OthersWait
        <5>3. QED
          BY <5>2
      <4>3. CASE r \in BuiltPens(req[t].post, req[t].form, saves)
        <5>1. r.post = req[t].post /\ r.no = req[t].form.no
          BY <1>b, <4>3
        <5>2. InHand(t, r)'
          BY <1>4, <4>1, <5>1 DEF InHand, Edits
        <5>3. QED
          BY <5>2
      <4>4. QED
        BY <4>1, <4>2, <4>3
    <3>2. QED
      BY <3>1 DEF LeftoversInHand
  <2>3. QED
    BY <1>4, <2>1, <2>2
<1>5. ASSUME NEW t \in Thread, FirstSave(t) \/ SecondSave(t) \/ SaveDraft(t)
      PROVE  LeftoversInHand'
  <2>1. CASE FirstSave(t)
    BY <1>4, <2>1, FirstSaveStep
  <2>2. CASE SecondSave(t)
    BY <1>4, <2>2, SecondSaveStep
  <2>3. CASE SaveDraft(t)
    BY <1>4, <2>3, SaveDraftStep
  <2>4. QED
    BY <1>5, <2>1, <2>2, <2>3
<1>6. ASSUME NEW t \in Thread, FinalSave(t) PROVE LeftoversInHand'
  <2>1. req[t].pc = "final" /\ OthersWait(t) /\ (Raises(t) \/ Stores(t, {"final"}))
    BY <1>6, FinalSaveStep
  <2>2. \A r \in pens' : r \in pens \/ r.save = "final"
    BY <1>b, <2>1 DEF Raises, Stores
  <2>3. cut \subseteq cut'
    BY <2>1 DEF Raises, Stores
  <2>4. \A r \in pens' : ~InHand(t, r)
    BY <2>1 DEF InHand
  <2>5. QED
    BY <2>1, <2>2, <2>3, <2>4, HandsHold
<1>7. ASSUME NEW t \in Thread, LoadPens(t) PROVE LeftoversInHand'
  <2>1. /\ req[t].pc \in {"load", "load_draft"} /\ OthersWait(t)
        /\ req'[t].pc \in {"clean", "clean_draft"}
        /\ req'[t].post = req[t].post /\ req'[t].form = req[t].form
        /\ req'[t].doomed = PensOf(req[t].post)
        /\ pens' = pens /\ cut' = cut
    BY <1>7, LoadPensStep DEF GoesOn
  <2>2. \A r \in pens' : InHand(t, r) => InHand(t, r)'
    BY <2>1 DEF InHand, Edits, PensOf
  <2>3. QED
    BY <2>1, <2>2, HandsHold
<1>8. ASSUME NEW t \in Thread, DestroyPen(t) PROVE LeftoversInHand'
  BY <1>8 DEF DestroyPen, LeftoversInHand, InHand, Edits
<1>9. ASSUME NEW t \in Thread, Cleaned(t) \/ DraftSaved(t) PROVE LeftoversInHand'
  <2>1. /\ req[t].pc \in {"clean", "clean_draft"} /\ OthersWait(t)
        /\ req[t].doomed \cap pens = {} /\ pens' = pens /\ cut' = cut
    BY <1>9, CleanedStep, DraftSavedStep
  <2>2. \A r \in pens' : ~InHand(t, r)
    BY <2>1 DEF InHand
  <2>3. QED
    BY <2>1, <2>2, HandsHold
<1>10. ASSUME NEW t \in Thread, Destroy(t) \/ CommitDestroy(t) PROVE LeftoversInHand'
  <2>1. /\ req[t].pc \in {"idle", "destroy"} /\ OthersWait(t)
        /\ pens' \subseteq pens /\ cut' = cut
    BY <1>0, <1>10, DestroyStep, CommitDestroyStep
  <2>2. \A r \in pens' : ~InHand(t, r)
    BY <2>1 DEF InHand, Edits
  <2>3. QED
    BY <2>1, <2>2, HandsHold
<1>11. ASSUME NEW t \in Thread, Abort(t) PROVE LeftoversInHand'
  <2>1. /\ OthersWait(t) /\ cut \subseteq cut' /\ pens' = pens
        /\ req[t].pc # "destroy" => req[t].form.no \in cut'
    BY <1>11, AbortStep
  <2>2. \A r \in pens' : InHand(t, r) => r.no \in cut'
    BY <2>1 DEF InHand, Edits
  <2>3. QED
    BY <2>1, <2>2, HandsHold
<1>12. CASE UNCHANGED vars
  BY <1>12 DEF vars, LeftoversInHand, InHand, Edits
<1>13. QED
  BY <1>1, <1>2, <1>3, <1>5, <1>6, <1>7, <1>8, <1>9, <1>10, <1>11, <1>12, NextSteps

\* What the interim saves of an edit insert is cleaned away by the edit, whatever other
\* edits and destroys do meanwhile, unless the edit is cut short (posts_controller.rb:71-91).
THEOREM InterimPensGo == Spec => []NoLeftoverPens
<1>1. Init => TypeOK /\ LeftoversInHand
  <2>1. [status |-> "unborn"] \in NoRow
    BY DEF NoRow
  <2>2. QED
    BY <2>1 DEF Init, TypeOK, InDoubt, LeftoversInHand
<1>2. TypeOK /\ LeftoversInHand /\ [Next]_vars => (TypeOK /\ LeftoversInHand)'
  BY TypeInvariant, LeftoversInductive
<1>3. LeftoversInHand => NoLeftoverPens
  BY DEF LeftoversInHand, NoLeftoverPens, InHand
<1>4. QED
  BY <1>1, <1>2, <1>3, PTL DEF Spec

-----------------------------------------------------------------------------
\* What is known of a post that no two requests have worked on at once.  Its request is
\* alone with it ...
Alone(p) ==
  \A t, o \in Thread : Edits(t, p) /\ (Edits(o, p) \/ Destroys(o, p)) => o = t

\* ... nobody is removing what its form relies on ...
NotUndercut(p) ==
  \A t, o \in Thread : Edits(t, p) => ~Undercuts(o, p, req[t].form.software)

\* ... what the request has read is still so ...
Current(p) ==
  \A t \in Thread :
    Edits(t, p) /\ req[t].pc # "create" /\ posts[p] \notin NoRow => req[t].read = posts[p]

\* ... what it has validated as well ...
Validated(p) ==
  \A t \in Thread : Edits(t, p) =>
    /\ req[t].pc \in {"first", "second", "final"} => Complete(req[t].form) /\ Owner[p] \in users
    /\ req[t].pc \in {"load", "clean"} /\ req[t].form.by = "author"
         => Complete(req[t].form) /\ Owner[p] \in users
    /\ req[t].pc = "create" =>
         /\ req[t].read.software = req[t].form.software
         /\ req[t].read.status = "published" => Complete(req[t].form)
         /\ Owner[p] \in users
    /\ req[t].pc = "save_draft" => Assigned(req[t].read, req[t].form).status = "draft"
    /\ req[t].pc \in {"load_draft", "clean_draft"} /\ posts[p] \notin NoRow
         => posts[p].status = "draft"

\* ... and so is the row; a removal of what it names will take the post along.
Named(p) ==
  posts[p].status = "published" =>
    /\ posts[p].software \in Software /\ softwares[posts[p].software] = "listed"
    /\ Owner[p] \in users
TakenAlong(p) ==
  \A o \in Thread :
    /\ req[o].pc = "destroy"
    /\ posts[p] \notin NoRow
    /\ req[o].with \in {posts[p].software, Owner[p]} \ {"none"}
    => p \in req[o].posts

Lone(p) == Alone(p) /\ NotUndercut(p) /\ Current(p) /\ Validated(p) /\ Named(p) /\ TakenAlong(p)

\* A step of t that leaves the row of p, and ends or is not about the form of p.
LEMMA LoneQuiet ==
  ASSUME NEW p \in Post, Lone(p), NEW t \in Thread, OthersWait(t),
         posts'[p] = posts[p], softwares' = softwares, users' = users,
         ~Edits(t, p)', req'[t].pc # "destroy"
  PROVE  Lone(p)'
<1> USE DEF OthersWait, Edits
<1>1. Alone(p)'
  BY DEF Lone, Alone, Destroys
<1>2. NotUndercut(p)'
  BY DEF Lone, NotUndercut, Undercuts
<1>3. Current(p)'
  BY DEF Lone, Current
<1>4. Validated(p)'
  BY DEF Lone, Validated, Complete
<1>5. Named(p)' /\ TakenAlong(p)'
  BY DEF Lone, Named, TakenAlong
<1>6. QED
  BY <1>1, <1>2, <1>3, <1>4, <1>5 DEF Lone

\* A step of the request about p that leaves its form and all the rows: only what the
\* request has validated remains to be shown.
LEMMA LoneStays ==
  ASSUME NEW p \in Post, Lone(p), NEW t \in Thread, OthersWait(t), Edits(t, p), Edits(t, p)',
         posts'[p] = posts[p], softwares' = softwares, users' = users,
         req'[t].form = req[t].form, req'[t].read = req[t].read,
         req[t].pc # "create", Validated(p)'
  PROVE  Lone(p)'
<1>1. Alone(p)'
  BY DEF Lone, Alone, Destroys, OthersWait, Edits
<1>2. NotUndercut(p)'
  BY DEF Lone, NotUndercut, Undercuts, OthersWait, Edits
<1>3. Current(p)'
  BY DEF Lone, Current, OthersWait, Edits
<1>4. Named(p)' /\ TakenAlong(p)'
  BY DEF Lone, Named, TakenAlong, OthersWait, Edits
<1>5. QED
  BY <1>1, <1>2, <1>3, <1>4 DEF Lone

\* Others do not edit p, so that Validated is about the request of t only.
LEMMA OnlyOneValidates ==
  ASSUME NEW p \in Post, Lone(p), NEW t \in Thread, OthersWait(t), Edits(t, p),
         Edits(t, p)' =>
           /\ req'[t].pc \in {"first", "second", "final"} => Complete(req[t].form)' /\ Owner[p] \in users'
           /\ req'[t].pc \in {"load", "clean"} /\ req'[t].form.by = "author"
                => Complete(req[t].form)' /\ Owner[p] \in users'
           /\ req'[t].pc \notin {"create", "save_draft"}
           /\ req'[t].pc \in {"load_draft", "clean_draft"} /\ posts'[p] \notin NoRow
                => posts'[p].status = "draft"
  PROVE  Validated(p)'
BY DEF Lone, Alone, Validated, Edits, OthersWait

\* The row that a save leaves, if the request has read the one that is there.
LEMMA SavedRow ==
  ASSUME TypeOK, NEW p \in Post, NEW t \in Thread, Edits(t, p),
         NEW saves, req[t].pc \in {"first", "second", "save_draft", "final"}, Stores(t, saves)
  PROVE  /\ posts[p] \in NoRow => posts'[p] = posts[p]
         /\ Current(p) /\ posts[p] \notin NoRow => posts'[p] = Assigned(req[t].read, req[t].form)
<1>0. /\ req[t].post = p /\ req[t].read \in Row /\ req[t].form \in Form
      /\ Assigned(req[t].read, req[t].form) \in Row
  BY RequestKinds, AssignedIsRow DEF Edits
<1>1. ASSUME posts[p] \in NoRow PROVE posts'[p] = posts[p]
  <2>1. Written(req[t].post, req[t].read, req[t].form) = posts[p]
    BY <1>0, <1>1, WrittenIsRow
  <2>2. QED
    BY <1>0, <1>1, <2>1 DEF Stores, TypeOK
<1>2. ASSUME Current(p), posts[p] \notin NoRow
      PROVE  posts'[p] = Assigned(req[t].read, req[t].form)
  <2>1. posts[p] = req[t].read
    BY <1>2 DEF Current
  <2>2. Written(req[t].post, req[t].read, req[t].form) = Assigned(req[t].read, req[t].form)
    BY <1>0, <1>2, <2>1, WrittenIsRow
  <2>3. QED
    BY <1>0, <1>2, <2>2 DEF Stores, TypeOK
<1>3. QED
  BY <1>1, <1>2

\* A save by the request about p.
LEMMA LoneSaves ==
  ASSUME TypeOK, NEW p \in Post, Lone(p), NEW t \in Thread, OthersWait(t), Edits(t, p),
         NEW saves, req[t].pc \in {"first", "second", "save_draft", "final"},
         softwares' = softwares, users' = users,
         \/ Raises(t)
         \/ Stores(t, saves) /\ req'[t] = Idle
         \/ Stores(t, saves) /\ req[t].pc = "first" /\ Saved(t, "second")
         \/ Stores(t, saves) /\ req[t].pc = "second" /\ Saved(t, "load")
         \/ Stores(t, saves) /\ req[t].pc = "save_draft" /\ Saved(t, "load_draft")
         \/ Stores(t, saves) /\ req[t].pc = "final" /\ Drafted(t) /\ Saved(t, "clean_draft")
  PROVE  Lone(p)'
<1>0. /\ req[t].post = p /\ req[t].read \in Row /\ req[t].form \in Form
      /\ Assigned(req[t].read, req[t].form) \in Row
      /\ Assigned(req[t].read, req[t].form).software = req[t].form.software
  BY RequestKinds, AssignedIsRow DEF Edits
<1>1. CASE posts'[p] = posts[p] /\ req'[t] = Idle
  BY <1>1, LoneQuiet DEF Idle, Edits
<1>2. CASE Raises(t)
  BY <1>1, <1>2 DEF Raises
<1>3. ASSUME Stores(t, saves), posts[p] \in NoRow PROVE posts'[p] = posts[p]
  BY <1>3, SavedRow
<1>4. ASSUME Stores(t, saves), posts[p] \notin NoRow
      PROVE  posts'[p] = Assigned(req[t].read, req[t].form)
  BY <1>4, SavedRow DEF Lone
<1>5. ASSUME Stores(t, saves), posts[p] \notin NoRow
      PROVE  Named(p)' /\ TakenAlong(p)'
  <2>1. /\ posts'[p].software = req[t].form.software
        /\ posts'[p].status = "published" =>
             Complete(req[t].form) /\ Owner[p] \in users
    BY <1>0, <1>4, <1>5 DEF Lone, Validated
  <2>2. Named(p)'
    BY <2>1 DEF Named, Complete
  <2>3. \A o \in Thread : ~Undercuts(o, p, req[t].form.software)
    BY DEF Lone, NotUndercut
  <2>4. req'[t].pc # "destroy"
    BY DEF Saved, GoesOn, Raises, Idle
  <2>5. TakenAlong(p)'
    BY <2>1, <2>3, <2>4 DEF TakenAlong, Undercuts, OthersWait
  <2>6. QED
    BY <2>2, <2>5
<1>6. CASE Stores(t, saves) /\ req'[t] = Idle
  <2>1. CASE posts[p] \in NoRow
    BY <1>1, <1>3, <1>6, <2>1
  <2>2. CASE posts[p] \notin NoRow
    <3>1. \A o \in Thread : ~Edits(o, p)'
      BY <1>6 DEF Lone, Alone, Edits, OthersWait, Idle
    <3>2. Alone(p)' /\ NotUndercut(p)' /\ Current(p)' /\ Validated(p)'
      BY <3>1 DEF Alone, NotUndercut, Current, Validated
    <3>3. QED
      BY <1>5, <1>6, <2>2, <3>2 DEF Lone
  <2>3. QED
    BY <2>1, <2>2
<1>7. ASSUME NEW pc \in {"second", "load", "load_draft", "clean_draft"},
             Stores(t, saves), Saved(t, pc),
             \/ req[t].pc = "first" /\ pc = "second"
             \/ req[t].pc = "second" /\ pc = "load"
             \/ req[t].pc = "save_draft" /\ pc = "load_draft"
             \/ req[t].pc = "final" /\ Drafted(t) /\ pc = "clean_draft"
      PROVE  Lone(p)'
  <2>1. /\ req'[t].pc = pc /\ req'[t].post = p /\ req'[t].form = req[t].form
        /\ req'[t].read = Assigned(req[t].read, req[t].form)
    BY <1>0, <1>7 DEF Saved, GoesOn
  <2>2. Edits(t, p)'
    BY <2>1 DEF Edits
  <2>3. Validated(p)'
    <3>1. pc \in {"second", "load"} => Complete(req[t].form) /\ Owner[p] \in users
      BY <1>7 DEF Lone, Validated
    <3>2. pc \in {"load_draft", "clean_draft"} =>
            Assigned(req[t].read, req[t].form).status = "draft"
      BY <1>7 DEF Lone, Validated, Drafted
    <3>3. Complete(req[t].form)' <=> Complete(req[t].form)
      BY <2>1 DEF Complete
    <3>4. pc \in {"load_draft", "clean_draft"} /\ posts'[p] \notin NoRow => posts'[p].status = "draft"
      BY <1>3, <1>4, <1>7, <3>2
    <3>5. QED
      BY <2>1, <3>1, <3>3, <3>4, OnlyOneValidates
  <2>4. Alone(p)' /\ NotUndercut(p)'
    BY <2>1 DEF Lone, Alone, NotUndercut, Undercuts, Destroys, OthersWait, Edits
  <2>5. Current(p)'
    <3>1. posts'[p] \notin NoRow => posts'[p] = req'[t].read
      BY <1>3, <1>4, <1>7, <2>1
    <3>2. QED
      BY <3>1 DEF Lone, Alone, Current, OthersWait, Edits
  <2>6. Named(p)' /\ TakenAlong(p)'
    <3>1. CASE posts[p] \in NoRow
      <4>1. posts'[p] = posts[p] /\ req'[t].pc # "destroy"
        BY <1>3, <1>7, <2>1, <3>1
      <4>2. QED
        BY <4>1 DEF Lone, Named, TakenAlong, OthersWait
    <3>2. QED
      BY <1>5, <1>7, <3>1
  <2>7. QED
    BY <2>3, <2>4, <2>5, <2>6 DEF Lone
<1>8. QED
  BY <1>2, <1>6, <1>7

\* A save by another request does not touch the row of p.
LEMMA OtherSaves ==
  ASSUME TypeOK, NEW p \in Post, NEW t \in Thread, ~Edits(t, p), NEW saves,
         req[t].pc \notin {"idle", "destroy"}, Raises(t) \/ Stores(t, saves)
  PROVE  posts'[p] = posts[p]
BY RequestKinds DEF Raises, Stores, Edits, TypeOK

LEMMA LoneAcrossSaves ==
  ASSUME TypeOK, NEW p \in Post, Lone(p), NEW t \in Thread,
         FirstSave(t) \/ SecondSave(t) \/ SaveDraft(t) \/ FinalSave(t)
  PROVE  Lone(p)'
<1>1. \E saves :
        /\ OthersWait(t) /\ softwares' = softwares /\ users' = users
        /\ req[t].pc \in {"first", "second", "save_draft", "final"}
        /\ \/ Raises(t)
           \/ Stores(t, saves) /\ req'[t] = Idle
           \/ Stores(t, saves) /\ req[t].pc = "first" /\ Saved(t, "second")
           \/ Stores(t, saves) /\ req[t].pc = "second" /\ Saved(t, "load")
           \/ Stores(t, saves) /\ req[t].pc = "save_draft" /\ Saved(t, "load_draft")
           \/ Stores(t, saves) /\ req[t].pc = "final" /\ Drafted(t) /\ Saved(t, "clean_draft")
  <2>1. CASE FirstSave(t)
    BY <2>1, FirstSaveStep
  <2>2. CASE SecondSave(t)
    BY <2>2, SecondSaveStep
  <2>3. CASE SaveDraft(t)
    BY <2>3, SaveDraftStep
  <2>4. CASE FinalSave(t)
    BY <2>4, FinalSaveStep
  <2>5. QED
    BY <2>1, <2>2, <2>3, <2>4
<1>2. CASE Edits(t, p)
  BY <1>1, <1>2, LoneSaves
<1>3. CASE ~Edits(t, p)
  <2>1. posts'[p] = posts[p]
    BY <1>1, <1>3, OtherSaves
  <2>2. ~Edits(t, p)' /\ req'[t].pc # "destroy"
    BY <1>1, <1>3 DEF Raises, Saved, GoesOn, Edits, Idle
  <2>3. QED
    BY <1>1, <2>1, <2>2, LoneQuiet
<1>4. QED
  BY <1>2, <1>3

\* A form that comes in for p, when p stays out of contended.
LEMMA LoneOpens ==
  ASSUME TypeOK, NEW p \in Post, Lone(p), p \notin contended',
         NEW t \in Thread, NEW q \in Post, NEW form \in Form, Create(t, q, form) \/ Edit(t, q, form)
  PROVE  Lone(p)'
<1>1. /\ req[t] = Idle /\ OthersWait(t)
      /\ req'[t].pc \notin {"idle", "destroy"} /\ req'[t].post = q /\ req'[t].form = form
      /\ UNCHANGED <<posts, softwares, users>>
      /\ q = p => ~Busy(p) /\ \A o \in Thread : ~Undercuts(o, p, form.software)
  <2>1. CASE Create(t, q, form)
    BY <2>1, CreateStep
  <2>2. CASE Edit(t, q, form)
    BY <2>2, EditStep
  <2>3. QED
    BY <2>1, <2>2
<1>2. CASE q # p
  BY <1>1, <1>2, LoneQuiet DEF Edits
<1>3. CASE q = p
  <2>1. \A o \in Thread : ~Edits(o, p) /\ ~Destroys(o, p) /\ ~Undercuts(o, p, form.software)
    BY <1>1, <1>3 DEF Busy
  <2>2. \A o \in Thread : o # t => ~Edits(o, p)' /\ ~Destroys(o, p)'
    BY <1>1, <2>1 DEF Edits, Destroys, OthersWait
  <2>3. Alone(p)'
    BY <1>1, <2>2 DEF Alone, Edits, Destroys
  <2>4. NotUndercut(p)'
    BY <1>1, <2>1, <2>2 DEF NotUndercut, Undercuts, OthersWait
  <2>5. Current(p)' /\ Validated(p)'
    <3>1. CASE Create(t, q, form)
      <4>1. /\ req'[t].pc = "create"
            /\ req'[t].read.software = form.software /\ req'[t].read.status = form.status
            /\ Owner[p] \in users /\ (Complete(form) \/ form.status = "draft")
        BY <1>3, <3>1, CreateStep
      <4>2. Complete(req[t].form)' <=> Complete(form)
        BY <1>1 DEF Complete
      <4>3. QED
        BY <1>1, <2>2, <4>1, <4>2 DEF Current, Validated
    <3>2. CASE Edit(t, q, form)
      <4>1. /\ req'[t].pc \in {"load", "first", "save_draft"} /\ req'[t].read = posts[p]
            /\ req'[t].pc = "load" => form.by = "admin"
            /\ req'[t].pc = "first" => Complete(form) /\ Owner[p] \in users
            /\ req'[t].pc = "save_draft" => Assigned(posts[p], form).status = "draft"
        BY <1>3, <3>2, EditStep
      <4>2. Complete(req[t].form)' <=> Complete(form)
        BY <1>1 DEF Complete
      <4>3. /\ Assigned(req[t].read, req[t].form)' = Assigned(posts[p], form)
        BY <1>1, <4>1 DEF Assigned
      <4>4. QED
        BY <1>1, <2>2, <4>1, <4>2, <4>3 DEF Current, Validated
    <3>3. QED
      BY <3>1, <3>2
  <2>6. Named(p)' /\ TakenAlong(p)'
    BY <1>1 DEF Lone, Named, TakenAlong, OthersWait
  <2>7. QED
    BY <2>3, <2>4, <2>5, <2>6 DEF Lone
<1>4. QED
  BY <1>2, <1>3

LEMMA LoneInserts ==
  ASSUME TypeOK, NEW p \in Post, Lone(p), NEW t \in Thread, Insert(t)
  PROVE  Lone(p)'
<1>1. /\ req[t].pc = "create" /\ OthersWait(t) /\ req'[t] = Idle
      /\ posts' = [posts EXCEPT ![req[t].post] = req[t].read]
      /\ softwares' = softwares /\ users' = users
      /\ req[t].post \in Post
  BY InsertStep, RequestKinds
<1>2. CASE req[t].post # p
  <2>1. posts'[p] = posts[p]
    BY <1>1, <1>2 DEF TypeOK
  <2>2. QED
    BY <1>1, <2>1, LoneQuiet DEF Idle, Edits
<1>3. CASE req[t].post = p
  <2>1. Edits(t, p) /\ posts'[p] = req[t].read
    BY <1>1, <1>3 DEF Edits, TypeOK
  <2>2. /\ req[t].read.software = req[t].form.software
        /\ req[t].read.status = "published" => Complete(req[t].form)
        /\ Owner[p] \in users
        /\ \A o \in Thread : ~Undercuts(o, p, req[t].form.software)
    BY <1>1, <2>1 DEF Lone, Validated, NotUndercut
  <2>3. Named(p)'
    BY <1>1, <2>1, <2>2 DEF Named, Complete
  <2>4. TakenAlong(p)'
    BY <1>1, <2>1, <2>2 DEF TakenAlong, Undercuts, OthersWait, Idle
  <2>5. \A o \in Thread : ~Edits(o, p)'
    BY <1>1, <2>1 DEF Lone, Alone, Edits, OthersWait, Idle
  <2>6. QED
    BY <2>3, <2>4, <2>5 DEF Lone, Alone, NotUndercut, Current, Validated
<1>4. QED
  BY <1>2, <1>3

\* clean_pen and what comes after it leave the row alone.
LEMMA LoneCleans ==
  ASSUME TypeOK, NEW p \in Post, Lone(p), NEW t \in Thread,
         LoadPens(t) \/ Cleaned(t) \/ DraftSaved(t)
  PROVE  Lone(p)'
<1>1. /\ OthersWait(t) /\ UNCHANGED <<posts, softwares, users>>
      /\ req[t].pc \in {"load", "load_draft", "clean", "clean_draft"}
      /\ \/ req'[t] = Idle
         \/ /\ req'[t].post = req[t].post /\ req'[t].form = req[t].form
            /\ req'[t].read = req[t].read
            /\ \/ req[t].pc = "load" /\ req'[t].pc = "clean"
               \/ req[t].pc = "load_draft" /\ req'[t].pc = "clean_draft"
               \/ /\ req[t].pc = "clean" /\ req'[t].pc = "final"
                  /\ \/ req[t].form.by = "author"
                     \/ Complete(req[t].form) /\ Owner[req[t].post] \in users
  BY LoadPensStep, CleanedStep, DraftSavedStep DEF GoesOn
<1>2. CASE ~Edits(t, p) \/ req'[t] = Idle
  BY <1>1, <1>2, LoneQuiet DEF Edits, Idle
<1>3. CASE Edits(t, p) /\ req'[t] # Idle
  <2>1. Complete(req[t].form)' <=> Complete(req[t].form)
    BY <1>1, <1>3 DEF Complete
  <2>2. req'[t].pc = "final" => Complete(req[t].form) /\ Owner[p] \in users
    BY <1>1, <1>3 DEF Lone, Validated, Edits
  <2>3. Validated(p)'
    <3>1. /\ req'[t].pc = "clean" /\ req[t].form.by = "author"
               => Complete(req[t].form) /\ Owner[p] \in users
          /\ req'[t].pc = "clean_draft" /\ posts[p] \notin NoRow => posts[p].status = "draft"
      BY <1>1, <1>3 DEF Lone, Validated
    <3>2. req'[t].pc \in {"clean", "clean_draft", "final"}
      BY <1>1, <1>3
    <3>3. QED
      BY <1>1, <1>3, <2>1, <2>2, <3>1, <3>2, OnlyOneValidates
  <2>4. Edits(t, p)' /\ req[t].pc # "create"
    BY <1>1, <1>3 DEF Edits
  <2>5. QED
    BY <1>1, <1>3, <2>3, <2>4, LoneStays
<1>4. QED
  BY <1>2, <1>3

LEMMA LoneCommits ==
  ASSUME TypeOK, NEW p \in Post, Lone(p), NEW t \in Thread, CommitDestroy(t)
  PROVE  Lone(p)'
<1>1. /\ req[t].pc = "destroy" /\ OthersWait(t) /\ req'[t] = Idle
  BY CommitDestroyStep
<1>2. CASE UNCHANGED <<posts, softwares, users>>
  BY <1>1, <1>2, LoneQuiet DEF Idle, Edits
<1>3. CASE /\ posts' = [x \in Post |-> IF x \in req[t].posts THEN [status |-> "gone"] ELSE posts[x]]
           /\ softwares' = [s \in Software |-> IF s = req[t].with THEN "gone" ELSE softwares[s]]
           /\ users' = users \ {req[t].with}
  <2>1. Alone(p)' /\ NotUndercut(p)'
    BY <1>1 DEF Lone, Alone, NotUndercut, Undercuts, Edits, Destroys, OthersWait, Idle
  <2>2. CASE p \in req[t].posts
    <3>1. posts'[p] = [status |-> "gone"]
      BY <1>3, <2>2
    <3>2. posts'[p] \in NoRow /\ posts'[p].status = "gone"
      BY <3>1 DEF NoRow
    <3>3. \A o \in Thread : ~Edits(o, p)'
      BY <1>1, <2>2 DEF Lone, Alone, Edits, Destroys, OthersWait, Idle
    <3>4. QED
      BY <2>1, <3>2, <3>3 DEF Lone, Current, Validated, Named, TakenAlong
  <2>3. CASE p \notin req[t].posts
    <3>1. posts'[p] = posts[p]
      BY <1>3, <2>3
    <3>2. Owner[p] \in User /\ Owner[p] # "none"
      BY PostFormsAssumption
    <3>3. Current(p)'
      BY <1>1, <3>1 DEF Lone, Current, Edits, OthersWait, Idle
    <3>4. ASSUME NEW o \in Thread, Edits(o, p)'
          PROVE  /\ Edits(o, p) /\ req'[o] = req[o]
                 /\ Complete(req[o].form) => Complete(req[o].form)'
                 /\ Owner[p] \in users => Owner[p] \in users'
      <4>1. Edits(o, p) /\ req'[o] = req[o]
        BY <1>1, <3>4 DEF Edits, OthersWait, Idle
      <4>2. ~Undercuts(t, p, req[o].form.software)
        BY <4>1 DEF Lone, NotUndercut
      <4>3. req[t].with # Owner[p]
        BY <1>1, <3>2, <4>2 DEF Undercuts
      <4>4. req[o].form.software \in Software => req[o].form.software # req[t].with
        BY <1>1, <4>2, PostFormsAssumption DEF Undercuts
      <4>5. QED
        BY <1>3, <4>1, <4>3, <4>4 DEF Complete
    <3>5. Validated(p)'
      BY <3>1, <3>4 DEF Lone, Validated
    <3>6. Named(p)'
      <4>1. SUFFICES ASSUME posts[p].status = "published" PROVE Named(p)'
        BY <3>1 DEF Named
      <4>2. posts[p] \notin NoRow
        BY <4>1, RowKinds
      <4>3. req[t].with \notin {posts[p].software, Owner[p]} \ {"none"}
        BY <1>1, <2>3, <4>2 DEF Lone, TakenAlong
      <4>4. /\ posts[p].software \in Software /\ softwares[posts[p].software] = "listed"
            /\ Owner[p] \in users /\ posts[p].software # "none"
        BY <4>1, PostFormsAssumption DEF Lone, Named
      <4>5. QED
        BY <1>3, <3>1, <3>2, <4>3, <4>4 DEF Named
    <3>7. TakenAlong(p)'
      BY <1>1, <3>1 DEF Lone, TakenAlong, OthersWait, Idle
    <3>8. QED
      BY <2>1, <3>3, <3>5, <3>6, <3>7 DEF Lone
  <2>4. QED
    BY <2>2, <2>3
<1>4. QED
  BY <1>2, <1>3, CommitDestroyStep

LoneInv == \A p \in Post \ contended : Lone(p)

LEMMA ContendedGrows ==
  ASSUME TypeOK, [Next]_vars
  PROVE  contended \subseteq contended'
<1>1. \A t \in Thread, p \in Post, form \in Form :
        Create(t, p, form) \/ Edit(t, p, form) => contended \subseteq contended'
  BY CreateStep, EditStep
<1>2. \A s \in Software : CreateSoftware(s) => contended \subseteq contended'
  BY DEF CreateSoftware, met
<1>3. ASSUME NEW t \in Thread,
             \/ Insert(t) \/ FirstSave(t) \/ SecondSave(t) \/ LoadPens(t) \/ DestroyPen(t)
             \/ Cleaned(t) \/ FinalSave(t) \/ SaveDraft(t) \/ DraftSaved(t)
             \/ Destroy(t) \/ CommitDestroy(t) \/ Abort(t)
      PROVE  contended \subseteq contended'
  BY <1>3, InsertStep, FirstSaveStep, SecondSaveStep, LoadPensStep, CleanedStep, FinalSaveStep,
     SaveDraftStep, DraftSavedStep, DestroyStep, CommitDestroyStep, AbortStep DEF DestroyPen, met
<1>4. QED
  BY <1>1, <1>2, <1>3, NextSteps DEF vars

LEMMA LoneInductive ==
  ASSUME TypeOK, LoneInv, [Next]_vars
  PROVE  LoneInv'
<1>0. \A t \in Thread : req[t] = Idle => req[t].pc = "idle"
  BY DEF Idle
<1>1. contended \subseteq contended'
  BY ContendedGrows
<1>2. SUFFICES ASSUME NEW p \in Post, p \notin contended', Lone(p) PROVE Lone(p)'
  BY <1>1 DEF LoneInv
<1>3. ASSUME NEW t \in Thread, NEW q \in Post, NEW form \in Form, Create(t, q, form) \/ Edit(t, q, form)
      PROVE  Lone(p)'
  BY <1>2, <1>3, LoneOpens
<1>4. ASSUME NEW s \in Software, CreateSoftware(s) PROVE Lone(p)'
  <2>1. /\ UNCHANGED <<posts, users, req>> /\ softwares[s] = "unborn"
        /\ softwares' = [softwares EXCEPT ![s] = "listed"]
    BY <1>4 DEF CreateSoftware
  <2>2. \A x \in Software : softwares[x] = "listed" => softwares'[x] = "listed"
    BY <2>1 DEF TypeOK
  <2>3. \A t \in Thread : Complete(req[t].form) => Complete(req[t].form)'
    BY <2>1, <2>2 DEF Complete
  <2>4. Validated(p)' /\ Named(p)'
    BY <1>2, <2>1, <2>2, <2>3 DEF Lone, Validated, Named, Edits
  <2>5. Alone(p)' /\ NotUndercut(p)' /\ Current(p)' /\ TakenAlong(p)'
    BY <1>2, <2>1 DEF Lone, Alone, NotUndercut, Current, TakenAlong, Edits, Destroys, Undercuts
  <2>6. QED
    BY <2>4, <2>5 DEF Lone
<1>5. ASSUME NEW t \in Thread,
             FirstSave(t) \/ SecondSave(t) \/ SaveDraft(t) \/ FinalSave(t)
      PROVE  Lone(p)'
  BY <1>2, <1>5, LoneAcrossSaves
<1>6. ASSUME NEW t \in Thread, LoadPens(t) \/ Cleaned(t) \/ DraftSaved(t) PROVE Lone(p)'
  BY <1>2, <1>6, LoneCleans
<1>7. CASE UNCHANGED <<posts, softwares, users, req>>
  BY <1>2, <1>7 DEF Lone, Alone, NotUndercut, Current, Validated, Named, TakenAlong, Edits, Destroys,
     Undercuts, Complete
<1>8. ASSUME NEW t \in Thread, DestroyPen(t) PROVE Lone(p)'
  BY <1>7, <1>8 DEF DestroyPen, parents
<1>9. ASSUME NEW t \in Thread, Insert(t) PROVE Lone(p)'
  BY <1>2, <1>9, LoneInserts
<1>10. ASSUME NEW t \in Thread, Destroy(t) PROVE Lone(p)'
  <2>1. /\ req[t] = Idle /\ OthersWait(t) /\ req'[t].pc = "destroy"
        /\ UNCHANGED <<posts, softwares, users>>
        /\ \A o \in Thread : Edits(o, p) =>
             req'[t].with \notin {req[o].form.software, Owner[p]} \ {"none"}
        /\ p \in req'[t].posts => ~Busy(p)
        /\ posts[p] \notin NoRow /\ req'[t].with \in {posts[p].software, Owner[p]} \ {"none"}
             => p \in req'[t].posts
    BY <1>2, <1>10, DestroyStep
  <2>2. Alone(p)'
    BY <1>2, <2>1 DEF Lone, Alone, Busy, Edits, Destroys, OthersWait
  <2>3. NotUndercut(p)'
    BY <1>2, <2>1 DEF Lone, NotUndercut, Undercuts, Edits, OthersWait
  <2>4. Current(p)'
    BY <1>2, <2>1 DEF Lone, Current, Edits, OthersWait
  <2>5. Validated(p)'
    BY <1>2, <2>1 DEF Lone, Validated, Complete, Edits, OthersWait
  <2>6. Named(p)' /\ TakenAlong(p)'
    BY <1>2, <2>1 DEF Lone, Named, TakenAlong, OthersWait
  <2>7. QED
    BY <2>2, <2>3, <2>4, <2>5, <2>6 DEF Lone
<1>11. ASSUME NEW t \in Thread, CommitDestroy(t) PROVE Lone(p)'
  BY <1>2, <1>11, LoneCommits
<1>12. ASSUME NEW t \in Thread, Abort(t) PROVE Lone(p)'
  <2>1. OthersWait(t) /\ req'[t] = Idle /\ UNCHANGED <<posts, softwares, users>>
    BY <1>12, AbortStep
  <2>2. QED
    BY <1>2, <2>1, LoneQuiet DEF Idle, Edits
<1>13. QED
  BY <1>3, <1>4, <1>5, <1>6, <1>7, <1>8, <1>9, <1>10, <1>11, <1>12, NextSteps DEF vars

\* Whatever is published has its software and its author, although drafts are saved without
\* validation and no foreign key is there, unless two requests have met (post.rb:3-11).
THEOREM WhatIsPublishedIsNamed == Spec => []PublishedNamesWhatExists
<1>1. Init => TypeOK /\ LoneInv
  <2>1. [status |-> "unborn"] \in NoRow
    BY DEF NoRow
  <2>2. QED
    BY <2>1 DEF Init, TypeOK, InDoubt, LoneInv, Lone, Alone, NotUndercut, Current, Validated, Named,
       TakenAlong, Edits, Idle
<1>2. TypeOK /\ LoneInv /\ [Next]_vars => (TypeOK /\ LoneInv)'
  BY TypeInvariant, LoneInductive
<1>3. LoneInv => PublishedNamesWhatExists
  BY DEF LoneInv, Lone, Named, PublishedNamesWhatExists
<1>4. QED
  BY <1>1, <1>2, <1>3, PTL DEF Spec

-----------------------------------------------------------------------------
\* Pens hang on posts that are there, as the foreign key has it, and a request destroys
\* pens of its own posts only.
PensHavePosts == \A r \in pens : posts[r.post] \notin NoRow
DoomedBelong ==
  \A t \in Thread :
    /\ req[t].pc = "destroy" => \A r \in req[t].doomed : r.post \in req[t].posts
    /\ req[t].pc \notin {"idle", "destroy"} => \A r \in req[t].doomed : r.post = req[t].post

LEMMA BuiltFor ==
  ASSUME NEW p, NEW form, NEW saves
  PROVE  /\ \A r \in BuiltPens(p, form, saves) : r.post = p /\ r.no = form.no /\ r.save \in saves
         /\ form.pens = {} => BuiltPens(p, form, saves) = {}
BY DEF BuiltPens

LEMMA DoomedInductive ==
  ASSUME TypeOK, DoomedBelong, [Next]_vars
  PROVE  DoomedBelong'
<1>0. \A t \in Thread : req[t] = Idle => req[t].pc = "idle"
  BY DEF Idle
<1>1. ASSUME NEW t \in Thread, OthersWait(t),
             req'[t].pc = "destroy" => \A r \in req'[t].doomed : r.post \in req'[t].posts,
             req'[t].pc \notin {"idle", "destroy"} => \A r \in req'[t].doomed : r.post = req'[t].post
      PROVE  DoomedBelong'
  BY <1>1 DEF DoomedBelong, OthersWait
<1>2. ASSUME NEW t \in Thread, OthersWait(t), req'[t] = Idle PROVE DoomedBelong'
  BY <1>1, <1>2 DEF Idle
<1>3. ASSUME NEW t \in Thread, NEW p \in Post, NEW form \in Form, Create(t, p, form) \/ Edit(t, p, form)
      PROVE  DoomedBelong'
  <2>1. OthersWait(t) /\ req'[t].doomed = {} /\ req'[t].pc # "destroy"
    BY <1>3, CreateStep, EditStep
  <2>2. QED
    BY <1>1, <2>1
<1>4. ASSUME NEW t \in Thread, NEW pc, Saved(t, pc), OthersWait(t), req[t].pc \notin {"idle", "destroy"},
             pc # "destroy", req'[t].doomed = req[t].doomed
      PROVE  DoomedBelong'
  BY <1>1, <1>4 DEF DoomedBelong, Saved, GoesOn
<1>5. ASSUME NEW t \in Thread, FirstSave(t) \/ SecondSave(t) \/ SaveDraft(t)
      PROVE  DoomedBelong'
  <2>1. OthersWait(t) /\ req[t].pc \in {"first", "second", "save_draft"}
    BY <1>5, FirstSaveStep, SecondSaveStep, SaveDraftStep
  <2>2. \/ req'[t] = Idle
        \/ \E pc \in {"second", "load", "load_draft"} : Saved(t, pc) /\ req'[t] = GoOn(t, pc)
    <3>1. \A pc \in {"second", "load", "load_draft"} : req'[t] = GoOn(t, pc) => Saved(t, pc)
      BY <2>1, Goes
    <3>2. \/ req'[t] = Idle
          \/ \E pc \in {"second", "load", "load_draft"} : req'[t] = GoOn(t, pc)
      BY <1>5 DEF FirstSave, SecondSave, SaveDraft, Save, TypeOK
    <3>3. QED
      BY <3>1, <3>2
  <2>3. ASSUME NEW pc \in {"second", "load", "load_draft"}, Saved(t, pc), req'[t] = GoOn(t, pc)
        PROVE  DoomedBelong'
    <3> DEFINE new == Assigned(req[t].read, req[t].form)
    <3>1. req[t] \in Editing
      BY <2>1, RequestKinds
    <3>2. req'[t] = [req[t] EXCEPT !.pc = pc, !.read = new]
      BY <2>3 DEF GoOn
    <3> HIDE DEF new
    <3>3. req'[t].doomed = req[t].doomed
      BY <3>1, <3>2 DEF Editing
    <3>4. QED
      BY <1>4, <2>1, <2>3, <3>3
  <2>4. QED
    BY <1>2, <2>1, <2>2, <2>3
<1>6. ASSUME NEW t \in Thread, FinalSave(t) PROVE DoomedBelong'
  <2>1. /\ OthersWait(t)
        /\ \/ req'[t] = Idle
           \/ /\ req'[t].pc = "clean_draft" /\ req'[t].post = req[t].post
              /\ req'[t].doomed = BuiltPens(req[t].post, req[t].form, {"final"})
    BY <1>6, FinalSaveStep DEF Raises, Saved, GoesOn
  <2>2. QED
    BY <1>1, <1>2, <2>1, BuiltFor
<1>7. ASSUME NEW t \in Thread, LoadPens(t) PROVE DoomedBelong'
  <2>1. /\ OthersWait(t) /\ req'[t].pc \in {"clean", "clean_draft"}
        /\ req'[t].post = req[t].post /\ req'[t].doomed = PensOf(req[t].post)
    BY <1>7, LoadPensStep DEF GoesOn
  <2>2. QED
    BY <1>1, <2>1 DEF PensOf
<1>8. ASSUME NEW t \in Thread, Cleaned(t) PROVE DoomedBelong'
  <2>1. OthersWait(t) /\ (req'[t] = Idle \/ (req'[t].pc = "final" /\ req'[t].doomed = {}))
    BY <1>8, CleanedStep DEF GoesOn
  <2>2. QED
    BY <1>1, <1>2, <2>1
<1>9. ASSUME NEW t \in Thread, Destroy(t) PROVE DoomedBelong'
  <2>1. /\ OthersWait(t) /\ req'[t].pc = "destroy"
        /\ req'[t].doomed = {r \in pens : r.post \in req'[t].posts}
    BY <1>9, DestroyStep
  <2>2. QED
    BY <1>1, <2>1
<1>10. ASSUME NEW t \in Thread, Insert(t) \/ DraftSaved(t) \/ CommitDestroy(t) \/ Abort(t)
       PROVE  DoomedBelong'
  BY <1>2, <1>10, InsertStep, DraftSavedStep, CommitDestroyStep, AbortStep
<1>11. CASE UNCHANGED req
  BY <1>11 DEF DoomedBelong
<1>12. QED
  BY <1>3, <1>5, <1>6, <1>7, <1>8, <1>9, <1>10, <1>11, NextSteps DEF CreateSoftware, DestroyPen, vars

LEMMA PensInductive ==
  ASSUME TypeOK, DoomedBelong, PensHavePosts, [Next]_vars
  PROVE  PensHavePosts'
<1>0. \A r \in pens : r.post \in Post
  BY DEF TypeOK, PenRow
<1>1. ASSUME pens' \subseteq pens, posts' = posts PROVE PensHavePosts'
  BY <1>1 DEF PensHavePosts
<1>2. ASSUME NEW t \in Thread, NEW saves, req[t].pc \notin {"idle", "destroy"},
             Raises(t) \/ Stores(t, saves)
      PROVE  PensHavePosts'
  <2>1. req[t].post \in Post /\ req[t].read \in Row /\ req[t].form \in Form
    BY <1>2, RequestKinds
  <2>2. CASE Raises(t)
    BY <1>1, <2>2 DEF Raises
  <2>3. CASE Stores(t, saves)
    <3>1. \A p \in Post : posts[p] \notin NoRow => posts'[p] \notin NoRow
      <4>1. posts[req[t].post] \notin NoRow =>
              Written(req[t].post, req[t].read, req[t].form) \notin NoRow
        BY <2>1, WrittenIsRow
      <4>2. QED
        BY <2>1, <2>3, <4>1 DEF Stores, TypeOK
    <3>2. \A r \in pens' : r \in pens \/ (r.post = req[t].post /\ posts[r.post] \notin NoRow)
      BY <2>3, BuiltFor DEF Stores
    <3>3. QED
      BY <1>0, <2>1, <3>1, <3>2 DEF PensHavePosts
  <2>4. QED
    BY <1>2, <2>2, <2>3
<1>3. ASSUME NEW t \in Thread, FirstSave(t) \/ SecondSave(t) \/ SaveDraft(t) \/ FinalSave(t)
      PROVE  PensHavePosts'
  <2>1. /\ req[t].pc \notin {"idle", "destroy"}
        /\ \E saves : Raises(t) \/ Stores(t, saves)
    BY <1>3, FirstSaveStep, SecondSaveStep, SaveDraftStep, FinalSaveStep
  <2>2. QED
    BY <1>2, <2>1
<1>4. ASSUME NEW t \in Thread, Insert(t) PROVE PensHavePosts'
  <2>1. /\ req[t].pc = "create"
        /\ posts' = [posts EXCEPT ![req[t].post] = req[t].read]
        /\ pens' = pens \cup BuiltPens(req[t].post, req[t].form, {"final"})
    BY <1>4, InsertStep
  <2>2. req[t].read \in Row /\ req[t].post \in Post
    BY <2>1, RequestKinds
  <2>3. req[t].read \notin NoRow
    BY <2>2 DEF Row, NoRow
  <2>4. \A p \in Post : (posts[p] \notin NoRow \/ p = req[t].post) => posts'[p] \notin NoRow
    BY <2>1, <2>2, <2>3 DEF TypeOK
  <2>5. \A r \in pens' : r \in pens \/ r.post = req[t].post
    BY <2>1, BuiltFor
  <2>6. QED
    BY <1>0, <2>2, <2>4, <2>5 DEF PensHavePosts
<1>5. ASSUME NEW t \in Thread, CommitDestroy(t) PROVE PensHavePosts'
  <2>1. CASE UNCHANGED <<posts, pens>>
    BY <1>1, <2>1
  <2>2. CASE /\ \A r \in pens : r.post \in req[t].posts => r \in req[t].doomed
             /\ posts' = [p \in Post |-> IF p \in req[t].posts THEN [status |-> "gone"] ELSE posts[p]]
             /\ pens' = pens \ req[t].doomed
    BY <1>0, <2>2 DEF PensHavePosts
  <2>3. QED
    BY <1>5, <2>1, <2>2, CommitDestroyStep
<1>6. ASSUME NEW t \in Thread, DestroyPen(t) PROVE PensHavePosts'
  BY <1>1, <1>6 DEF DestroyPen
<1>7. ASSUME NEW t \in Thread, NEW p \in Post, NEW form \in Form, Create(t, p, form) \/ Edit(t, p, form)
      PROVE  PensHavePosts'
  BY <1>1, <1>7, CreateStep, EditStep
<1>8. ASSUME NEW t \in Thread, LoadPens(t) \/ Cleaned(t) \/ DraftSaved(t) \/ Destroy(t) \/ Abort(t)
      PROVE  PensHavePosts'
  BY <1>1, <1>8, LoadPensStep, CleanedStep, DraftSavedStep, DestroyStep, AbortStep
<1>9. QED
  BY <1>1, <1>3, <1>4, <1>5, <1>6, <1>7, <1>8, NextSteps DEF CreateSoftware, vars

-----------------------------------------------------------------------------
\* What is known of a post whose last form has met no other request about it: a form is
\* alone with it, what it has read is still so, and a form that was not validated leaves a
\* draft.  Whether the software and the author are still there does not matter.
Drafts(p) ==
  \A t \in Thread : Edits(t, p) =>
    /\ req[t].pc = "save_draft" => Assigned(req[t].read, req[t].form).status = "draft"
    /\ req[t].pc \in {"load_draft", "clean_draft"} /\ posts[p] \notin NoRow
         => posts[p].status = "draft"

Single(p) == Alone(p) /\ Current(p) /\ Drafts(p)
SingleInv == \A p \in Post \ crossed : Single(p)

\* Only a form that finds nobody at work on a post makes good what others have crossed.
LEMMA CrossedHeals ==
  ASSUME TypeOK, [Next]_vars, NEW p \in Post, p \notin crossed',
         \A t \in Thread, form \in Form : ~Edit(t, p, form)
  PROVE  p \notin crossed
<1>1. ASSUME NEW t \in Thread, NEW q \in Post, NEW form \in Form, Create(t, q, form) \/ Edit(t, q, form)
      PROVE  p \notin crossed
  BY <1>1, CreateStep, EditStep
<1>2. ASSUME NEW s \in Software, CreateSoftware(s) PROVE p \notin crossed
  BY <1>2 DEF CreateSoftware, met
<1>3. ASSUME NEW t \in Thread,
             \/ Insert(t) \/ FirstSave(t) \/ SecondSave(t) \/ LoadPens(t) \/ DestroyPen(t)
             \/ Cleaned(t) \/ FinalSave(t) \/ SaveDraft(t) \/ DraftSaved(t)
             \/ Destroy(t) \/ CommitDestroy(t) \/ Abort(t)
      PROVE  p \notin crossed
  BY <1>3, InsertStep, FirstSaveStep, SecondSaveStep, LoadPensStep, CleanedStep, FinalSaveStep,
     SaveDraftStep, DraftSavedStep, DestroyStep, CommitDestroyStep, AbortStep DEF DestroyPen, met
<1>4. QED
  BY <1>1, <1>2, <1>3, NextSteps DEF vars

\* A step of t that leaves the row of p, and ends or is not about the form of p.
LEMMA SingleQuiet ==
  ASSUME NEW p \in Post, Single(p), NEW t \in Thread, OthersWait(t),
         posts'[p] = posts[p], ~Edits(t, p)', req'[t].pc # "destroy"
  PROVE  Single(p)'
<1> USE DEF OthersWait, Edits
<1>1. Alone(p)'
  BY DEF Single, Alone, Destroys
<1>2. Current(p)' /\ Drafts(p)'
  BY DEF Single, Current, Drafts
<1>3. QED
  BY <1>1, <1>2 DEF Single

\* When nobody edits p any more there is nothing to show.
LEMMA SingleEnds ==
  ASSUME NEW p \in Post, \A o \in Thread : ~Edits(o, p)'
  PROVE  Single(p)'
BY DEF Single, Alone, Current, Drafts

\* A step of the only request about p that goes on with it.
LEMMA SingleGoes ==
  ASSUME NEW p \in Post, Single(p), NEW t \in Thread, OthersWait(t), Edits(t, p), Edits(t, p)',
         req'[t].pc \notin {"create", "save_draft"},
         posts'[p] \notin NoRow => req'[t].read = posts'[p],
         req'[t].pc \in {"load_draft", "clean_draft"} /\ posts'[p] \notin NoRow
           => posts'[p].status = "draft"
  PROVE  Single(p)'
<1>1. \A o \in Thread : o # t => ~Edits(o, p)' /\ ~Destroys(o, p)'
  BY DEF Single, Alone, Destroys, OthersWait, Edits
<1>2. Alone(p)'
  BY <1>1 DEF Alone, Edits, Destroys
<1>3. Current(p)' /\ Drafts(p)'
  BY <1>1 DEF Current, Drafts
<1>4. QED
  BY <1>2, <1>3 DEF Single

LEMMA SingleAcrossSaves ==
  ASSUME TypeOK, NEW p \in Post, Single(p), NEW t \in Thread,
         FirstSave(t) \/ SecondSave(t) \/ SaveDraft(t) \/ FinalSave(t)
  PROVE  Single(p)'
<1>1. \E saves, pc :
        /\ OthersWait(t) /\ req[t].pc \in {"first", "second", "save_draft", "final"}
        /\ \/ Raises(t)
           \/ Stores(t, saves) /\ req'[t] = Idle
           \/ /\ Stores(t, saves) /\ Saved(t, pc)
              /\ pc \in {"second", "load", "load_draft", "clean_draft"}
              /\ \/ pc \in {"second", "load"}
                 \/ req[t].pc = "save_draft"
                 \/ Drafted(t)
  <2>1. CASE FirstSave(t)
    BY <2>1, FirstSaveStep
  <2>2. CASE SecondSave(t)
    BY <2>2, SecondSaveStep
  <2>3. CASE SaveDraft(t)
    BY <2>3, SaveDraftStep
  <2>4. CASE FinalSave(t)
    BY <2>4, FinalSaveStep
  <2>5. QED
    BY <2>1, <2>2, <2>3, <2>4
<1>2. CASE ~Edits(t, p)
  <2>1. posts'[p] = posts[p]
    BY <1>1, <1>2, OtherSaves
  <2>2. ~Edits(t, p)' /\ req'[t].pc # "destroy"
    BY <1>1, <1>2 DEF Raises, Saved, GoesOn, Edits, Idle
  <2>3. QED
    BY <1>1, <2>1, <2>2, SingleQuiet
<1>3. CASE Edits(t, p) /\ req'[t] = Idle
  <2>1. \A o \in Thread : ~Edits(o, p)'
    BY <1>1, <1>3 DEF Single, Alone, Edits, OthersWait, Idle
  <2>2. QED
    BY <2>1, SingleEnds
<1>4. CASE Edits(t, p) /\ req'[t] # Idle
  <2>1. PICK saves, pc :
          /\ Stores(t, saves) /\ Saved(t, pc)
          /\ pc \in {"second", "load", "load_draft", "clean_draft"}
          /\ pc \in {"second", "load"} \/ req[t].pc = "save_draft" \/ Drafted(t)
    BY <1>1, <1>4 DEF Raises
  <2>2. /\ req'[t].pc = pc /\ Edits(t, p)'
        /\ req'[t].read = Assigned(req[t].read, req[t].form)
    BY <1>4, <2>1 DEF Saved, GoesOn, Edits
  <2>3. posts'[p] \notin NoRow => posts'[p] = Assigned(req[t].read, req[t].form)
    BY <1>1, <1>4, <2>1, SavedRow DEF Single
  <2>4. pc \in {"load_draft", "clean_draft"} => Assigned(req[t].read, req[t].form).status = "draft"
    BY <1>4, <2>1 DEF Single, Drafts, Drafted
  <2>5. QED
    BY <1>1, <1>4, <2>1, <2>2, <2>3, <2>4, SingleGoes
<1>5. QED
  BY <1>2, <1>3, <1>4

LEMMA SingleOpens ==
  ASSUME TypeOK, NEW p \in Post, p \notin crossed', p \notin crossed => Single(p),
         NEW t \in Thread, NEW q \in Post, NEW form \in Form, Create(t, q, form) \/ Edit(t, q, form)
  PROVE  Single(p)'
<1>1. /\ req[t] = Idle /\ OthersWait(t) /\ posts' = posts /\ req'[t].post = q
      /\ \/ req'[t].pc = "create" /\ crossed' = crossed
         \/ /\ req'[t].pc \in {"load", "first", "save_draft"}
            /\ crossed' = IF Busy(q) THEN crossed \cup {q} ELSE crossed \ {q}
            /\ req'[t].form = form /\ req'[t].read = posts[q]
            /\ req'[t].pc = "save_draft" => Assigned(posts[q], form).status = "draft"
      /\ q = p => ~Busy(p)
  <2>1. CASE Create(t, q, form)
    BY <2>1, CreateStep
  <2>2. CASE Edit(t, q, form)
    BY <2>2, EditStep
  <2>3. QED
    BY <2>1, <2>2
<1>2. CASE q # p
  BY <1>1, <1>2, SingleQuiet DEF Edits
<1>3. CASE q = p
  <2>1. \A o \in Thread : o # t => ~Edits(o, p)' /\ ~Destroys(o, p)'
    BY <1>1, <1>3 DEF Busy, Edits, Destroys, OthersWait
  <2>2. Alone(p)'
    BY <1>1, <2>1 DEF Alone, Edits, Destroys
  <2>3. Current(p)' /\ Drafts(p)'
    BY <1>1, <1>3, <2>1 DEF Current, Drafts
  <2>4. QED
    BY <2>2, <2>3 DEF Single
<1>4. QED
  BY <1>2, <1>3

LEMMA SingleInductive ==
  ASSUME TypeOK, SingleInv, [Next]_vars
  PROVE  SingleInv'
<1>1. SUFFICES ASSUME NEW p \in Post, p \notin crossed' PROVE Single(p)'
  BY DEF SingleInv
<1>2. p \notin crossed => Single(p)
  BY DEF SingleInv
<1>3. ASSUME NEW t \in Thread, NEW q \in Post, NEW form \in Form, Create(t, q, form) \/ Edit(t, q, form)
      PROVE  Single(p)'
  BY <1>1, <1>2, <1>3, SingleOpens
<1>4. SUFFICES ASSUME \A t \in Thread, q \in Post, form \in Form :
                        ~Create(t, q, form) /\ ~Edit(t, q, form)
               PROVE  Single(p)'
  BY <1>3
<1>5. Single(p)
  BY <1>1, <1>2, <1>4, CrossedHeals
<1>6. ASSUME NEW t \in Thread, FirstSave(t) \/ SecondSave(t) \/ SaveDraft(t) \/ FinalSave(t)
      PROVE  Single(p)'
  BY <1>5, <1>6, SingleAcrossSaves
<1>7. ASSUME NEW t \in Thread, LoadPens(t) \/ Cleaned(t) \/ DraftSaved(t) PROVE Single(p)'
  <2>1. /\ OthersWait(t) /\ posts' = posts
        /\ \/ req'[t] = Idle
           \/ /\ req'[t].post = req[t].post /\ req'[t].read = req[t].read
              /\ req'[t].form = req[t].form
              /\ \/ req[t].pc = "load_draft" /\ req'[t].pc = "clean_draft"
                 \/ req[t].pc \in {"load", "clean"} /\ req'[t].pc \in {"clean", "final"}
    BY <1>7, LoadPensStep, CleanedStep, DraftSavedStep DEF GoesOn
  <2>2. CASE ~Edits(t, p) \/ req'[t] = Idle
    BY <1>5, <2>1, <2>2, SingleQuiet DEF Edits, Idle
  <2>3. CASE Edits(t, p) /\ req'[t] # Idle
    <3>1. Edits(t, p)' /\ req[t].pc # "create"
      BY <2>1, <2>3 DEF Edits
    <3>2. posts[p] \notin NoRow => req[t].read = posts[p]
      BY <1>5, <2>3, <3>1 DEF Single, Current
    <3>3. req'[t].pc = "clean_draft" /\ posts[p] \notin NoRow => posts[p].status = "draft"
      BY <1>5, <2>1, <2>3 DEF Single, Drafts
    <3>4. QED
      BY <1>5, <2>1, <2>3, <3>1, <3>2, <3>3, SingleGoes
  <2>4. QED
    BY <2>2, <2>3
<1>8. ASSUME NEW t \in Thread, Insert(t) PROVE Single(p)'
  <2>1. /\ req[t].pc = "create" /\ OthersWait(t) /\ req'[t] = Idle
        /\ posts' = [posts EXCEPT ![req[t].post] = req[t].read]
    BY <1>8, InsertStep
  <2>2. CASE Edits(t, p)
    <3>1. \A o \in Thread : ~Edits(o, p)'
      BY <1>5, <2>1, <2>2 DEF Single, Alone, Edits, OthersWait, Idle
    <3>2. QED
      BY <3>1, SingleEnds
  <2>3. CASE ~Edits(t, p)
    <3>1. posts'[p] = posts[p]
      BY <2>1, <2>3 DEF Edits, TypeOK
    <3>2. QED
      BY <1>5, <2>1, <3>1, SingleQuiet DEF Edits, Idle
  <2>4. QED
    BY <2>2, <2>3
<1>9. ASSUME NEW t \in Thread, Destroy(t) PROVE Single(p)'
  <2>1. /\ req[t] = Idle /\ OthersWait(t) /\ req'[t].pc = "destroy" /\ posts' = posts
        /\ p \in req'[t].posts => ~Busy(p)
    BY <1>1, <1>9, DestroyStep
  <2>2. Alone(p)'
    BY <1>5, <2>1 DEF Single, Alone, Busy, Edits, Destroys, OthersWait
  <2>3. Current(p)' /\ Drafts(p)'
    BY <1>5, <2>1 DEF Single, Current, Drafts, Edits, OthersWait
  <2>4. QED
    BY <2>2, <2>3 DEF Single
<1>10. ASSUME NEW t \in Thread, CommitDestroy(t) PROVE Single(p)'
  <2>1. req[t].pc = "destroy" /\ OthersWait(t) /\ req'[t] = Idle
    BY <1>10, CommitDestroyStep
  <2>2. CASE p \in req[t].posts
    <3>1. \A o \in Thread : ~Edits(o, p)'
      BY <1>5, <2>1, <2>2 DEF Single, Alone, Edits, Destroys, OthersWait, Idle
    <3>2. QED
      BY <3>1, SingleEnds
  <2>3. CASE p \notin req[t].posts
    <3>1. posts'[p] = posts[p]
      BY <1>10, <2>3, CommitDestroyStep
    <3>2. QED
      BY <1>5, <2>1, <3>1, SingleQuiet DEF Edits, Idle
  <2>4. QED
    BY <2>2, <2>3
<1>11. ASSUME NEW t \in Thread, Abort(t) PROVE Single(p)'
  <2>1. OthersWait(t) /\ req'[t] = Idle /\ posts' = posts
    BY <1>11, AbortStep
  <2>2. QED
    BY <1>5, <2>1, SingleQuiet DEF Idle, Edits
<1>12. CASE UNCHANGED <<posts, req>>
  BY <1>5, <1>12 DEF Single, Alone, Current, Drafts, Edits, Destroys
<1>13. QED
  BY <1>4, <1>6, <1>7, <1>8, <1>9, <1>10, <1>11, <1>12, NextSteps DEF CreateSoftware, DestroyPen, vars

-----------------------------------------------------------------------------
\* What the only request about p may rely on before it is done ...
Keeps(p) ==
  \A t \in Thread : Edits(t, p) =>
    /\ req[t].pc = "create" => posts[p] \in NoRow
    /\ req[t].pc \notin {"create", "clean_draft"} => ~claim[p].known
    /\ req[t].pc = "clean" => PensOf(p) \subseteq req[t].doomed
    /\ req[t].pc = "final" => PensOf(p) = {}

\* ... and what the page shows when nobody edits p.
Rests(p) ==
  (\A t \in Thread : ~Edits(t, p)) /\ posts[p].status = "published" /\ claim[p].known
    => ShowsItsForm(p)

ShowInv == \A p \in Post \ crossed : Keeps(p) /\ Rests(p)

\* A step of a request that is about another post, or begins a destroy.
LEMMA ShowQuiet ==
  ASSUME NEW p \in Post, Keeps(p), Rests(p), NEW t \in Thread, OthersWait(t),
         ~Edits(t, p), ~Edits(t, p)', posts'[p] = posts[p], claim'[p] = claim[p],
         PensOf(p)' = PensOf(p)
  PROVE  Keeps(p)' /\ Rests(p)'
<1>1. \A o \in Thread : /\ Edits(o, p)' <=> Edits(o, p)
                        /\ Edits(o, p) => req'[o] = req[o]
  BY DEF OthersWait, Edits
<1>2. Keeps(p)'
  BY <1>1 DEF Keeps
<1>3. ShowsItsForm(p) => ShowsItsForm(p)'
  BY DEF ShowsItsForm
<1>4. QED
  BY <1>1, <1>2, <1>3 DEF Rests

\* The end of the only request about p.
LEMMA ShowEnds ==
  ASSUME NEW p \in Post, Alone(p), NEW t \in Thread, OthersWait(t), Edits(t, p), req'[t] = Idle,
         posts'[p].status = "published" /\ claim'[p].known => ShowsItsForm(p)'
  PROVE  Keeps(p)' /\ Rests(p)'
<1>1. \A o \in Thread : ~Edits(o, p)'
  BY DEF Alone, OthersWait, Edits, Idle
<1>2. QED
  BY <1>1 DEF Keeps, Rests

\* A step of the only request about p that goes on with it.
LEMMA ShowGoes ==
  ASSUME NEW p \in Post, Alone(p), NEW t \in Thread, OthersWait(t), Edits(t, p), Edits(t, p)',
         req'[t].pc # "create",
         req'[t].pc # "clean_draft" => ~claim'[p].known,
         req'[t].pc = "clean" => PensOf(p)' \subseteq req'[t].doomed,
         req'[t].pc = "final" => PensOf(p)' = {}
  PROVE  Keeps(p)' /\ Rests(p)'
<1>1. \A o \in Thread : o # t => ~Edits(o, p)'
  BY DEF Alone, OthersWait, Edits
<1>2. Keeps(p)'
  BY <1>1 DEF Keeps
<1>3. QED
  BY <1>2 DEF Rests

\* What a save does to the row and the pens of the post it is about, and of others.
LEMMA SaveEffects ==
  ASSUME TypeOK, NEW p \in Post, NEW t \in Thread, NEW saves,
         req[t].pc \notin {"idle", "destroy"}, Stores(t, saves)
  PROVE  /\ ~Edits(t, p) => posts'[p] = posts[p] /\ PensOf(p)' = PensOf(p)
         /\ Edits(t, p) =>
              /\ posts[p] \in NoRow => posts'[p] = posts[p]
              /\ PensOf(p)' = PensOf(p) \cup BuiltPens(p, req[t].form, saves)
<1>1. req[t].post \in Post /\ req[t].read \in Row /\ req[t].form \in Form
  BY RequestKinds
<1>2. \A r \in BuiltPens(req[t].post, req[t].form, saves) : r.post = req[t].post
  BY BuiltFor
<1>3. pens' = pens \cup BuiltPens(req[t].post, req[t].form, saves)
  BY DEF Stores
<1>4. CASE ~Edits(t, p)
  <2>1. req[t].post # p
    BY <1>4 DEF Edits
  <2>2. posts'[p] = posts[p]
    BY <2>1 DEF Stores, TypeOK
  <2>3. PensOf(p)' = PensOf(p)
    BY <1>2, <1>3, <2>1 DEF PensOf
  <2>4. QED
    BY <1>4, <2>2, <2>3
<1>5. CASE Edits(t, p)
  <2>1. req[t].post = p
    BY <1>5 DEF Edits
  <2>2. posts[p] \in NoRow => posts'[p] = posts[p]
    BY <1>1, <2>1, WrittenIsRow DEF Stores, TypeOK
  <2>3. PensOf(p)' = PensOf(p) \cup BuiltPens(p, req[t].form, saves)
    BY <1>2, <1>3, <2>1 DEF PensOf
  <2>4. QED
    BY <1>5, <2>2, <2>3
<1>6. QED
  BY <1>4, <1>5

\* The pens of one form, each saved once, on a post without others.
LEMMA BuiltShow ==
  ASSUME NEW p, NEW form \in Form, PensOf(p)' = BuiltPens(p, form, {"final"}),
         claim'[p].pens = form.pens
  PROVE  ShowsItsForm(p)'
<1> DEFINE built == BuiltPens(p, form, {"final"})
<1>1. \A r \in built : \E x \in form.pens :
        r = [post |-> p, no |-> form.no, save |-> "final", pen |-> x]
  BY DEF BuiltPens
<1>2. \A x \in form.pens : [post |-> p, no |-> form.no, save |-> "final", pen |-> x] \in built
  BY DEF BuiltPens
<1>3. \A r, q \in built : r.pen = q.pen => r = q
  BY <1>1
<1>4. \A r \in built : r.pen \in form.pens
  BY <1>1
<1>5. \A x \in form.pens : \E r \in built : r.pen = x
  BY <1>2
<1> HIDE DEF built
<1>6. {r.pen : r \in built} = form.pens
  BY <1>4, <1>5
<1>7. QED
  BY <1>3, <1>6 DEF ShowsItsForm, built

\* Of a post without a row nothing is shown.
LEMMA NothingShown ==
  ASSUME TypeOK, NEW p \in Post, posts[p] \in NoRow, posts'[p] = posts[p]
  PROVE  posts'[p].status # "published"
BY DEF NoRow

LEMMA ShowAcrossSaves ==
  ASSUME TypeOK, NEW p \in Post, Single(p), Keeps(p), Rests(p), NEW t \in Thread,
         FirstSave(t) \/ SecondSave(t) \/ SaveDraft(t)
  PROVE  Keeps(p)' /\ Rests(p)'
<1>1. PICK saves \in SUBSET {"first", "second", "final"}, pc \in {"second", "load", "load_draft"} :
        /\ req[t].pc \in {"first", "second", "save_draft"}
        /\ OthersWait(t) /\ claim' = claim
        /\ Raises(t) \/ (Stores(t, saves) /\ Saved(t, pc))
  BY FirstSaveStep, SecondSaveStep, SaveDraftStep
<1>2. CASE ~Edits(t, p)
  <2>1. posts'[p] = posts[p] /\ PensOf(p)' = PensOf(p)
    BY <1>1, <1>2, SaveEffects DEF Raises, PensOf
  <2>2. ~Edits(t, p)'
    BY <1>1, <1>2 DEF Raises, Saved, GoesOn, Edits, Idle
  <2>3. QED
    BY <1>1, <1>2, <2>1, <2>2, ShowQuiet
<1>3. CASE Edits(t, p) /\ Raises(t)
  <2>1. posts[p] \in NoRow /\ posts'[p] = posts[p] /\ req'[t] = Idle
    BY <1>3 DEF Raises, Edits
  <2>2. posts'[p].status # "published"
    BY <2>1, NothingShown
  <2>3. QED
    BY <1>1, <1>3, <2>1, <2>2, ShowEnds DEF Single
<1>4. CASE Edits(t, p) /\ Saved(t, pc)
  <2>1. req'[t].pc = pc /\ Edits(t, p)'
    BY <1>1, <1>4 DEF Saved, GoesOn, Edits
  <2>2. ~claim'[p].known
    BY <1>1, <1>4 DEF Keeps
  <2>3. QED
    BY <1>1, <1>4, <2>1, <2>2, ShowGoes DEF Single
<1>5. QED
  BY <1>1, <1>2, <1>3, <1>4

LEMMA ShowAcrossFinal ==
  ASSUME TypeOK, NEW p \in Post, Single(p), Keeps(p), Rests(p), NEW t \in Thread, FinalSave(t)
  PROVE  Keeps(p)' /\ Rests(p)'
<1>1. /\ req[t].pc = "final" /\ OthersWait(t) /\ Claimed(t)
      /\ \/ Raises(t)
         \/ Stores(t, {"final"}) /\ req'[t] = Idle
         \/ Stores(t, {"final"}) /\ Saved(t, "clean_draft")
  BY FinalSaveStep
<1>2. req[t].post \in Post /\ req[t].form \in Form
  BY <1>1, RequestKinds
<1>3. CASE ~Edits(t, p)
  <2>1. posts'[p] = posts[p] /\ PensOf(p)' = PensOf(p)
    BY <1>1, <1>3, SaveEffects DEF Raises, PensOf
  <2>2. ~Edits(t, p)'
    BY <1>1, <1>3 DEF Raises, Saved, GoesOn, Edits, Idle
  <2>3. claim'[p] = claim[p]
    BY <1>1, <1>2, <1>3 DEF Claimed, Edits, TypeOK
  <2>4. QED
    BY <1>1, <1>3, <2>1, <2>2, <2>3, ShowQuiet
<1>4. CASE Edits(t, p) /\ Raises(t)
  <2>1. posts[p] \in NoRow /\ posts'[p] = posts[p] /\ req'[t] = Idle
    BY <1>4 DEF Raises, Edits
  <2>2. posts'[p].status # "published"
    BY <2>1, NothingShown
  <2>3. QED
    BY <1>1, <1>4, <2>1, <2>2, ShowEnds DEF Single
<1>5. CASE Edits(t, p) /\ Stores(t, {"final"}) /\ req'[t] = Idle
  <2>1. PensOf(p)' = BuiltPens(p, req[t].form, {"final"})
    <3>1. PensOf(p)' = PensOf(p) \cup BuiltPens(p, req[t].form, {"final"})
      BY <1>1, <1>5, SaveEffects
    <3>2. PensOf(p) = {}
      BY <1>1, <1>5 DEF Keeps
    <3>3. QED
      BY <3>1, <3>2
  <2>2. claim'[p].pens = req[t].form.pens
    BY <1>1, <1>2, <1>5 DEF Claimed, Edits, TypeOK
  <2>3. ShowsItsForm(p)'
    BY <1>2, <2>1, <2>2, BuiltShow
  <2>4. QED
    BY <1>1, <1>5, <2>3, ShowEnds DEF Single
<1>6. CASE Edits(t, p) /\ Saved(t, "clean_draft")
  <2>1. req'[t].pc = "clean_draft" /\ Edits(t, p)'
    BY <1>1, <1>6 DEF Saved, GoesOn, Edits
  <2>2. QED
    BY <1>1, <1>6, <2>1, ShowGoes DEF Single
<1>7. QED
  BY <1>1, <1>3, <1>4, <1>5, <1>6

LEMMA ShowAcrossInsert ==
  ASSUME TypeOK, PensHavePosts, NEW p \in Post, Single(p), Keeps(p), Rests(p),
         NEW t \in Thread, Insert(t)
  PROVE  Keeps(p)' /\ Rests(p)'
<1>1. /\ req[t].pc = "create" /\ OthersWait(t) /\ req'[t] = Idle
      /\ posts' = [posts EXCEPT ![req[t].post] = req[t].read]
      /\ pens' = pens \cup BuiltPens(req[t].post, req[t].form, {"final"})
      /\ claim' = [claim EXCEPT ![req[t].post] = [known |-> TRUE, pens |-> req[t].form.pens]]
  BY InsertStep
<1>2. /\ req[t].post \in Post /\ req[t].form \in Form
      /\ \A r \in BuiltPens(req[t].post, req[t].form, {"final"}) : r.post = req[t].post
  BY <1>1, RequestKinds, BuiltFor
<1>3. CASE ~Edits(t, p)
  <2>1. req[t].post # p
    BY <1>1, <1>3 DEF Edits
  <2>2. posts'[p] = posts[p] /\ claim'[p] = claim[p]
    BY <1>1, <2>1 DEF TypeOK
  <2>3. PensOf(p)' = PensOf(p)
    BY <1>1, <1>2, <2>1 DEF PensOf
  <2>4. ~Edits(t, p)'
    BY <1>1 DEF Edits, Idle
  <2>5. QED
    BY <1>1, <1>3, <2>2, <2>3, <2>4, ShowQuiet
<1>4. CASE Edits(t, p)
  <2>1. req[t].post = p
    BY <1>4 DEF Edits
  <2>2. PensOf(p) = {}
    BY <1>1, <1>4 DEF Keeps, PensHavePosts, PensOf
  <2>3. PensOf(p)' = BuiltPens(p, req[t].form, {"final"})
    BY <1>1, <1>2, <2>1, <2>2 DEF PensOf
  <2>4. claim'[p].pens = req[t].form.pens
    BY <1>1, <1>2, <2>1 DEF TypeOK
  <2>5. ShowsItsForm(p)'
    BY <1>2, <2>3, <2>4, BuiltShow
  <2>6. QED
    BY <1>1, <1>4, <2>5, ShowEnds DEF Single
<1>5. QED
  BY <1>3, <1>4

\* clean_pen empties the list it has loaded, and only that list.
LEMMA ShowAcrossClean ==
  ASSUME TypeOK, DoomedBelong, NEW p \in Post, Single(p), Keeps(p), Rests(p),
         NEW t \in Thread, LoadPens(t) \/ DestroyPen(t) \/ Cleaned(t) \/ DraftSaved(t)
  PROVE  Keeps(p)' /\ Rests(p)'
<1>1. CASE LoadPens(t)
  <2>1. /\ req[t].pc \in {"load", "load_draft"} /\ OthersWait(t)
        /\ req'[t].pc = IF req[t].pc = "load" THEN "clean" ELSE "clean_draft"
        /\ req'[t].post = req[t].post /\ req'[t].doomed = PensOf(req[t].post)
        /\ UNCHANGED <<posts, pens, claim>>
    BY <1>1, LoadPensStep DEF GoesOn
  <2>2. PensOf(p)' = PensOf(p)
    BY <2>1 DEF PensOf
  <2>3. CASE ~Edits(t, p)
    <3>1. ~Edits(t, p)'
      BY <2>1, <2>3 DEF Edits
    <3>2. QED
      BY <2>1, <2>2, <2>3, <3>1, ShowQuiet
  <2>4. CASE Edits(t, p)
    <3>1. Edits(t, p)' /\ req[t].post = p
      BY <2>1, <2>4 DEF Edits
    <3>2. ~claim[p].known
      BY <2>1, <2>4 DEF Keeps
    <3>3. QED
      BY <2>1, <2>2, <2>4, <3>1, <3>2, ShowGoes DEF Single
  <2>5. QED
    BY <2>3, <2>4
<1>2. CASE DestroyPen(t)
  <2>1. PICK r \in req[t].doomed \cap pens : pens' = pens \ {r}
    BY <1>2 DEF DestroyPen
  <2>2. req[t].pc \in {"clean", "clean_draft"} /\ UNCHANGED <<posts, req, claim>>
    BY <1>2 DEF DestroyPen
  <2>3. OthersWait(t)
    BY <2>2 DEF OthersWait
  <2>4. CASE ~Edits(t, p)
    <3>1. r.post # p
      BY <2>1, <2>2, <2>4 DEF DoomedBelong, Edits
    <3>2. PensOf(p)' = PensOf(p)
      BY <2>1, <3>1 DEF PensOf
    <3>3. ~Edits(t, p)'
      BY <2>2, <2>4 DEF Edits
    <3>4. QED
      BY <2>2, <2>3, <2>4, <3>2, <3>3, ShowQuiet
  <2>5. CASE Edits(t, p)
    <3>1. PensOf(p)' \subseteq PensOf(p)
      BY <2>1 DEF PensOf
    <3>2. Edits(t, p)'
      BY <2>2, <2>5 DEF Edits
    <3>3. /\ req[t].pc = "clean" => PensOf(p) \subseteq req[t].doomed
          /\ req[t].pc = "clean" => ~claim[p].known
      BY <2>5 DEF Keeps
    <3>4. QED
      BY <2>2, <2>3, <2>5, <3>1, <3>2, <3>3, ShowGoes DEF Single
  <2>6. QED
    BY <2>4, <2>5
<1>3. CASE Cleaned(t)
  <2>1. /\ req[t].pc = "clean" /\ OthersWait(t) /\ req[t].doomed \cap pens = {}
        /\ \/ req'[t].pc = "final" /\ req'[t].post = req[t].post /\ claim' = claim
           \/ /\ req'[t] = Idle
              /\ claim' = [claim EXCEPT ![req[t].post] = [known |-> TRUE, pens |-> {}]]
        /\ UNCHANGED <<posts, pens>>
    BY <1>3, CleanedStep DEF GoesOn
  <2>2. PensOf(p)' = PensOf(p) /\ req[t].post \in Post
    BY <2>1, RequestKinds DEF PensOf
  <2>3. CASE ~Edits(t, p)
    <3>1. ~Edits(t, p)' /\ req[t].post # p
      BY <2>1, <2>3 DEF Edits, Idle
    <3>2. claim'[p] = claim[p]
      BY <2>1, <2>2, <3>1 DEF TypeOK
    <3>3. QED
      BY <2>1, <2>2, <2>3, <3>1, <3>2, ShowQuiet
  <2>4. CASE Edits(t, p)
    <3>1. PensOf(p) \subseteq req[t].doomed /\ ~claim[p].known
      BY <2>1, <2>4 DEF Keeps
    <3>2. PensOf(p)' = {}
      BY <2>1, <2>2, <3>1 DEF PensOf
    <3>3. CASE req'[t] = Idle
      <4>1. claim'[p].pens = {}
        BY <2>1, <2>2, <2>4, <3>3 DEF Edits, Idle, TypeOK
      <4>2. ShowsItsForm(p)'
        BY <3>2, <4>1 DEF ShowsItsForm
      <4>3. QED
        BY <2>1, <2>4, <3>3, <4>2, ShowEnds DEF Single
    <3>4. CASE req'[t].pc = "final" /\ req'[t].post = req[t].post /\ claim' = claim
      <4>1. Edits(t, p)'
        BY <2>4, <3>4 DEF Edits
      <4>2. QED
        BY <2>1, <2>4, <3>1, <3>2, <3>4, <4>1, ShowGoes DEF Single
    <3>5. QED
      BY <2>1, <3>3, <3>4
  <2>5. QED
    BY <2>3, <2>4
<1>4. CASE DraftSaved(t)
  <2>1. /\ req[t].pc = "clean_draft" /\ OthersWait(t) /\ req'[t] = Idle
        /\ claim' = [claim EXCEPT ![req[t].post] = [known |-> TRUE, pens |-> req[t].form.pens]]
        /\ UNCHANGED <<posts, pens>>
    BY <1>4, DraftSavedStep
  <2>2. PensOf(p)' = PensOf(p) /\ req[t].post \in Post
    BY <2>1, RequestKinds DEF PensOf
  <2>3. CASE ~Edits(t, p)
    <3>1. ~Edits(t, p)' /\ req[t].post # p
      BY <2>1, <2>3 DEF Edits, Idle
    <3>2. claim'[p] = claim[p]
      BY <2>1, <2>2, <3>1 DEF TypeOK
    <3>3. QED
      BY <2>1, <2>2, <2>3, <3>1, <3>2, ShowQuiet
  <2>4. CASE Edits(t, p)
    <3>1. posts[p] \notin NoRow => posts[p].status = "draft"
      BY <2>1, <2>4 DEF Single, Drafts
    <3>2. posts'[p].status # "published"
      BY <2>1, <3>1, NothingShown
    <3>3. QED
      BY <2>1, <2>4, <3>2, ShowEnds DEF Single
  <2>5. QED
    BY <2>3, <2>4
<1>5. QED
  BY <1>1, <1>2, <1>3, <1>4

LEMMA ShowAcrossCommit ==
  ASSUME TypeOK, DoomedBelong, NEW p \in Post, Single(p), Keeps(p), Rests(p),
         NEW t \in Thread, CommitDestroy(t)
  PROVE  Keeps(p)' /\ Rests(p)'
<1>1. /\ req[t].pc = "destroy" /\ OthersWait(t) /\ req'[t] = Idle /\ claim' = claim
      /\ ~Edits(t, p) /\ ~Edits(t, p)'
  BY CommitDestroyStep DEF Edits, Idle
<1>2. CASE UNCHANGED <<posts, pens>>
  <2>1. PensOf(p)' = PensOf(p)
    BY <1>2 DEF PensOf
  <2>2. QED
    BY <1>1, <1>2, <2>1, ShowQuiet
<1>3. CASE /\ posts' = [x \in Post |-> IF x \in req[t].posts THEN [status |-> "gone"] ELSE posts[x]]
           /\ pens' = pens \ req[t].doomed
  <2>1. CASE p \notin req[t].posts
    <3>1. posts'[p] = posts[p]
      BY <1>3, <2>1
    <3>2. \A r \in req[t].doomed : r.post # p
      BY <1>1, <2>1 DEF DoomedBelong
    <3>3. PensOf(p)' = PensOf(p)
      BY <1>3, <3>2 DEF PensOf
    <3>4. QED
      BY <1>1, <3>1, <3>3, ShowQuiet
  <2>2. CASE p \in req[t].posts
    <3>1. posts'[p] = [status |-> "gone"]
      BY <1>3, <2>2
    <3>2. \A o \in Thread : ~Edits(o, p)'
      BY <1>1, <2>2 DEF Single, Alone, Edits, Destroys, OthersWait
    <3>3. QED
      BY <3>1, <3>2 DEF Keeps, Rests
  <2>3. QED
    BY <2>1, <2>2
<1>4. QED
  BY <1>2, <1>3, CommitDestroyStep

LEMMA ShowAcrossOpens ==
  ASSUME TypeOK, NEW p \in Post, Single(p)',
         NEW t \in Thread, NEW q \in Post, NEW form \in Form, Create(t, q, form) \/ Edit(t, q, form),
         q # p => Keeps(p) /\ Rests(p)
  PROVE  Keeps(p)' /\ Rests(p)'
<1>1. /\ req[t] = Idle /\ OthersWait(t) /\ req'[t].post = q
      /\ \/ req'[t].pc = "create" /\ posts[q].status = "unborn" /\ claim' = claim
         \/ /\ req'[t].pc \in {"load", "first", "save_draft"}
            /\ claim' = [claim EXCEPT ![q] = InDoubt]
      /\ UNCHANGED <<posts, pens>>
  BY CreateStep, EditStep
<1>2. PensOf(p)' = PensOf(p) /\ ~Edits(t, p)
  BY <1>1 DEF PensOf, Edits, Idle
<1>3. CASE q # p
  <2>1. claim'[p] = claim[p] /\ ~Edits(t, p)'
    BY <1>1, <1>3 DEF TypeOK, Edits
  <2>2. Keeps(p) /\ Rests(p)
    BY <1>3
  <2>3. QED
    BY <1>1, <1>2, <2>1, <2>2, ShowQuiet
<1>4. CASE q = p
  <2>1. Edits(t, p)'
    BY <1>1, <1>4 DEF Edits
  <2>2. \A o \in Thread : o # t => ~Edits(o, p)'
    BY <2>1 DEF Single, Alone
  <2>3. \/ req'[t].pc = "create" /\ posts'[p] \in NoRow
        \/ req'[t].pc \in {"load", "first", "save_draft"} /\ ~claim'[p].known
    <3>1. posts[p].status = "unborn" => posts[p] \in NoRow
      BY RowKinds
    <3>2. ~InDoubt.known
      BY DEF InDoubt
    <3>3. QED
      BY <1>1, <1>4, <3>1, <3>2 DEF TypeOK
  <2>4. Keeps(p)'
    BY <2>2, <2>3 DEF Keeps
  <2>5. QED
    BY <2>1, <2>4 DEF Rests
<1>5. QED
  BY <1>3, <1>4

LEMMA ShowInductive ==
  ASSUME TypeOK, DoomedBelong, PensHavePosts, SingleInv, SingleInv', ShowInv, [Next]_vars
  PROVE  ShowInv'
<1>1. SUFFICES ASSUME NEW p \in Post, p \notin crossed' PROVE Keeps(p)' /\ Rests(p)'
  BY DEF ShowInv
<1>a. Single(p)'
  BY <1>1 DEF SingleInv
<1>b. p \notin crossed => Single(p) /\ Keeps(p) /\ Rests(p)
  BY DEF SingleInv, ShowInv
<1>3. ASSUME NEW t \in Thread, NEW q \in Post, NEW form \in Form, Create(t, q, form) \/ Edit(t, q, form)
      PROVE  Keeps(p)' /\ Rests(p)'
  <2>1. q # p => p \notin crossed
    BY <1>1, <1>3, CreateStep, EditStep
  <2>2. QED
    BY <1>a, <1>b, <1>3, <2>1, ShowAcrossOpens
<1>c. SUFFICES ASSUME \A t \in Thread, q \in Post, form \in Form :
                        ~Create(t, q, form) /\ ~Edit(t, q, form)
               PROVE  Keeps(p)' /\ Rests(p)'
  BY <1>3
<1>2. Single(p) /\ Keeps(p) /\ Rests(p)
  BY <1>1, <1>b, <1>c, CrossedHeals
<1>4. ASSUME NEW t \in Thread, FirstSave(t) \/ SecondSave(t) \/ SaveDraft(t) \/ FinalSave(t) \/ Insert(t)
      PROVE  Keeps(p)' /\ Rests(p)'
  BY <1>2, <1>4, ShowAcrossSaves, ShowAcrossFinal, ShowAcrossInsert
<1>5. ASSUME NEW t \in Thread,
             LoadPens(t) \/ DestroyPen(t) \/ Cleaned(t) \/ DraftSaved(t) \/ CommitDestroy(t)
      PROVE  Keeps(p)' /\ Rests(p)'
  BY <1>2, <1>5, ShowAcrossClean, ShowAcrossCommit
<1>6. ASSUME NEW t \in Thread, Destroy(t) PROVE Keeps(p)' /\ Rests(p)'
  <2>1. /\ req[t] = Idle /\ OthersWait(t) /\ req'[t].pc = "destroy"
        /\ UNCHANGED <<posts, pens, claim>>
    BY <1>6, DestroyStep
  <2>2. ~Edits(t, p) /\ ~Edits(t, p)' /\ PensOf(p)' = PensOf(p)
    BY <2>1 DEF Edits, Idle, PensOf
  <2>3. QED
    BY <1>2, <2>1, <2>2, ShowQuiet
<1>7. ASSUME NEW t \in Thread, Abort(t) PROVE Keeps(p)' /\ Rests(p)'
  <2>1. /\ OthersWait(t) /\ req'[t] = Idle /\ UNCHANGED <<posts, pens, claim>>
        /\ PensOf(p)' = PensOf(p)
    BY <1>7, AbortStep DEF PensOf
  <2>2. CASE ~Edits(t, p)
    BY <1>2, <2>1, <2>2, ShowQuiet DEF Edits, Idle
  <2>3. CASE Edits(t, p)
    <3>1. ~(posts'[p].status = "published" /\ claim'[p].known)
      <4>1. CASE req[t].pc = "create"
        <5>1. posts[p] \in NoRow
          BY <1>2, <2>3, <4>1 DEF Keeps
        <5>2. QED
          BY <2>1, <5>1, NothingShown
      <4>2. CASE req[t].pc = "clean_draft"
        <5>1. posts[p] \notin NoRow => posts[p].status = "draft"
          BY <1>2, <2>3, <4>2 DEF Single, Drafts
        <5>2. QED
          BY <2>1, <5>1, NothingShown
      <4>3. CASE req[t].pc \notin {"create", "clean_draft"}
        BY <1>2, <2>1, <2>3, <4>3 DEF Keeps
      <4>4. QED
        BY <4>1, <4>2, <4>3
    <3>2. QED
      BY <1>2, <2>1, <2>3, <3>1, ShowEnds DEF Single
  <2>4. QED
    BY <2>2, <2>3
<1>8. CASE UNCHANGED <<posts, pens, claim, req>>
  BY <1>2, <1>8 DEF Keeps, Rests, Edits, PensOf, ShowsItsForm
<1>9. QED
  BY <1>c, <1>4, <1>5, <1>6, <1>7, <1>8, NextSteps DEF CreateSoftware, parents, vars

\* A published post has the pens of the form last saved, each once, unless that form has
\* crossed another request about the post: the three saves and the cleaning of
\* posts_controller.rb:71-76 do what one save would have done, and a form the admin has
\* refused leaves no pens, whatever becomes of the software and the author meanwhile.
THEOREM WhatIsPublishedShowsItsForm == Spec => []PublishedShowsItsForm
<1> DEFINE Inv == TypeOK /\ SingleInv /\ DoomedBelong /\ PensHavePosts /\ ShowInv
<1>1. Init => Inv
  <2>1. [status |-> "unborn"] \in NoRow
    BY DEF NoRow
  <2>2. Init => TypeOK /\ SingleInv
    BY <2>1 DEF Init, TypeOK, InDoubt, SingleInv, Single, Alone, Current, Drafts, Edits, Idle
  <2>3. Init => DoomedBelong /\ PensHavePosts
    BY DEF Init, DoomedBelong, PensHavePosts, Idle
  <2>4. Init => ShowInv
    <3>1. SUFFICES ASSUME Init, NEW p \in Post PROVE Keeps(p) /\ Rests(p)
      BY DEF ShowInv
    <3>2. /\ \A t \in Thread : ~Edits(t, p)
          /\ posts[p].status # "published"
      BY <3>1 DEF Init, Edits, Idle
    <3>3. QED
      BY <3>2 DEF Keeps, Rests
  <2>5. QED
    BY <2>2, <2>3, <2>4
<1>2. Inv /\ [Next]_vars => Inv'
  BY TypeInvariant, SingleInductive, DoomedInductive, PensInductive, ShowInductive
<1>3. Inv => PublishedShowsItsForm
  BY DEF ShowInv, Rests, Busy, PublishedShowsItsForm
<1>4. QED
  BY <1>1, <1>2, <1>3, PTL DEF Spec

-----------------------------------------------------------------------------
\* What one step makes of the row of p.
Asked(p) ==
  LET saving == {t \in Thread : Edits(t, p) /\ req'[t] # req[t]}
  IN  /\ posts'[p].status \notin {posts[p].status, "gone"} =>
           \E t \in saving : req[t].form.status = posts'[p].status
      /\ posts[p] \notin NoRow /\ posts'[p] \notin NoRow =>
           \/ posts'[p].software = posts[p].software
           \/ \E t \in saving : req[t].form.software = posts'[p].software

\* A form that is to become a post is held as it came.
NewRowsAreForms ==
  \A t \in Thread : req[t].pc = "create" =>
    /\ req[t].read.status = req[t].form.status
    /\ req[t].read.software = req[t].form.software

LEMMA NewRowsInductive ==
  ASSUME TypeOK, NewRowsAreForms, [Next]_vars
  PROVE  NewRowsAreForms'
<1> DEFINE New(t) == req[t].pc = "create" =>
             /\ req[t].read.status = req[t].form.status
             /\ req[t].read.software = req[t].form.software
<1>1. ASSUME NEW t \in Thread, OthersWait(t), New(t)' PROVE NewRowsAreForms'
  BY <1>1 DEF OthersWait, NewRowsAreForms
<1>2. ASSUME NEW t \in Thread, NEW p \in Post, NEW form \in Form,
             Create(t, p, form) \/ Edit(t, p, form)
      PROVE  NewRowsAreForms'
  <2>1. CASE Create(t, p, form)
    <3>1. /\ OthersWait(t) /\ req'[t].form = form
          /\ req'[t].read.status = form.status /\ req'[t].read.software = form.software
      BY <2>1, CreateStep
    <3>2. QED
      BY <1>1, <3>1
  <2>2. CASE Edit(t, p, form)
    <3>1. OthersWait(t) /\ req'[t].pc \in {"load", "first", "save_draft"}
      BY <2>2, EditStep
    <3>2. QED
      BY <1>1, <3>1
  <2>3. QED
    BY <1>2, <2>1, <2>2
<1>3. ASSUME NEW t \in Thread, Insert(t) \/ FirstSave(t) \/ SecondSave(t) \/ FinalSave(t) \/ SaveDraft(t)
      PROVE  NewRowsAreForms'
  <2>1. CASE Insert(t)
    <3>1. OthersWait(t) /\ req'[t] = Idle
      BY <2>1, InsertStep
    <3>2. QED
      BY <1>1, <3>1 DEF Idle
  <2>2. CASE FirstSave(t)
    BY <1>1, <2>2, FirstSaveStep DEF Raises, Saved, GoesOn, Idle
  <2>3. CASE SecondSave(t)
    BY <1>1, <2>3, SecondSaveStep DEF Raises, Saved, GoesOn, Idle
  <2>4. CASE FinalSave(t)
    BY <1>1, <2>4, FinalSaveStep DEF Raises, Saved, GoesOn, Idle
  <2>5. CASE SaveDraft(t)
    BY <1>1, <2>5, SaveDraftStep DEF Raises, Saved, GoesOn, Idle
  <2>6. QED
    BY <1>3, <2>1, <2>2, <2>3, <2>4, <2>5
<1>4. ASSUME NEW t \in Thread, LoadPens(t) \/ Cleaned(t) \/ DraftSaved(t)
      PROVE  NewRowsAreForms'
  <2>1. CASE LoadPens(t)
    BY <1>1, <2>1, LoadPensStep DEF GoesOn
  <2>2. CASE Cleaned(t)
    BY <1>1, <2>2, CleanedStep DEF GoesOn, Idle
  <2>3. CASE DraftSaved(t)
    <3>1. OthersWait(t) /\ req'[t] = Idle
      BY <2>3, DraftSavedStep
    <3>2. QED
      BY <1>1, <3>1 DEF Idle
  <2>4. QED
    BY <1>4, <2>1, <2>2, <2>3
<1>5. ASSUME NEW t \in Thread, Destroy(t) \/ CommitDestroy(t) \/ Abort(t)
      PROVE  NewRowsAreForms'
  <2>1. OthersWait(t) /\ req'[t].pc # "create"
    BY <1>5, DestroyStep, CommitDestroyStep, AbortStep DEF Idle
  <2>2. QED
    BY <1>1, <2>1
<1>6. ASSUME req' = req PROVE NewRowsAreForms'
  BY <1>6 DEF NewRowsAreForms
<1>7. QED
  BY <1>2, <1>3, <1>4, <1>5, <1>6, NextSteps DEF DestroyPen, CreateSoftware, vars

\* An UPDATE leaves a column or gives it what the form has.
LEMMA WrittenColumns ==
  ASSUME TypeOK, NEW p \in Post, posts[p] \notin NoRow, NEW read \in Row, NEW form \in Form
  PROVE  /\ Written(p, read, form).status \in {posts[p].status, form.status}
         /\ Written(p, read, form).software \in {posts[p].software, form.software}
<1> DEFINE new == Assigned(read, form)
<1>1. /\ new.status # read.status => new.status = form.status
      /\ new.software = form.software
  BY AssignedIsRow
<1> HIDE DEF new
<1>2. Written(p, read, form) =
        [status |-> IF new.status # read.status THEN new.status ELSE posts[p].status,
         software |-> IF new.software # read.software THEN new.software ELSE posts[p].software]
  BY DEF Written, new
<1>3. QED
  BY <1>1, <1>2

\* The row of a post that no request writes.
LEMMA NothingAsked ==
  ASSUME NEW p \in Post, posts'[p] = posts[p] \/ posts'[p] = [status |-> "gone"]
  PROVE  Asked(p)
<1>1. [status |-> "gone"] \in NoRow
  BY DEF NoRow
<1>2. QED
  BY <1>1 DEF Asked

LEMMA SavesAsk ==
  ASSUME TypeOK, NEW t \in Thread, NEW STATE saves, req[t].pc \notin {"idle", "destroy"},
         Raises(t) \/ Stores(t, saves), req'[t] # req[t], NEW p \in Post
  PROVE  Asked(p)
<1>1. CASE posts'[p] = posts[p]
  BY <1>1, NothingAsked
<1>2. CASE posts'[p] # posts[p]
  <2>1. Stores(t, saves)
    BY <1>2 DEF Raises
  <2>2. /\ req[t].post = p
        /\ posts'[p] = Written(p, req[t].read, req[t].form)
    BY <1>2, <2>1 DEF Stores, TypeOK
  <2>3. req[t].read \in Row /\ req[t].form \in Form
    BY RequestKinds
  <2>4. posts[p] \notin NoRow
    BY <1>2, <2>2, <2>3, WrittenIsRow
  <2>5. /\ posts'[p].status \in {posts[p].status, req[t].form.status}
        /\ posts'[p].software \in {posts[p].software, req[t].form.software}
    BY <2>2, <2>3, <2>4, WrittenColumns
  <2>6. Edits(t, p)
    BY <2>2 DEF Edits
  <2>7. QED
    BY <2>5, <2>6 DEF Asked
<1>3. QED
  BY <1>1, <1>2

LEMMA StepsAsk ==
  ASSUME TypeOK, NewRowsAreForms, [Next]_vars, NEW p \in Post
  PROVE  Asked(p)
<1>1. ASSUME NEW t \in Thread, Insert(t) PROVE Asked(p)
  <2>1. /\ req[t].pc = "create" /\ req'[t] = Idle
        /\ posts' = [posts EXCEPT ![req[t].post] = req[t].read]
    BY <1>1, InsertStep
  <2>2. CASE req[t].post = p
    <3>1. posts'[p] = req[t].read
      BY <2>1, <2>2 DEF TypeOK
    <3>2. Edits(t, p) /\ req'[t] # req[t]
      BY <2>1, <2>2 DEF Edits, Idle
    <3>3. /\ req[t].read.status = req[t].form.status
          /\ req[t].read.software = req[t].form.software
      BY <2>1 DEF NewRowsAreForms
    <3>4. QED
      BY <3>1, <3>2, <3>3 DEF Asked
  <2>3. CASE req[t].post # p
    <3>1. posts'[p] = posts[p]
      BY <2>1, <2>3 DEF TypeOK
    <3>2. QED
      BY <3>1, NothingAsked
  <2>4. QED
    BY <2>2, <2>3
<1>2. ASSUME NEW t \in Thread, FirstSave(t) PROVE Asked(p)
  <2>1. /\ req[t].pc = "first" /\ req'[t].pc # "first"
        /\ Raises(t) \/ Stores(t, {"first"})
    BY <1>2, FirstSaveStep DEF Raises, Saved, GoesOn, Idle
  <2>2. QED
    BY <2>1, SavesAsk
<1>3. ASSUME NEW t \in Thread, SecondSave(t) PROVE Asked(p)
  <2>1. /\ req[t].pc = "second" /\ req'[t].pc # "second"
        /\ Raises(t) \/ Stores(t, {"second"})
    BY <1>3, SecondSaveStep DEF Raises, Saved, GoesOn, Idle
  <2>2. QED
    BY <2>1, SavesAsk
<1>4. ASSUME NEW t \in Thread, SaveDraft(t) PROVE Asked(p)
  <2>1. /\ req[t].pc = "save_draft" /\ req'[t].pc # "save_draft"
        /\ Raises(t) \/ Stores(t, {"first", "second", "final"})
    BY <1>4, SaveDraftStep DEF Raises, Saved, GoesOn, Idle
  <2>2. QED
    BY <2>1, SavesAsk
<1>5. ASSUME NEW t \in Thread, FinalSave(t) PROVE Asked(p)
  <2>1. /\ req[t].pc = "final" /\ req'[t].pc # "final"
        /\ Raises(t) \/ Stores(t, {"final"})
    BY <1>5, FinalSaveStep DEF Raises, Saved, GoesOn, Idle
  <2>2. QED
    BY <2>1, SavesAsk
<1>6. ASSUME NEW t \in Thread, CommitDestroy(t) PROVE Asked(p)
  <2>1. posts'[p] = posts[p] \/ posts'[p] = [status |-> "gone"]
    BY <1>6, CommitDestroyStep
  <2>2. QED
    BY <2>1, NothingAsked
<1>7. ASSUME posts' = posts PROVE Asked(p)
  BY <1>7, NothingAsked
<1>8. ASSUME NEW t \in Thread, NEW q \in Post, NEW form \in Form,
             Create(t, q, form) \/ Edit(t, q, form)
      PROVE  posts' = posts
  BY <1>8, CreateStep, EditStep
<1>9. ASSUME NEW t \in Thread, LoadPens(t) \/ DestroyPen(t) \/ Cleaned(t) \/ DraftSaved(t)
                               \/ Destroy(t) \/ Abort(t)
      PROVE  posts' = posts
  BY <1>9, LoadPensStep, CleanedStep, DraftSavedStep, DestroyStep, AbortStep DEF DestroyPen
<1>10. QED
  BY <1>1, <1>2, <1>3, <1>4, <1>5, <1>6, <1>7, <1>8, <1>9, NextSteps DEF CreateSoftware, vars

\* No save undoes what another one has saved since its request has read the post: a post
\* changes its status and its software only as a form at work asks for.
THEOREM NoSaveUndoesAnother == Spec => FormsWriteWhatTheyAsk
<1> DEFINE Inv == TypeOK /\ NewRowsAreForms
<1>1. Init => Inv
  BY DEF Init, TypeOK, InDoubt, NoRow, NewRowsAreForms, Idle
<1>2. Inv /\ [Next]_vars => Inv'
  BY TypeInvariant, NewRowsInductive
<1>3. Inv /\ [Next]_vars => [\A p \in Post : Asked(p)]_vars
  BY StepsAsk
<1>4. QED
  BY <1>1, <1>2, <1>3, PTL DEF Spec, FormsWriteWhatTheyAsk, Asked

-----------------------------------------------------------------------------
\* The destroy of posts, a software or an account has the application to itself.
DestroysAlone == \A s, t \in Thread : req[s].pc = "destroy" /\ req[t] # Idle => s = t

\* The forms about one post are served one after another, those about others as they come.
EditsApart == \A p \in Post : \A s, t \in Thread : Edits(s, p) /\ Edits(t, p) => s = t

LEMMA NothingMeets ==
  ASSUME TypeOK, contended = {}, crossed = {}, [Next]_vars, DestroysAlone, DestroysAlone', EditsApart, EditsApart'
  PROVE  contended' = {} /\ crossed' = {}
<1>1. ASSUME NEW t \in Thread, NEW p \in Post, NEW form \in Form,
             Create(t, p, form) \/ Edit(t, p, form)
      PROVE  contended' = {} /\ crossed' = {}
  <2>1. /\ req[t] = Idle /\ OthersWait(t)
        /\ req'[t].pc \in {"create", "load", "first", "save_draft"} /\ req'[t].post = p
    BY <1>1, CreateStep, EditStep
  <2>2. req'[t] # Idle /\ Edits(t, p)'
    BY <2>1 DEF Idle, Edits
  <2>3. ASSUME NEW o \in Thread PROVE req[o].pc # "destroy" /\ ~Edits(o, p)
    <3>1. CASE o = t
      BY <2>1, <3>1 DEF Idle, Edits
    <3>2. CASE o # t
      <4>1. req'[o] = req[o]
        BY <2>1, <3>2 DEF OthersWait
      <4>2. req[o].pc # "destroy"
        BY <2>2, <3>2, <4>1 DEF DestroysAlone
      <4>3. ~Edits(o, p)
        BY <2>2, <3>2, <4>1 DEF EditsApart, Edits
      <4>4. QED
        BY <4>2, <4>3
    <3>3. QED
      BY <3>1, <3>2
  <2>4. ~Busy(p) /\ ~\E o \in Thread : Undercuts(o, p, form.software)
    BY <2>3 DEF Busy, Destroys, Undercuts
  <2>5. CASE Create(t, p, form)
    BY <2>4, <2>5 DEF Create
  <2>6. CASE Edit(t, p, form)
    BY <2>4, <2>6 DEF Edit
  <2>7. QED
    BY <1>1, <2>5, <2>6
<1>2. ASSUME NEW t \in Thread, Destroy(t) PROVE contended' = {} /\ crossed' = {}
  <2>1. req[t] = Idle /\ OthersWait(t) /\ req'[t].pc = "destroy"
    BY <1>2, DestroyStep
  <2>2. \A s \in Thread : req[s] = Idle
    BY <2>1 DEF OthersWait, DestroysAlone
  <2>3. \A p : ~Busy(p) /\ \A s \in Thread : ~Edits(s, p)
    BY <2>2 DEF Busy, Edits, Destroys, Idle
  <2>4. ASSUME NEW ps, NEW with, DestroyPosts(t, ps, with) PROVE contended' = {} /\ crossed' = {}
    BY <2>3, <2>4 DEF DestroyPosts
  <2>5. QED
    BY <1>2, <2>4 DEF Destroy
<1>3. CASE \E s \in Software : CreateSoftware(s)
  BY <1>3 DEF CreateSoftware, met
<1>4. ASSUME NEW t \in Thread,
             \/ Insert(t) \/ FirstSave(t) \/ SecondSave(t) \/ LoadPens(t) \/ DestroyPen(t)
             \/ Cleaned(t) \/ FinalSave(t) \/ SaveDraft(t) \/ DraftSaved(t)
             \/ CommitDestroy(t) \/ Abort(t)
      PROVE  contended' = {} /\ crossed' = {}
  BY <1>4 DEF Insert, FirstSave, SecondSave, LoadPens, DestroyPen, Cleaned, FinalSave, SaveDraft,
     DraftSaved, CommitDestroy, Abort, met
<1>5. CASE UNCHANGED vars
  BY <1>5 DEF vars
<1>6. QED
  BY <1>1, <1>2, <1>3, <1>4, <1>5, NextSteps

\* If destroys were alone with the database and the forms about one post were served one
\* after another, whatever is published would have its software and its author and, between
\* requests, the pens of its last form, with no post excepted: the three saves of
\* posts_controller.rb:71-76 and the validations of post.rb:3-11 need no more than that.
THEOREM ApartPublishedIsRight ==
  Spec /\ []DestroysAlone /\ []EditsApart =>
    [](\A p \in Post :
         posts[p].status = "published" =>
           /\ posts[p].software \in Software /\ softwares[posts[p].software] = "listed"
           /\ Owner[p] \in users
           /\ ~Busy(p) /\ claim[p].known => ShowsItsForm(p))
<1> DEFINE Right ==
      \A p \in Post :
        posts[p].status = "published" =>
          /\ posts[p].software \in Software /\ softwares[posts[p].software] = "listed"
          /\ Owner[p] \in users
          /\ ~Busy(p) /\ claim[p].known => ShowsItsForm(p)
<1>1. Spec => []TypeOK
  BY TypeCorrect
<1>2. Init => contended = {} /\ crossed = {}
  BY DEF Init
<1>3. /\ TypeOK /\ contended = {} /\ crossed = {} /\ DestroysAlone /\ DestroysAlone'
      /\ EditsApart /\ EditsApart' /\ [Next]_vars
      => (contended = {} /\ crossed = {})'
  BY NothingMeets
<1>4. PublishedNamesWhatExists /\ PublishedShowsItsForm /\ contended = {} /\ crossed = {} => Right
  BY DEF PublishedNamesWhatExists, PublishedShowsItsForm
<1> HIDE DEF Right
<1>5. Spec /\ []DestroysAlone /\ []EditsApart => []Right
  BY <1>1, <1>2, <1>3, <1>4, WhatIsPublishedIsNamed, WhatIsPublishedShowsItsForm, PTL DEF Spec
<1>6. QED
  BY <1>5 DEF Right
=============================================================================
