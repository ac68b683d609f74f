------------------------------ MODULE PostForms ------------------------------
(***************************************************************************)
(* The life of an illustration post: drafts, publication, edits by the     *)
(* author and by the admin, and the pens that are saved with it            *)
(* (public/posts_controller.rb, admin/posts_controller.rb, post.rb,        *)
(* pen.rb).  The tags of the same forms are in module Tagging.             *)
(*                                                                         *)
(* Two rows a post needs may go while a form about it is on its way: its   *)
(* software, which the admin removes from the catalogue with all its posts *)
(* (admin/softwares_controller.rb, software.rb), and the account of its    *)
(* author (user.rb).  A step is one transaction.  ActiveRecord writes only *)
(* the columns that differ from what the request has read.  The columns    *)
(* twitter and brush are required like software; a form without software   *)
(* stands for each form that leaves one of the three blank.                *)
(***************************************************************************)
EXTENDS Naturals

CONSTANTS Post,     \* ids that table posts may hand out
          Pen,      \* names of pens an author may enter
          Software, \* ids that table softwares may hand out
          User,     \* accounts, all of them there at first
          Owner,    \* Owner[p] is the author of post p
          Thread,   \* the Puma threads that serve requests
          MaxForm   \* bound: how many forms are ever submitted

ASSUME PostFormsAssumption ==
  /\ MaxForm \in Nat
  /\ Owner \in [Post -> User]
  /\ "none" \notin Software \cup User
  /\ Software \cap User = {}

VARIABLES posts,     \* posts[p] is the row with id p
          pens,      \* rows of table pens
          softwares, \* softwares[s] tells whether table softwares has the row with id s
          users,     \* ids of the rows of table users
          lastForm,  \* number of the last form submitted
          req,       \* req[t] is the request that thread t serves
          cut,       \* history: forms whose request did not reach its end
          claim,     \* history: the pens the last form about a post asked for
          contended, \* history: posts that two requests have worked on at once, the
                     \* removal of a software or an account a form relies on included
          crossed    \* history: posts whose last form has met another request about them

vars == <<posts, pens, softwares, users, lastForm, req, cut, claim, contended, crossed>>

\* The rows a post needs.
parents == <<softwares, users>>

\* The history of which requests have met.
met == <<contended, crossed>>

-----------------------------------------------------------------------------
Row == [status : {"published", "draft"}, software : Software \cup {"none"}]
NoRow == [status : {"unborn", "gone"}]   \* an id is handed out once

\* "keep": the edit page of a published post offers no choice of status.
Form == [no : Nat, status : {"published", "draft", "keep"}, software : Software \cup {"none"},
         pens : SUBSET Pen, by : {"author", "admin"}]

\* A pen is told apart by the form and the save that inserted it: an edit saves its
\* pens three times, "first" and "second" to be cleaned away before "final".
PenRow == [post : Post, no : Nat, save : {"first", "second", "final"}, pen : Pen]

Idle == [pc |-> "idle"]
Editing == [pc : {"create", "first", "second", "load", "clean", "final", "save_draft",
                  "load_draft", "clean_draft"},
            post : Post, form : Form, read : Row, doomed : SUBSET PenRow]

\* The destroy of some posts, alone or with the software or the account they depend on.
Destroying == [pc : {"destroy"}, posts : SUBSET Post, with : Software \cup User \cup {"none"},
               doomed : SUBSET PenRow]

\* Until a form has been saved to its end, nobody can tell which pens its post should have.
InDoubt == [known |-> FALSE, pens |-> {}]

TypeOK ==
  /\ posts \in [Post -> Row \cup NoRow]
  /\ pens \subseteq PenRow
  /\ softwares \in [Software -> {"unborn", "listed", "gone"}]
  /\ users \subseteq User
  /\ lastForm \in Nat
  /\ req \in [Thread -> {Idle} \cup Editing \cup Destroying]
  /\ cut \subseteq Nat
  /\ claim \in [Post -> [known : BOOLEAN, pens : SUBSET Pen]]
  /\ contended \subseteq Post
  /\ crossed \subseteq Post

Init ==
  /\ posts = [p \in Post |-> [status |-> "unborn"]]
  /\ pens = {}
  /\ softwares = [s \in Software |-> "unborn"]
  /\ users = User
  /\ lastForm = 0
  /\ req = [t \in Thread |-> Idle]
  /\ cut = {}
  /\ claim = [p \in Post |-> InDoubt]
  /\ contended = {}
  /\ crossed = {}

\* Requests with a form about p, and requests that destroy p or what p needs.
Edits(t, p) == req[t].pc \notin {"idle", "destroy"} /\ req[t].post = p
Destroys(t, p) == req[t].pc = "destroy" /\ p \in req[t].posts
Busy(p) == \E t \in Thread : Edits(t, p) \/ Destroys(t, p)

\* A destroy takes away what post p is going to need once the form is saved.
Undercuts(t, p, software) ==
  req[t].pc = "destroy" /\ req[t].with \in {software, Owner[p]} \ {"none"}

PensOf(p) == {r \in pens : r.post = p}

\* The rows a save inserts for the pens of the form that are not marked _destroy;
\* post_params drops their ids, so that every save builds them anew.
BuiltPens(p, form, saves) ==
  {[post |-> p, no |-> form.no, save |-> s, pen |-> x] : s \in saves, x \in form.pens}

\* What the request holds in memory once the form is assigned.
Assigned(read, form) ==
  [status |-> IF form.status = "keep" THEN read.status ELSE form.status,
   software |-> form.software]

\* Mutated: the parameter of the form instead of the attribute it sets.
WrittenAsSent(p, read, form) ==
  IF posts[p] \in NoRow THEN posts[p]
  ELSE [status |-> form.status, software |-> form.software]

\* Mutated: partial_writes off, a save writes the whole row as the request has read it.
WrittenWhole(p, read, form) ==
  IF posts[p] \in NoRow THEN posts[p] ELSE Assigned(read, form)

\* The UPDATE of a save: only what the form changed, and no row if the post is gone.
Written(p, read, form) ==
  IF posts[p] \in NoRow THEN posts[p]
  ELSE LET new == Assigned(read, form)
       IN  [status |-> IF new.status # read.status THEN new.status ELSE posts[p].status,
            software |-> IF new.software # read.software THEN new.software ELSE posts[p].software]

\* Mutated: belongs_to :software, optional: true, as in the comment of post.rb:4.
FilledIn(form) == form.software # "none"

\* The validations of a form: it names a software, and the catalogue has it.
Complete(form) == form.software \in Software /\ softwares[form.software] = "listed"

-----------------------------------------------------------------------------
\* POST /posts: the validations of a publication; a draft is saved without them.
Create(t, p, form) ==
  /\ req[t] = Idle
  /\ posts[p].status = "unborn" /\ ~Busy(p)
  /\ Owner[p] \in users
  /\ lastForm < MaxForm
  /\ form.no = lastForm + 1
  /\ form.status \in {"published", "draft"} /\ form.by = "author"
  /\ Complete(form) \/ form.status = "draft"
  /\ req' = [req EXCEPT ![t] =
       [pc |-> "create", post |-> p, form |-> form, doomed |-> {},
        read |-> [status |-> form.status, software |-> form.software]]]
  /\ lastForm' = form.no
  /\ contended' = IF \E o \in Thread : Undercuts(o, p, form.software)
                  THEN contended \cup {p} ELSE contended
  /\ UNCHANGED <<posts, pens, parents, cut, claim, crossed>>

\* The INSERT of the post with its pens.  No foreign key ties a post to what it needs.
Insert(t) ==
  /\ req[t].pc = "create"
  /\ LET p == req[t].post
         form == req[t].form
     IN  /\ posts' = [posts EXCEPT ![p] = req[t].read]
         /\ pens' = pens \cup BuiltPens(p, form, {"final"})
         /\ claim' = [claim EXCEPT ![p] = [known |-> TRUE, pens |-> form.pens]]
  /\ req' = [req EXCEPT ![t] = Idle]
  /\ UNCHANGED <<parents, lastForm, cut, met>>

\* PATCH /posts/:id reads the post and assigns the form.  A complete form goes through
\* the three saves, an incomplete draft through save!(validate: false), and an
\* incomplete publication is shown again.  The admin cleans the pens first.
Edit(t, p, form) ==
  /\ req[t] = Idle
  /\ posts[p] \notin NoRow
  /\ lastForm < MaxForm
  /\ form.no = lastForm + 1
  /\ IF form.by = "admin"
     THEN form.status = "keep"
     ELSE /\ Owner[p] \in users
          /\ Complete(form) \/ Assigned(posts[p], form).status = "draft"
  /\ req' = [req EXCEPT ![t] =
       [pc |-> IF form.by = "admin" THEN "load"
               ELSE IF Complete(form) THEN "first" ELSE "save_draft",
        post |-> p, form |-> form, read |-> posts[p], doomed |-> {}]]
  /\ lastForm' = form.no
  /\ contended' = IF Busy(p) \/ \E o \in Thread : Undercuts(o, p, form.software)
                  THEN contended \cup {p} ELSE contended
  /\ crossed' = IF Busy(p) THEN crossed \cup {p} ELSE crossed \ {p}
  /\ claim' = [claim EXCEPT ![p] = InDoubt]
  /\ UNCHANGED <<posts, pens, parents, cut>>

\* A save: the changed columns and one more set of pens in one transaction.  The foreign
\* key of pens.post_id makes it raise if the post is gone and there are pens to insert.
Save(t, saves, next) ==
  LET p == req[t].post
      form == req[t].form
  IN  IF posts[p] \in NoRow /\ form.pens # {}
      THEN /\ cut' = cut \cup {form.no}
           /\ req' = [req EXCEPT ![t] = Idle]
           /\ UNCHANGED <<posts, pens>>
      ELSE /\ posts' = [posts EXCEPT ![p] = Written(p, req[t].read, form)]
           /\ pens' = pens \cup BuiltPens(p, form, saves)
           /\ req' = [req EXCEPT ![t] = next]
           /\ UNCHANGED cut

\* The request as it goes on at pc, all its changes being saved.
GoOn(t, pc) == [req[t] EXCEPT !.pc = pc, !.read = Assigned(@, req[t].form)]

FirstSave(t) ==
  /\ req[t].pc = "first"
  /\ Save(t, {"first"}, GoOn(t, "second"))
  /\ UNCHANGED <<parents, lastForm, claim, met>>

SecondSave(t) ==
  /\ req[t].pc = "second"
  /\ Save(t, {"second"}, GoOn(t, "load"))
  /\ UNCHANGED <<parents, lastForm, claim, met>>

\* Mutated: clean_pen on an association that was loaded before the saves.
LoadPensStale(t) ==
  /\ req[t].pc \in {"load", "load_draft"}
  /\ req' = [req EXCEPT ![t].doomed = {r \in PensOf(req[t].post) : r.no # req[t].form.no},
                        ![t].pc = IF @ = "load" THEN "clean" ELSE "clean_draft"]
  /\ UNCHANGED <<posts, pens, parents, lastForm, cut, claim, met>>

\* clean_pen loads the pens of the post ...
LoadPens(t) ==
  /\ req[t].pc \in {"load", "load_draft"}
  /\ req' = [req EXCEPT ![t].doomed = PensOf(req[t].post),
                        ![t].pc = IF @ = "load" THEN "clean" ELSE "clean_draft"]
  /\ UNCHANGED <<posts, pens, parents, lastForm, cut, claim, met>>

\* ... and destroys them one by one; those that others have destroyed are passed over.
DestroyPen(t) ==
  /\ req[t].pc \in {"clean", "clean_draft"}
  /\ \E r \in req[t].doomed \cap pens : pens' = pens \ {r}
  /\ UNCHANGED <<posts, req, parents, lastForm, cut, claim, met>>

\* The admin's form is validated here, and refused with the pens already gone.
Cleaned(t) ==
  /\ req[t].pc = "clean"
  /\ req[t].doomed \cap pens = {}
  /\ IF req[t].form.by = "author" \/ (Complete(req[t].form) /\ Owner[req[t].post] \in users)
     THEN /\ req' = [req EXCEPT ![t].pc = "final", ![t].doomed = {}]
          /\ UNCHANGED claim
     ELSE /\ req' = [req EXCEPT ![t] = Idle]
          /\ claim' = [claim EXCEPT ![req[t].post] = [known |-> TRUE, pens |-> {}]]
  /\ UNCHANGED <<posts, pens, parents, lastForm, cut, met>>

\* What the page says of the pens once the form has been saved.
Claimed(t) ==
  claim' = [claim EXCEPT ![req[t].post] =
              [known |-> req[t].form.no \notin cut', pens |-> req[t].form.pens]]

\* The last save.  The author's form that keeps a draft a draft cleans its pens again,
\* the ones it has just saved: the association is loaded and is not read anew.
FinalSave(t) ==
  /\ req[t].pc = "final"
  /\ LET form == req[t].form
         drafted == form.by = "author" /\ Assigned(req[t].read, form).status = "draft"
     IN  Save(t, {"final"},
              IF drafted
              THEN [GoOn(t, "clean_draft") EXCEPT
                      !.doomed = BuiltPens(req[t].post, form, {"final"})]
              ELSE Idle)
  /\ Claimed(t)
  /\ UNCHANGED <<parents, lastForm, met>>

\* The incomplete draft: the pens of three refused saves go in at once, then clean_pen.
SaveDraft(t) ==
  /\ req[t].pc = "save_draft"
  /\ Save(t, {"first", "second", "final"}, GoOn(t, "load_draft"))
  /\ UNCHANGED <<parents, lastForm, claim, met>>

DraftSaved(t) ==
  /\ req[t].pc = "clean_draft"
  /\ req[t].doomed \cap pens = {}
  /\ req' = [req EXCEPT ![t] = Idle]
  /\ claim' = [claim EXCEPT ![req[t].post] = [known |-> TRUE, pens |-> req[t].form.pens]]
  /\ UNCHANGED <<posts, pens, parents, lastForm, cut, met>>

-----------------------------------------------------------------------------
\* The admin adds a software to the catalogue.  (Renaming one changes no state.)
CreateSoftware(s) ==
  /\ softwares[s] = "unborn"
  /\ softwares' = [softwares EXCEPT ![s] = "listed"]
  /\ UNCHANGED <<posts, pens, users, lastForm, req, cut, claim, met>>

\* A destroy reads the posts and their pens ...
DestroyPosts(t, ps, with) ==
  /\ req[t] = Idle
  /\ req' = [req EXCEPT ![t] = [pc |-> "destroy", posts |-> ps, with |-> with,
                                doomed |-> {r \in pens : r.post \in ps}]]
  /\ crossed' = crossed \cup {p \in ps : Busy(p)}
  /\ contended' = contended \cup {p \in ps : Busy(p)}
       \cup {p \in Post : \E o \in Thread : /\ Edits(o, p)
                                           /\ with \in {req[o].form.software, Owner[p]} \ {"none"}}
  /\ UNCHANGED <<posts, pens, parents, lastForm, cut, claim>>

\* ... of one post, whose author the admin's request looks up as well, of all that name a
\* software, drafts included, or of an account.
Destroy(t) ==
  \/ \E p \in Post : posts[p] \notin NoRow /\ Owner[p] \in users /\ DestroyPosts(t, {p}, "none")
  \/ \E s \in Software :
       /\ softwares[s] = "listed"
       /\ DestroyPosts(t, {p \in Post : posts[p] \notin NoRow /\ posts[p].software = s}, s)
  \/ \E u \in users : DestroyPosts(t, {p \in Post : posts[p] \notin NoRow /\ Owner[p] = u}, u)

\* It deletes what it has read; a pen that came in between breaks the foreign key and
\* rolls the transaction back.
CommitDestroy(t) ==
  /\ req[t].pc = "destroy"
  /\ IF {r \in pens : r.post \in req[t].posts} \subseteq req[t].doomed
     THEN /\ posts' = [p \in Post |-> IF p \in req[t].posts THEN [status |-> "gone"] ELSE posts[p]]
          /\ pens' = pens \ req[t].doomed
          /\ softwares' = [s \in Software |-> IF s = req[t].with THEN "gone" ELSE softwares[s]]
          /\ users' = users \ {req[t].with}
     ELSE UNCHANGED <<posts, pens, parents>>
  /\ req' = [req EXCEPT ![t] = Idle]
  /\ UNCHANGED <<lastForm, cut, claim, met>>

\* The request ends early: the deploy job kills Puma, or a statement raises.
Abort(t) ==
  /\ req[t] # Idle
  /\ req' = [req EXCEPT ![t] = Idle]
  /\ cut' = IF req[t].pc = "destroy" THEN cut ELSE cut \cup {req[t].form.no}
  /\ UNCHANGED <<posts, pens, parents, lastForm, claim, met>>

-----------------------------------------------------------------------------
\* The edit page offers the softwares of the catalogue; one may be removed meanwhile.
Offered == {s \in Software : softwares[s] # "unborn"} \cup {"none"}

Next ==
  \/ \E t \in Thread, p \in Post, status \in {"published", "draft", "keep"},
        software \in Offered, x \in SUBSET Pen, by \in {"author", "admin"} :
       LET form == [no |-> lastForm + 1, status |-> status, software |-> software,
                    pens |-> x, by |-> by]
       IN  Create(t, p, form) \/ Edit(t, p, form)
  \/ \E s \in Software : CreateSoftware(s)
  \/ \E t \in Thread :
       \/ Insert(t) \/ FirstSave(t) \/ SecondSave(t) \/ LoadPens(t) \/ DestroyPen(t)
       \/ Cleaned(t) \/ FinalSave(t) \/ SaveDraft(t) \/ DraftSaved(t)
       \/ Destroy(t) \/ CommitDestroy(t)
       \/ Abort(t)

Spec == Init /\ [][Next]_vars

-----------------------------------------------------------------------------
\* The validations of post.rb:3-11 hold of what is published (spec/models/post_spec.rb:11),
\* although drafts are saved without them (posts_controller.rb:51, :82, :89) and although
\* no foreign key guards them: a published post has its software and its author, which
\* the pages dereference, unless two requests about it have met.
PublishedNamesWhatExists ==
  \A p \in Post \ contended :
    posts[p].status = "published" =>
      /\ posts[p].software \in Software /\ softwares[posts[p].software] = "listed"
      /\ Owner[p] \in users

\* The pens of p are those of the form last saved, each of them once.
ShowsItsForm(p) ==
  /\ {r.pen : r \in PensOf(p)} = claim[p].pens
  /\ \A r, q \in PensOf(p) : r.pen = q.pen => r = q

\* The three saves and the cleaning of posts_controller.rb:71-76 leave a published post
\* with the pens of the form, however it was drafted, published and edited before, and with
\* none if the admin's form was refused (admin/posts_controller.rb:19).  If forms or a destroy
\* have crossed and left the pens in a mess, the next form that crosses none sets them right,
\* whatever happens to the software and the author meanwhile.
PublishedShowsItsForm ==
  \A p \in Post \ crossed :
    posts[p].status = "published" /\ ~Busy(p) /\ claim[p].known => ShowsItsForm(p)

\* posts_controller.rb:121 says that the pens can be edited and removed with the form;
\* for a draft too, the pens kept are those of the form.
DraftShowsItsForm ==
  \A p \in Post \ crossed :
    posts[p].status = "draft" /\ ~Busy(p) /\ claim[p].known => ShowsItsForm(p)

\* What the first two saves of an edit insert does not outlive its request, whatever
\* other edits and destroys do meanwhile, unless the request itself is cut short.
NoLeftoverPens ==
  \A r \in pens :
    \/ r.save = "final"
    \/ r.no \in cut
    \/ \E t \in Thread : Edits(t, r.post) /\ req[t].form.no = r.no

\* However old the row is that a request has read (posts_controller.rb:68,
\* admin/posts_controller.rb:17), its saves undo nothing that another one has saved since: a
\* post is published or withdrawn, or given another software, only by a form that asks for
\* just this.  The admin's form, which has no status, never publishes nor withdraws.
FormsWriteWhatTheyAsk ==
  [][\A p \in Post :
       LET saving == {t \in Thread : Edits(t, p) /\ req'[t] # req[t]}
       IN  /\ posts'[p].status \notin {posts[p].status, "gone"} =>
                \E t \in saving : req[t].form.status = posts'[p].status
           /\ posts[p] \notin NoRow /\ posts'[p] \notin NoRow =>
                \/ posts'[p].software = posts[p].software
                \/ \E t \in saving : req[t].form.software = posts'[p].software]_vars
=============================================================================
