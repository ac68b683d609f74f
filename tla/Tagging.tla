------------------------------- MODULE Tagging -------------------------------
(***************************************************************************)
(* The tags of illustration posts: saving the tags of a form and cleaning  *)
(* up behind destroyed posts (post.rb, tag.rb, tagmap.rb and their callers *)
(* in the two posts_controller.rb).  Tags are shared by the posts, and no  *)
(* foreign key ties a tagmap to its post or its tag.                       *)
(***************************************************************************)
EXTENDS Naturals

CONSTANTS Post,     \* posts, all of them saved before the first step
          Name,     \* tag names, what is left of the text field once it is split
          Thread,   \* the Puma threads that serve requests
          MaxSave,  \* bound: how many forms are ever submitted
          MaxWord   \* bound: how often a form repeats a name

ASSUME TaggingAssumption == MaxSave \in Nat /\ MaxWord \in Nat

VARIABLES posts,     \* ids of the rows of table posts
          tags,      \* rows of table tags
          tagmaps,   \* rows of table tagmaps
          lastId,    \* the last id that either table handed out
          saves,     \* how many forms have been submitted
          req,       \* req[t] is the request that thread t serves
          claim,     \* history: the names the last form about a post asked for
          contended, \* history: posts whose last form has met another one about them or a destroy
          raced,     \* history: posts of which some form has met a destroy, or was to be
                     \* saved when a destroy took the post it had found
          crowded    \* history: posts whose destroy has met another request at work

vars == <<posts, tags, tagmaps, lastId, saves, req, claim, contended, raced, crowded>>

\* The history of which requests have met.
met == <<contended, raced, crowded>>

-----------------------------------------------------------------------------
Tag == [id : Nat, tag_name : Name]
Tagmap == [id : Nat, post : Post, tag : Nat]
Join == Tagmap \X Tag

\* How often the field has each name.  Their order is settled as they are worked off.
Form == [Name -> Nat]

Idle == [pc |-> "idle"]

\* The request holds a post that Post.find has returned, or that it has just saved.
Finding == [pc : {"found"}, post : Post]

\* save_posts: old is what has been plucked and is to be dropped, new is what is to be
\* added; name is at hand, and tag the id that find_or_create_by has returned for it.
Dropping == [pc : {"drop", "find"}, post : Post, form : Form, old : SUBSET Join, new : Form]
Adding == [pc : {"create", "map"}, post : Post, form : Form, new : Form, name : Name, tag : Nat]

\* The destroy of posts.  The author's, of one post, goes through its tags first, todo;
\* doomed is what the transaction that is open has read.
Destroying == [pc : {"count", "collect_tag", "commit_tag", "collect_post", "commit_post"},
               posts : SUBSET Post, by : {"author", "cascade"}, todo : SUBSET Join,
               tag : Nat, doomed : SUBSET Tagmap]

TypeOK ==
  /\ posts \subseteq Post
  /\ tags \subseteq Tag
  /\ tagmaps \subseteq Tagmap
  /\ lastId \in Nat
  /\ saves \in 0..MaxSave
  /\ req \in [Thread -> {Idle} \cup Finding \cup Dropping \cup Adding \cup Destroying]
  /\ claim \in [Post -> [known : BOOLEAN, names : SUBSET Name]]
  /\ contended \subseteq Post
  /\ raced \subseteq Post
  /\ crowded \subseteq Post

Init ==
  /\ posts = Post
  /\ tags = {}
  /\ tagmaps = {}
  /\ lastId = 0
  /\ saves = 0
  /\ req = [t \in Thread |-> Idle]
  /\ claim = [p \in Post |-> [known |-> TRUE, names |-> {}]]
  /\ contended = {}
  /\ raced = {}
  /\ crowded = {}

Found(t, p) == req[t].pc = "found" /\ req[t].post = p
Saves(t, p) == req[t].pc \in {"drop", "find", "create", "map"} /\ req[t].post = p
Destroys(t) == req[t].pc \in {"count", "collect_tag", "commit_tag", "collect_post", "commit_post"}
Works(t) == req[t].pc \notin {"idle", "found"}

\* The posts that forms are about, and those on their way out.
Edited == {p \in Post : \E s \in Thread : Saves(s, p)}
Doomed == {p \in Post : \E s \in Thread : Destroys(s) /\ p \in req[s].posts}

\* A request about p whose steps are not undone if it ends early.
Piecemeal(t, p) == Saves(t, p) \/ (Destroys(t) /\ req[t].by = "author" /\ p \in req[t].posts)

\* The rows that post.tags joins, once for each tagmap, and the names of the tags.
TagsOf(p) == {j \in tagmaps \X tags : j[1].post = p /\ j[1].tag = j[2].id}
NamesOf(p) == {j[2].tag_name : j \in TagsOf(p)}

Named(form) == {x \in Name : form[x] > 0}

-----------------------------------------------------------------------------
\* Post.find, at the start of a request that is going to save a form or to destroy the post.
FindPost(t, p) ==
  /\ req[t] = Idle
  /\ p \in posts
  /\ req' = [req EXCEPT ![t] = [pc |-> "found", post |-> p]]
  /\ raced' = raced \cup ({p} \cap Doomed)
  /\ UNCHANGED <<posts, tags, tagmaps, lastId, saves, claim, contended, crowded>>

\* The state after t has begun to save a form about p: what is to be dropped and added.
SetOut(t, p, form, old, new) ==
  /\ saves < MaxSave
  /\ saves' = saves + 1
  /\ req' = [req EXCEPT ![t] =
       [pc |-> "drop", post |-> p, form |-> form, old |-> old, new |-> new]]
  /\ contended' = IF \E s \in Thread : Saves(s, p) \/ Destroys(s)
                  THEN contended \cup {p} ELSE contended \ {p}
  /\ raced' = IF \E s \in Thread : Destroys(s) THEN raced \cup {p} ELSE raced
  /\ crowded' = crowded \cup Doomed
  /\ UNCHANGED <<posts, tags, tagmaps, lastId, claim>>

\* Mutated: all tags are dropped and those of the form added anew.
SaveAnew(t, form) ==
  /\ req[t].pc = "found"
  /\ SetOut(t, req[t].post, form, TagsOf(req[t].post), form)

\* save_posts plucks the names of the post, which may be gone by now, and compares them with
\* the form.  The difference of arrays takes out what is there already, not what comes twice.
SavePosts(t, form) ==
  /\ req[t].pc = "found"
  /\ LET p == req[t].post
     IN  SetOut(t, p, form, {j \in TagsOf(p) : j[2].tag_name \notin Named(form)},
                [x \in Name |-> IF x \in NamesOf(p) THEN 0 ELSE form[x]])

\* The request raises or is cut short: the names are in doubt unless all is undone.
Fails(t) ==
  /\ req' = [req EXCEPT ![t] = Idle]
  /\ claim' = [p \in Post |-> [claim[p] EXCEPT !.known = @ /\ ~Piecemeal(t, p)]]

\* Mutated: old tags are looked up but stay on the post.
DropNothing(t) ==
  /\ req[t].pc = "drop"
  /\ \E j \in req[t].old : req' = [req EXCEPT ![t].old = @ \ {j}]
  /\ UNCHANGED <<posts, tags, tagmaps, lastId, saves, claim, met>>

\* tags.delete Tag.find_by(tag_name: x) takes the tag off the post, as often as it is
\* there; on nil it raises.  The tag stays, even if no other post has it.
Drop(t) ==
  /\ req[t].pc = "drop"
  /\ \E j \in req[t].old :
       LET found == {g \in tags : g.tag_name = j[2].tag_name}
       IN  IF found # {}
           THEN /\ \E g \in found :
                     tagmaps' = {m \in tagmaps : ~(m.post = req[t].post /\ m.tag = g.id)}
                /\ req' = [req EXCEPT ![t].old = @ \ {j}]
                /\ UNCHANGED claim
           ELSE Fails(t) /\ UNCHANGED tagmaps
  /\ UNCHANGED <<posts, tags, lastId, saves, met>>

\* Tag.find_or_create_by: the SELECT ...
Find(t) ==
  /\ \/ req[t].pc = "drop" /\ req[t].old = {}
     \/ req[t].pc = "find"
  /\ \E x \in Named(req[t].new) :
       LET found == {g \in tags : g.tag_name = x}
           adding(pc, g) == [pc |-> pc, post |-> req[t].post, form |-> req[t].form,
                             new |-> req[t].new, name |-> x, tag |-> g]
       IN  IF found = {}
           THEN req' = [req EXCEPT ![t] = adding("create", 0)]
           ELSE \E g \in found : req' = [req EXCEPT ![t] = adding("map", g.id)]
  /\ UNCHANGED <<posts, tags, tagmaps, lastId, saves, claim, met>>

\* ... and the INSERT, which the unique index refuses if the name has come in between.
CreateTag(t) ==
  /\ req[t].pc = "create"
  /\ IF \E g \in tags : g.tag_name = req[t].name
     THEN Fails(t) /\ UNCHANGED <<tags, lastId>>
     ELSE /\ lastId' = lastId + 1
          /\ tags' = tags \cup {[id |-> lastId + 1, tag_name |-> req[t].name]}
          /\ req' = [req EXCEPT ![t].pc = "map", ![t].tag = lastId + 1]
          /\ UNCHANGED claim
  /\ UNCHANGED <<posts, tagmaps, saves, met>>

\* The request with one word less to add.
Added(t) == [pc |-> "find", post |-> req[t].post, form |-> req[t].form, old |-> {},
             new |-> [req[t].new EXCEPT ![req[t].name] = @ - 1]]

\* Mutated: the name is stored where the id of the tag belongs.
MapName(t) ==
  /\ req[t].pc = "map"
  /\ lastId' = lastId + 1
  /\ tagmaps' = tagmaps \cup
       {[id |-> lastId + 1, post |-> req[t].post, tag |-> req[t].name]}
  /\ req' = [req EXCEPT ![t] = Added(t)]
  /\ UNCHANGED <<posts, tags, saves, claim, met>>

\* self.tags << post_tag inserts a tagmap whether or not post and tag are still there.
Map(t) ==
  /\ req[t].pc = "map"
  /\ lastId' = lastId + 1
  /\ tagmaps' = tagmaps \cup {[id |-> lastId + 1, post |-> req[t].post, tag |-> req[t].tag]}
  /\ req' = [req EXCEPT ![t] = Added(t)]
  /\ UNCHANGED <<posts, tags, saves, claim, met>>

\* Nothing is left to add, and the page says so.
Saved(t) ==
  /\ \/ req[t].pc = "drop" /\ req[t].old = {}
     \/ req[t].pc = "find"
  /\ Named(req[t].new) = {}
  /\ req' = [req EXCEPT ![t] = Idle]
  /\ claim' = [claim EXCEPT ![req[t].post] = [known |-> TRUE, names |-> Named(req[t].form)]]
  /\ UNCHANGED <<posts, tags, tagmaps, lastId, saves, met>>

-----------------------------------------------------------------------------
\* The author's DELETE of the post found runs clean_tag first, the admin's does not.  Nor does
\* the destroy of an account or a software, which looks up the posts it takes along as it
\* destroys them; one that takes none leaves these tables alone.
DestroyPosts(t, ps, by) ==
  /\ \/ req[t].pc = "found" /\ ps = {req[t].post}
     \/ req[t] = Idle /\ by = "cascade" /\ ps \subseteq posts /\ ps # {}
  /\ req' = [req EXCEPT ![t] =
       [pc |-> IF by = "author" THEN "count" ELSE "collect_post", posts |-> ps, by |-> by,
        todo |-> UNION {TagsOf(p) : p \in ps}, tag |-> 0, doomed |-> {}]]
  /\ contended' = contended \cup Edited
  /\ raced' = raced \cup Edited \cup {p \in ps : \E s \in Thread \ {t} : Found(s, p)}
  /\ crowded' = IF \E s \in Thread : Works(s)
                THEN crowded \cup Doomed \cup ps ELSE crowded \ ps
  /\ UNCHANGED <<posts, tags, tagmaps, lastId, saves, claim>>

\* Mutated: .where.not(post_id: self.id) left out, the post's own tagmap counts.
UsersOfTag(ps, g) == {m \in tagmaps : m.tag = g}

\* The tagmaps that other posts have with tag g.
OtherUsers(ps, g) == {m \in tagmaps : m.tag = g /\ m.post \notin ps}

\* clean_tag counts the other posts of one tag.
Count(t) ==
  /\ req[t].pc = "count"
  /\ IF req[t].todo = {}
     THEN req' = [req EXCEPT ![t].pc = "collect_post"]
     ELSE \E j \in req[t].todo :
            IF OtherUsers(req[t].posts, j[2].id) = {}
            THEN req' = [req EXCEPT ![t].pc = "collect_tag", ![t].tag = j[2].id,
                                    ![t].todo = @ \ {j}]
            ELSE req' = [req EXCEPT ![t].todo = @ \ {j}]
  /\ UNCHANGED <<posts, tags, tagmaps, lastId, saves, claim, met>>

\* tag.destroy and post.destroy read their tagmaps, dependent: :destroy.
Collect(t) ==
  /\ \/ /\ req[t].pc = "collect_tag"
        /\ req' = [req EXCEPT ![t].pc = "commit_tag",
                              ![t].doomed = {m \in tagmaps : m.tag = req[t].tag}]
     \/ /\ req[t].pc = "collect_post"
        /\ req' = [req EXCEPT ![t].pc = "commit_post",
                              ![t].doomed = {m \in tagmaps : m.post \in req[t].posts}]
  /\ UNCHANGED <<posts, tags, tagmaps, lastId, saves, claim, met>>

CommitTag(t) ==
  /\ req[t].pc = "commit_tag"
  /\ tagmaps' = tagmaps \ req[t].doomed
  /\ tags' = {g \in tags : g.id # req[t].tag}
  /\ req' = [req EXCEPT ![t] = [pc |-> "count", posts |-> @.posts, by |-> @.by,
                                 todo |-> @.todo, tag |-> 0, doomed |-> {}]]
  /\ UNCHANGED <<posts, lastId, saves, claim, met>>

\* Mutated: post.rb without dependent: :destroy on tagmaps.
CommitPostsAlone(t) ==
  /\ req[t].pc = "commit_post"
  /\ posts' = posts \ req[t].posts
  /\ req' = [req EXCEPT ![t] = Idle]
  /\ UNCHANGED <<tags, tagmaps, lastId, saves, claim, met>>

CommitPosts(t) ==
  /\ req[t].pc = "commit_post"
  /\ tagmaps' = tagmaps \ req[t].doomed
  /\ posts' = posts \ req[t].posts
  /\ req' = [req EXCEPT ![t] = Idle]
  /\ UNCHANGED <<tags, lastId, saves, claim, met>>

\* The request ends early: the deploy job kills Puma, or a statement raises.
Abort(t) ==
  /\ req[t] # Idle
  /\ Fails(t)
  /\ UNCHANGED <<posts, tags, tagmaps, lastId, saves, met>>

-----------------------------------------------------------------------------
Next ==
  \E t \in Thread :
    \/ \E p \in Post : FindPost(t, p)
    \/ \E form \in [Name -> 0..MaxWord] : SavePosts(t, form)
    \/ Drop(t) \/ Find(t) \/ CreateTag(t) \/ Map(t) \/ Saved(t)
    \/ \E ps \in SUBSET Post, by \in {"author", "cascade"} : DestroyPosts(t, ps, by)
    \/ Count(t) \/ Collect(t) \/ CommitTag(t) \/ CommitPosts(t)
    \/ Abort(t)

Spec == Init /\ [][Next]_vars

-----------------------------------------------------------------------------
\* A post that no request is working on has the tags of its last form (post.rb:33-55), a
\* name repeated in the field or not, whatever the forms of other posts do to the tags they
\* share and whatever was destroyed before (post.rb:57-63).  If forms have met, or a destroy,
\* and left the tags in a mess, the next form that meets none puts them in order.
TagsAreTheForms ==
  \A p \in posts \ contended :
    claim[p].known /\ (\A t \in Thread : ~Piecemeal(t, p)) => NamesOf(p) = claim[p].names

\* While a form is being saved one name at a time, refused by the unique index midway or not,
\* its post never loses a tag that the form has and never gets one that it has not
\* (post.rb:39-43), whatever the forms of other posts drop, find or create meanwhile.  So a
\* reader at any moment, and a post whose form was cut short, miss nothing that was on the post
\* and is to stay.  Excepted are posts whose form meets another one about them or a destroy.
TagsOnlyTowardsTheForm ==
  [][\A t \in Thread, p \in Post \ contended :
       Saves(t, p) => /\ NamesOf(p) \cap Named(req[t].form) \subseteq NamesOf(p)'
                      /\ NamesOf(p)' \subseteq NamesOf(p) \cup Named(req[t].form)]_vars

\* tagmap.rb:2-3 has every tagmap belong to a post and a tag, both required: so it is
\* however forms interleave, aborted or not, and whatever is destroyed, but for the posts
\* of which a form was being saved while something was destroyed, or that were destroyed
\* between the look-up and save_posts (posts_controller.rb:68, :76).
TagmapsBelong ==
  \A m \in tagmaps : m.post \in raced \/ (m.post \in posts /\ \E g \in tags : g.id = m.tag)

\* When an author has deleted a post and no other request was saving or destroying meanwhile,
\* none of its tags is left without a post: clean_tag has destroyed those that no other
\* post uses (post.rb:57-63).  Excepted are tags of which a tagmap of a gone post is left from
\* an earlier race, since clean_tag counts that one too.
AuthorLeavesNoOrphan ==
  [][\A t \in Thread :
       /\ req[t].pc = "commit_post" /\ req[t].by = "author"
       /\ req[t].posts \cap crowded = {} /\ posts' # posts
       => \A m \in req[t].doomed : \A g \in tags' :
            g.id = m.tag /\ (\A n \in tagmaps : n.tag = g.id => n.post \in posts)
            => \E n \in tagmaps' : n.tag = g.id /\ n.post \in posts']_vars
=============================================================================
