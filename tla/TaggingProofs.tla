---------------------------- MODULE TaggingProofs ----------------------------
(***************************************************************************)
(* Theorems about Tagging, for any number of posts, names, forms and       *)
(* threads.                                                                *)
(***************************************************************************)
EXTENDS Tagging, TLAPS

Request == {Idle} \cup Finding \cup Dropping \cup Adding \cup Destroying

\* What req[t] holds, by the kind of the request.
LEMMA RequestKinds ==
  ASSUME TypeOK, NEW t \in Thread
  PROVE  /\ req[t] \in Request
         /\ req[t] = Idle <=> req[t].pc = "idle"
         /\ req[t].pc \in {"drop", "find"} => req[t] \in Dropping
         /\ req[t].pc \in {"create", "map"} => req[t] \in Adding
         /\ req[t].pc = "found" => req[t] \in Finding
         /\ Destroys(t) <=> req[t] \in Destroying
         /\ req[t].pc \in {"idle", "found", "drop", "find", "create", "map"} \/ Destroys(t)
         /\ Works(t) => req[t] # Idle
<1>0. Idle.pc = "idle"
  BY DEF Idle
<1>1. req[t] \in {Idle} \cup Finding \cup Dropping \cup Adding \cup Destroying
  BY DEF TypeOK
<1>2. CASE req[t] = Idle
  BY <1>2 DEF Idle, Request, Destroys, Destroying, Works
<1>7. CASE req[t] \in Finding
  BY <1>7 DEF Finding, Request, Idle, Destroys, Destroying, Works
<1>3. CASE req[t] \in Dropping
  BY <1>3, <1>0 DEF Dropping, Request, Destroys, Destroying
<1>4. CASE req[t] \in Adding
  BY <1>4, <1>0 DEF Adding, Request, Destroys, Destroying
<1>5. CASE req[t] \in Destroying
  BY <1>5, <1>0 DEF Destroying, Request, Destroys
<1>6. QED
  BY <1>1, <1>2, <1>3, <1>4, <1>5, <1>7

LEMMA DroppingFields ==
  ASSUME NEW r \in Dropping
  PROVE  /\ r.pc \in {"drop", "find"} /\ r.post \in Post
         /\ r.form \in Form /\ r.new \in Form /\ r.old \in SUBSET Join
BY DEF Dropping

LEMMA AddingFields ==
  ASSUME NEW r \in Adding
  PROVE  /\ r.pc \in {"create", "map"} /\ r.post \in Post
         /\ r.form \in Form /\ r.new \in Form /\ r.name \in Name /\ r.tag \in Nat
BY DEF Adding

LEMMA DestroyingFields ==
  ASSUME NEW r \in Destroying
  PROVE  /\ r.pc \in {"count", "collect_tag", "commit_tag", "collect_post", "commit_post"}
         /\ r.posts \in SUBSET Post /\ r.by \in {"author", "cascade"}
         /\ r.todo \in SUBSET Join /\ r.tag \in Nat /\ r.doomed \in SUBSET Tagmap
BY DEF Destroying

LEMMA JoinFields ==
  ASSUME NEW j \in Join
  PROVE  j[1] \in Tagmap /\ j[2] \in Tag /\ j = <<j[1], j[2]>>
BY DEF Join

LEMMA JoinsAreRows ==
  ASSUME TypeOK, NEW p
  PROVE  /\ TagsOf(p) \subseteq Join
         /\ NamesOf(p) \subseteq Name
         /\ \A j : j \in TagsOf(p) <=> /\ j = <<j[1], j[2]>> /\ j[1] \in tagmaps /\ j[2] \in tags
                                       /\ j[1].post = p /\ j[1].tag = j[2].id
         /\ \A x : x \in NamesOf(p) <=>
              \E m \in tagmaps, g \in tags : m.post = p /\ m.tag = g.id /\ x = g.tag_name
<1>1. \A j : j \in TagsOf(p) <=> /\ j = <<j[1], j[2]>> /\ j[1] \in tagmaps /\ j[2] \in tags
                                 /\ j[1].post = p /\ j[1].tag = j[2].id
  BY DEF TagsOf
<1>2. TagsOf(p) \subseteq Join
  BY DEF TagsOf, Join, TypeOK
<1>3. \A x : x \in NamesOf(p) <=>
        \E m \in tagmaps, g \in tags : m.post = p /\ m.tag = g.id /\ x = g.tag_name
  <2>1. ASSUME NEW m \in tagmaps, NEW g \in tags, m.post = p, m.tag = g.id
        PROVE  g.tag_name \in NamesOf(p)
    <3>1. <<m, g>> \in TagsOf(p)
      BY <2>1, <1>1
    <3>2. <<m, g>>[2].tag_name = g.tag_name
      OBVIOUS
    <3>3. QED
      BY <3>1, <3>2 DEF NamesOf
  <2>2. ASSUME NEW x \in NamesOf(p)
        PROVE  \E m \in tagmaps, g \in tags : m.post = p /\ m.tag = g.id /\ x = g.tag_name
    BY <1>1 DEF NamesOf
  <2>3. QED
    BY <2>1, <2>2
<1>4. NamesOf(p) \subseteq Name
  BY <1>3 DEF TypeOK, Tag
<1>5. QED
  BY <1>1, <1>2, <1>3, <1>4

\* The same of the next state.
LEMMA NamesThen ==
  ASSUME NEW p
  PROVE  \A x : x \in NamesOf(p)' <=>
           \E m \in tagmaps', g \in tags' : m.post = p /\ m.tag = g.id /\ x = g.tag_name
<1>1. ASSUME NEW m \in tagmaps', NEW g \in tags', m.post = p, m.tag = g.id
      PROVE  g.tag_name \in NamesOf(p)'
  <2>1. <<m, g>> \in TagsOf(p)' /\ <<m, g>>[2].tag_name = g.tag_name
    BY <1>1 DEF TagsOf
  <2>2. QED
    BY <2>1 DEF NamesOf
<1>2. ASSUME NEW x, x \in NamesOf(p)'
      PROVE  \E m \in tagmaps', g \in tags' : m.post = p /\ m.tag = g.id /\ x = g.tag_name
  BY <1>2 DEF NamesOf, TagsOf
<1>3. QED
  BY <1>1, <1>2

-----------------------------------------------------------------------------
\* What each action does, told apart by the request at work.
OthersWait(t) == \A s \in Thread : s # t => req'[s] = req[s]

FieldsKept(t) == req'[t].post = req[t].post /\ req'[t].form = req[t].form

Cancelled(t) ==
  /\ req'[t] = Idle
  /\ \A p \in Post : /\ claim'[p].names = claim[p].names
                     /\ claim'[p].known => claim[p].known /\ ~Piecemeal(t, p)

LEMMA FailsStep ==
  ASSUME TypeOK, NEW t \in Thread, Fails(t)
  PROVE  /\ OthersWait(t) /\ Cancelled(t)
         /\ claim' \in [Post -> [known : BOOLEAN, names : SUBSET Name]]
<1>1. OthersWait(t) /\ req'[t] = Idle
  BY DEF Fails, TypeOK, OthersWait
<1>2. ASSUME NEW p \in Post
      PROVE  /\ claim'[p] \in [known : BOOLEAN, names : SUBSET Name]
             /\ claim'[p].names = claim[p].names
             /\ claim'[p].known => claim[p].known /\ ~Piecemeal(t, p)
  <2>1. claim[p] \in [known : BOOLEAN, names : SUBSET Name]
    BY DEF TypeOK
  <2>2. Piecemeal(t, p) \in BOOLEAN
    BY DEF Piecemeal, Saves, Destroys
  <2>3. claim'[p] = [claim[p] EXCEPT !.known = @ /\ ~Piecemeal(t, p)]
    BY DEF Fails
  <2> DEFINE P == Piecemeal(t, p)
  <2>4. claim'[p] = [claim[p] EXCEPT !.known = claim[p].known /\ ~P]
    BY <2>3
  <2>5. P \in BOOLEAN
    BY <2>2
  <2> HIDE DEF P
  <2>6. /\ claim'[p].known = (claim[p].known /\ ~P) /\ claim'[p].names = claim[p].names
        /\ claim'[p] \in [known : BOOLEAN, names : SUBSET Name]
    BY <2>1, <2>4, <2>5
  <2>7. QED
    BY <2>6 DEF P
<1>3. claim' \in [Post -> [known : BOOLEAN, names : SUBSET Name]]
  BY <1>2 DEF Fails
<1>4. QED
  BY <1>1, <1>2, <1>3 DEF Cancelled

LEMMA FindPostStep ==
  ASSUME TypeOK, NEW t \in Thread, NEW p \in Post, FindPost(t, p)
  PROVE  /\ req[t] = Idle /\ OthersWait(t) /\ p \in posts
         /\ req'[t] \in Finding /\ req'[t].pc = "found" /\ req'[t].post = p
         /\ raced' = raced \cup ({p} \cap Doomed)
         /\ UNCHANGED <<posts, tags, tagmaps, lastId, saves, claim, contended, crowded>>
<1>1. req'[t] = [pc |-> "found", post |-> p] /\ OthersWait(t)
  BY DEF FindPost, TypeOK, OthersWait
<1>2. req'[t] \in Finding /\ req'[t].pc = "found" /\ req'[t].post = p
  BY <1>1 DEF Finding
<1>3. QED
  BY <1>1, <1>2 DEF FindPost

LEMMA SavePostsStep ==
  ASSUME TypeOK, NEW t \in Thread, NEW form \in Form, SavePosts(t, form)
  PROVE  \E p \in Post :
           /\ Found(t, p) /\ req[t].pc = "found" /\ OthersWait(t)
           /\ req'[t] \in Dropping
           /\ req'[t].pc = "drop" /\ req'[t].post = p /\ req'[t].form = form
           /\ req'[t].old = {j \in TagsOf(p) : j[2].tag_name \notin Named(form)}
           /\ req'[t].new = [x \in Name |-> IF x \in NamesOf(p) THEN 0 ELSE form[x]]
           /\ saves' = saves + 1 /\ saves < MaxSave
           /\ contended' = IF \E s \in Thread : Saves(s, p) \/ Destroys(s)
                           THEN contended \cup {p} ELSE contended \ {p}
           /\ raced' = IF \E s \in Thread : Destroys(s) THEN raced \cup {p} ELSE raced
           /\ crowded' = crowded \cup Doomed
           /\ UNCHANGED <<posts, tags, tagmaps, lastId, claim>>
<1> DEFINE p == req[t].post
           old == {j \in TagsOf(p) : j[2].tag_name \notin Named(form)}
           new == [x \in Name |-> IF x \in NamesOf(p) THEN 0 ELSE form[x]]
           r == [pc |-> "drop", post |-> p, form |-> form, old |-> old, new |-> new]
<1>0. req[t].pc = "found" /\ p \in Post /\ Found(t, p)
  BY RequestKinds DEF SavePosts, Finding, Found
<1>1. old \in SUBSET Join
  BY JoinsAreRows
<1>2. new \in Form
  BY DEF Form
<1>3. SetOut(t, p, form, old, new)
  BY DEF SavePosts
<1>4. /\ r.pc = "drop" /\ r.post = p /\ r.form = form /\ r.old = old /\ r.new = new
      /\ r \in Dropping
  <2> HIDE DEF old, new, p
  <2>1. QED
    BY <1>0, <1>1, <1>2 DEF Dropping
<1> HIDE DEF p, old, new
<1>5. /\ req' = [req EXCEPT ![t] = r]
      /\ saves' = saves + 1 /\ saves < MaxSave
      /\ contended' = IF \E s \in Thread : Saves(s, p) \/ Destroys(s)
                      THEN contended \cup {p} ELSE contended \ {p}
      /\ raced' = IF \E s \in Thread : Destroys(s) THEN raced \cup {p} ELSE raced
      /\ crowded' = crowded \cup Doomed
      /\ UNCHANGED <<posts, tags, tagmaps, lastId, claim>>
  BY <1>3 DEF SetOut
<1> HIDE DEF r
<1>6. req'[t] = r /\ OthersWait(t)
  BY <1>5 DEF TypeOK, OthersWait
<1>7. /\ Found(t, p) /\ req[t].pc = "found" /\ OthersWait(t)
      /\ req'[t] \in Dropping
      /\ req'[t].pc = "drop" /\ req'[t].post = p /\ req'[t].form = form
      /\ req'[t].old = {j \in TagsOf(p) : j[2].tag_name \notin Named(form)}
      /\ req'[t].new = [x \in Name |-> IF x \in NamesOf(p) THEN 0 ELSE form[x]]
  BY <1>0, <1>4, <1>6 DEF old, new
<1>8. QED
  BY <1>0, <1>5, <1>7

LEMMA DropStep ==
  ASSUME TypeOK, NEW t \in Thread, Drop(t)
  PROVE  /\ req[t].pc = "drop" /\ OthersWait(t)
         /\ \/ Cancelled(t) /\ tagmaps' = tagmaps
            \/ \E j \in req[t].old, g \in tags :
                 /\ g.tag_name = j[2].tag_name
                 /\ tagmaps' = {m \in tagmaps : ~(m.post = req[t].post /\ m.tag = g.id)}
                 /\ req'[t] \in Dropping /\ req'[t].pc = "drop" /\ FieldsKept(t)
                 /\ req'[t].old = req[t].old \ {j} /\ req'[t].new = req[t].new
                 /\ claim' = claim
         /\ claim' \in [Post -> [known : BOOLEAN, names : SUBSET Name]]
         /\ UNCHANGED <<posts, tags, lastId, saves, met>>
<1>1. /\ req[t].pc = "drop" /\ req[t] \in Dropping
      /\ UNCHANGED <<posts, tags, lastId, saves, met>>
  BY RequestKinds DEF Drop
<1>2. PICK j \in req[t].old :
        LET found == {g \in tags : g.tag_name = j[2].tag_name}
        IN  IF found # {}
            THEN /\ \E g \in found :
                      tagmaps' = {m \in tagmaps : ~(m.post = req[t].post /\ m.tag = g.id)}
                 /\ req' = [req EXCEPT ![t].old = @ \ {j}]
                 /\ UNCHANGED claim
            ELSE Fails(t) /\ UNCHANGED tagmaps
  BY DEF Drop
<1>3. CASE {g \in tags : g.tag_name = j[2].tag_name} = {}
  BY <1>1, <1>2, <1>3, FailsStep
<1>4. CASE {g \in tags : g.tag_name = j[2].tag_name} # {}
  <2>1. PICK g \in tags :
          /\ g.tag_name = j[2].tag_name
          /\ tagmaps' = {m \in tagmaps : ~(m.post = req[t].post /\ m.tag = g.id)}
    BY <1>2, <1>4
  <2>2. req' = [req EXCEPT ![t] = [req[t] EXCEPT !.old = req[t].old \ {j}]] /\ claim' = claim
    BY <1>2, <1>4 DEF TypeOK
  <2>3. req'[t] = [req[t] EXCEPT !.old = req[t].old \ {j}] /\ OthersWait(t)
    BY <2>2 DEF TypeOK, OthersWait
  <2>4. /\ req'[t] \in Dropping /\ req'[t].pc = "drop" /\ FieldsKept(t)
        /\ req'[t].old = req[t].old \ {j} /\ req'[t].new = req[t].new
    BY <1>1, <2>3 DEF Dropping, FieldsKept
  <2>5. QED
    BY <1>1, <2>1, <2>2, <2>3, <2>4 DEF TypeOK
<1>5. QED
  BY <1>3, <1>4

LEMMA FindStep ==
  ASSUME TypeOK, NEW t \in Thread, Find(t)
  PROVE  /\ req[t] \in Dropping /\ (req[t].pc = "drop" => req[t].old = {}) /\ OthersWait(t)
         /\ req'[t] \in Adding /\ FieldsKept(t) /\ req'[t].new = req[t].new
         /\ req'[t].name \in Named(req[t].new)
         /\ \/ req'[t].pc = "create"
            \/ /\ req'[t].pc = "map"
               /\ \E g \in tags : g.id = req'[t].tag /\ g.tag_name = req'[t].name
         /\ UNCHANGED <<posts, tags, tagmaps, lastId, saves, claim, met>>
<1> DEFINE adding(x, pc, g) == [pc |-> pc, post |-> req[t].post, form |-> req[t].form,
                                new |-> req[t].new, name |-> x, tag |-> g]
<1>1. /\ req[t].pc \in {"drop", "find"} /\ (req[t].pc = "drop" => req[t].old = {})
      /\ req[t] \in Dropping
      /\ UNCHANGED <<posts, tags, tagmaps, lastId, saves, claim, met>>
  BY RequestKinds DEF Find
<1>2. PICK x \in Named(req[t].new), pc \in {"create", "map"}, g \in Nat :
        /\ req' = [req EXCEPT ![t] = adding(x, pc, g)]
        /\ pc = "map" => \E h \in tags : h.id = g /\ h.tag_name = x
  <2>1. PICK x \in Named(req[t].new) :
          LET found == {g \in tags : g.tag_name = x}
          IN  IF found = {}
              THEN req' = [req EXCEPT ![t] = adding(x, "create", 0)]
              ELSE \E g \in found : req' = [req EXCEPT ![t] = adding(x, "map", g.id)]
    BY DEF Find
  <2> HIDE DEF adding
  <2>2. CASE {g \in tags : g.tag_name = x} = {}
    <3>1. req' = [req EXCEPT ![t] = adding(x, "create", 0)] /\ 0 \in Nat
      BY <2>1, <2>2
    <3>2. QED
      BY <3>1
  <2>3. CASE {g \in tags : g.tag_name = x} # {}
    <3>1. PICK g \in tags : g.tag_name = x /\ req' = [req EXCEPT ![t] = adding(x, "map", g.id)]
      BY <2>1, <2>3
    <3>2. g.id \in Nat
      BY DEF TypeOK, Tag
    <3>3. QED
      BY <3>1, <3>2
  <2>4. QED
    BY <2>2, <2>3
<1>3. req'[t] = adding(x, pc, g) /\ OthersWait(t)
  BY <1>2 DEF TypeOK, OthersWait
<1>4. x \in Name
  BY DEF Named
<1>5. /\ req[t].post \in Post /\ req[t].form \in Form /\ req[t].new \in Form
  BY <1>1, DroppingFields
<1>6. /\ req'[t] \in Adding /\ FieldsKept(t) /\ req'[t].new = req[t].new
      /\ req'[t].name = x /\ req'[t].pc = pc /\ req'[t].tag = g
  BY <1>3, <1>4, <1>5 DEF Adding, FieldsKept
<1>7. QED
  BY <1>1, <1>2, <1>3, <1>6

LEMMA CreateTagStep ==
  ASSUME TypeOK, NEW t \in Thread, CreateTag(t)
  PROVE  /\ req[t] \in Adding /\ req[t].pc = "create" /\ OthersWait(t)
         /\ \/ Cancelled(t) /\ tags' = tags /\ lastId' = lastId
            \/ /\ \A g \in tags : g.tag_name # req[t].name
               /\ lastId' = lastId + 1
               /\ tags' = tags \cup {[id |-> lastId + 1, tag_name |-> req[t].name]}
               /\ req'[t] \in Adding /\ req'[t].pc = "map" /\ FieldsKept(t)
               /\ req'[t].new = req[t].new /\ req'[t].name = req[t].name
               /\ req'[t].tag = lastId + 1
               /\ claim' = claim
         /\ claim' \in [Post -> [known : BOOLEAN, names : SUBSET Name]]
         /\ UNCHANGED <<posts, tagmaps, saves, met>>
<1>1. /\ req[t].pc = "create" /\ req[t] \in Adding
      /\ UNCHANGED <<posts, tagmaps, saves, met>>
  BY RequestKinds DEF CreateTag
<1>2. CASE \E g \in tags : g.tag_name = req[t].name
  <2>1. Fails(t) /\ tags' = tags /\ lastId' = lastId
    BY <1>2 DEF CreateTag
  <2>2. QED
    BY <1>1, <2>1, FailsStep
<1>3. CASE ~\E g \in tags : g.tag_name = req[t].name
  <2>1. /\ lastId' = lastId + 1
        /\ tags' = tags \cup {[id |-> lastId + 1, tag_name |-> req[t].name]}
        /\ req' = [req EXCEPT ![t] = [req[t] EXCEPT !.pc = "map", !.tag = lastId + 1]]
        /\ claim' = claim
    BY <1>3 DEF CreateTag, TypeOK
  <2>2. req'[t] = [req[t] EXCEPT !.pc = "map", !.tag = lastId + 1] /\ OthersWait(t)
    BY <2>1 DEF TypeOK, OthersWait
  <2>3. lastId + 1 \in Nat
    BY DEF TypeOK
  <2>4. /\ req'[t] \in Adding /\ req'[t].pc = "map" /\ FieldsKept(t)
        /\ req'[t].new = req[t].new /\ req'[t].name = req[t].name
        /\ req'[t].tag = lastId + 1
    BY <1>1, <2>2, <2>3 DEF Adding, FieldsKept
  <2>5. QED
    BY <1>1, <1>3, <2>1, <2>2, <2>4 DEF TypeOK
<1>4. QED
  BY <1>2, <1>3

LEMMA MapStep ==
  ASSUME TypeOK, NEW t \in Thread, Map(t), req[t].name \in Named(req[t].new)
  PROVE  /\ req[t] \in Adding /\ req[t].pc = "map" /\ OthersWait(t)
         /\ lastId' = lastId + 1
         /\ tagmaps' = tagmaps \cup {[id |-> lastId + 1, post |-> req[t].post, tag |-> req[t].tag]}
         /\ req'[t] \in Dropping /\ req'[t].pc = "find" /\ FieldsKept(t)
         /\ req'[t].old = {}
         /\ \A x \in Named(req[t].new) : x = req[t].name \/ x \in Named(req'[t].new)
         /\ \A x \in Named(req'[t].new) : x \in Named(req[t].new)
         /\ UNCHANGED <<posts, tags, saves, claim, met>>
<1>1. /\ req[t].pc = "map" /\ req[t] \in Adding
      /\ lastId' = lastId + 1
      /\ tagmaps' = tagmaps \cup {[id |-> lastId + 1, post |-> req[t].post, tag |-> req[t].tag]}
      /\ UNCHANGED <<posts, tags, saves, claim, met>>
  BY RequestKinds DEF Map
<1> DEFINE new == [req[t].new EXCEPT ![req[t].name] = @ - 1]
<1>2. /\ req[t].post \in Post /\ req[t].form \in Form /\ req[t].new \in Form /\ req[t].name \in Name
  BY <1>1, AddingFields
<1>3. /\ new \in Form
      /\ \A x \in Named(req[t].new) : x = req[t].name \/ x \in Named(new)
      /\ \A x \in Named(new) : x \in Named(req[t].new)
  <2>1. req[t].new[req[t].name] \in Nat /\ req[t].new[req[t].name] > 0
    BY <1>2 DEF Named, Form
  <2>2. new \in Form
    BY <1>2, <2>1 DEF Form
  <2>3. \A x \in Name : x # req[t].name => new[x] = req[t].new[x]
    BY <1>2 DEF Form
  <2>4. QED
    BY <2>1, <2>2, <2>3 DEF Named
<1>4. req' = [req EXCEPT ![t] = [pc |-> "find", post |-> req[t].post, form |-> req[t].form,
                                 old |-> {}, new |-> new]]
  BY DEF Map, Added
<1> HIDE DEF new
<1>5. /\ req'[t] = [pc |-> "find", post |-> req[t].post, form |-> req[t].form,
                    old |-> {}, new |-> new]
      /\ OthersWait(t)
  BY <1>4 DEF TypeOK, OthersWait
<1>6. {} \in SUBSET Join
  OBVIOUS
<1>7. /\ req'[t] \in Dropping /\ req'[t].pc = "find" /\ FieldsKept(t)
      /\ req'[t].old = {} /\ req'[t].new = new
  BY <1>2, <1>3, <1>5, <1>6 DEF Dropping, FieldsKept
<1>8. QED
  BY <1>1, <1>3, <1>5, <1>7

LEMMA SavedStep ==
  ASSUME TypeOK, NEW t \in Thread, Saved(t)
  PROVE  /\ req[t] \in Dropping /\ (req[t].pc = "drop" => req[t].old = {}) /\ OthersWait(t)
         /\ Named(req[t].new) = {} /\ req'[t] = Idle
         /\ claim' = [claim EXCEPT ![req[t].post] = [known |-> TRUE, names |-> Named(req[t].form)]]
         /\ UNCHANGED <<posts, tags, tagmaps, lastId, saves, met>>
BY RequestKinds DEF Saved, TypeOK, OthersWait

\* A destroy that begins.
LEMMA DestroyPostsStep ==
  ASSUME TypeOK, NEW t \in Thread, NEW ps \in SUBSET Post, NEW by \in {"author", "cascade"},
         DestroyPosts(t, ps, by)
  PROVE  /\ req[t].pc \in {"idle", "found"} /\ OthersWait(t) /\ ps # {}
         /\ req'[t] \in Destroying /\ req'[t].posts = ps /\ req'[t].by = by
         /\ req'[t].pc \in {"count", "collect_post"}
         /\ by = "author" <=> req'[t].pc = "count"
         /\ \A p \in ps : TagsOf(p) \subseteq req'[t].todo
         /\ contended' = contended \cup Edited
         /\ raced' = raced \cup Edited \cup {p \in ps : \E s \in Thread \ {t} : Found(s, p)}
         /\ crowded' = IF \E s \in Thread : Works(s)
                       THEN crowded \cup Doomed \cup ps ELSE crowded \ ps
         /\ UNCHANGED <<posts, tags, tagmaps, lastId, saves, claim>>
<1> DEFINE todo == UNION {TagsOf(p) : p \in ps}
           pc == IF by = "author" THEN "count" ELSE "collect_post"
           r == [pc |-> pc, posts |-> ps, by |-> by, todo |-> todo, tag |-> 0, doomed |-> {}]
<1>1. todo \in SUBSET Join /\ \A p \in ps : TagsOf(p) \subseteq todo
  BY JoinsAreRows
<1>2. pc \in {"count", "collect_post"} /\ (by = "author" <=> pc = "count")
  OBVIOUS
<1>3. req[t].pc \in {"idle", "found"} /\ ps # {} /\ req' = [req EXCEPT ![t] = r]
  BY DEF DestroyPosts, Idle
<1>4. /\ contended' = contended \cup Edited
      /\ raced' = raced \cup Edited \cup {p \in ps : \E s \in Thread \ {t} : Found(s, p)}
      /\ crowded' = IF \E s \in Thread : Works(s)
                    THEN crowded \cup Doomed \cup ps ELSE crowded \ ps
      /\ UNCHANGED <<posts, tags, tagmaps, lastId, saves, claim>>
  BY DEF DestroyPosts
<1>5. /\ r \in Destroying /\ r.posts = ps /\ r.by = by /\ r.todo = todo /\ r.pc = pc
  <2> HIDE DEF todo, pc
  <2>1. QED
    BY <1>1, <1>2 DEF Destroying
<1> HIDE DEF r
<1>6. req'[t] = r /\ OthersWait(t)
  BY <1>3 DEF TypeOK, OthersWait
<1> HIDE DEF todo, pc
<1>7. QED
  BY <1>1, <1>2, <1>3, <1>4, <1>5, <1>6

TargetsKept(t) ==
  /\ req'[t] \in Destroying
  /\ req'[t].posts = req[t].posts /\ req'[t].by = req[t].by

LEMMA CountStep ==
  ASSUME TypeOK, NEW t \in Thread, Count(t)
  PROVE  /\ req[t] \in Destroying /\ req[t].pc = "count" /\ OthersWait(t) /\ TargetsKept(t)
         /\ \/ req[t].todo = {} /\ req'[t].todo = {} /\ req'[t].pc = "collect_post"
            \/ \E j \in req[t].todo :
                 /\ req'[t].todo = req[t].todo \ {j}
                 /\ \/ /\ OtherUsers(req[t].posts, j[2].id) = {}
                       /\ req'[t].pc = "collect_tag" /\ req'[t].tag = j[2].id
                    \/ /\ OtherUsers(req[t].posts, j[2].id) # {}
                       /\ req'[t].pc = "count"
         /\ UNCHANGED <<posts, tags, tagmaps, lastId, saves, claim, met>>
<1>1. /\ req[t].pc = "count" /\ req[t] \in Destroying
      /\ UNCHANGED <<posts, tags, tagmaps, lastId, saves, claim, met>>
  BY RequestKinds DEF Count, Destroys
<1>2. CASE req[t].todo = {}
  <2>1. req' = [req EXCEPT ![t] = [req[t] EXCEPT !.pc = "collect_post"]]
    BY <1>2 DEF Count, TypeOK
  <2>2. req'[t] = [req[t] EXCEPT !.pc = "collect_post"] /\ OthersWait(t)
    BY <2>1 DEF TypeOK, OthersWait
  <2>3. TargetsKept(t) /\ req'[t].todo = {} /\ req'[t].pc = "collect_post"
    BY <1>1, <1>2, <2>2 DEF Destroying, TargetsKept
  <2>4. QED
    BY <1>1, <1>2, <2>2, <2>3
<1>3. CASE req[t].todo # {}
  <2>1. PICK j \in req[t].todo :
          IF OtherUsers(req[t].posts, j[2].id) = {}
          THEN req' = [req EXCEPT ![t].pc = "collect_tag", ![t].tag = j[2].id,
                                  ![t].todo = @ \ {j}]
          ELSE req' = [req EXCEPT ![t].todo = @ \ {j}]
    BY <1>3 DEF Count
  <2>2. j[2].id \in Nat /\ req[t].todo \ {j} \in SUBSET Join
    BY <1>1, DestroyingFields, JoinFields DEF Tag
  <2>3. CASE OtherUsers(req[t].posts, j[2].id) = {}
    <3> DEFINE g == j[2].id
    <3>1. req' = [req EXCEPT ![t] = [req[t] EXCEPT !.pc = "collect_tag", !.tag = g,
                                                   !.todo = req[t].todo \ {j}]]
      BY <2>1, <2>3 DEF TypeOK
    <3>2. /\ req'[t] = [req[t] EXCEPT !.pc = "collect_tag", !.tag = g, !.todo = req[t].todo \ {j}]
          /\ OthersWait(t)
      BY <3>1 DEF TypeOK, OthersWait
    <3>3. g \in Nat
      BY <2>2
    <3> HIDE DEF g
    <3>4. /\ TargetsKept(t) /\ req'[t].todo = req[t].todo \ {j} /\ req'[t].pc = "collect_tag"
          /\ req'[t].tag = g
      BY <1>1, <2>2, <3>2, <3>3 DEF Destroying, TargetsKept
    <3>5. QED
      BY <1>1, <2>3, <3>2, <3>4 DEF g
  <2>4. CASE OtherUsers(req[t].posts, j[2].id) # {}
    <3>1. req' = [req EXCEPT ![t] = [req[t] EXCEPT !.todo = req[t].todo \ {j}]]
      BY <2>1, <2>4 DEF TypeOK
    <3>2. req'[t] = [req[t] EXCEPT !.todo = req[t].todo \ {j}] /\ OthersWait(t)
      BY <3>1 DEF TypeOK, OthersWait
    <3>3. TargetsKept(t) /\ req'[t].todo = req[t].todo \ {j} /\ req'[t].pc = "count"
      BY <1>1, <2>2, <3>2 DEF Destroying, TargetsKept
    <3>4. QED
      BY <1>1, <2>4, <3>2, <3>3
  <2>5. QED
    BY <2>3, <2>4
<1>4. QED
  BY <1>2, <1>3

LEMMA CollectStep ==
  ASSUME TypeOK, NEW t \in Thread, Collect(t)
  PROVE  /\ req[t] \in Destroying /\ OthersWait(t) /\ TargetsKept(t) /\ req'[t].todo = req[t].todo
         /\ \/ /\ req[t].pc = "collect_tag" /\ req'[t].pc = "commit_tag" /\ req'[t].tag = req[t].tag
               /\ req'[t].doomed = {m \in tagmaps : m.tag = req[t].tag}
            \/ /\ req[t].pc = "collect_post" /\ req'[t].pc = "commit_post"
               /\ req'[t].doomed = {m \in tagmaps : m.post \in req[t].posts}
         /\ UNCHANGED <<posts, tags, tagmaps, lastId, saves, claim, met>>
<1>1. /\ req[t].pc \in {"collect_tag", "collect_post"} /\ req[t] \in Destroying
      /\ UNCHANGED <<posts, tags, tagmaps, lastId, saves, claim, met>>
  BY RequestKinds DEF Collect, Destroys
<1>2. ASSUME NEW pc \in {"commit_tag", "commit_post"}, NEW doomed \in SUBSET tagmaps,
             req' = [req EXCEPT ![t].pc = pc, ![t].doomed = doomed]
      PROVE  /\ OthersWait(t) /\ TargetsKept(t) /\ req'[t].todo = req[t].todo
             /\ req'[t].tag = req[t].tag /\ req'[t].pc = pc /\ req'[t].doomed = doomed
  <2>1. req'[t] = [req[t] EXCEPT !.pc = pc, !.doomed = doomed] /\ OthersWait(t)
    BY <1>2 DEF TypeOK, OthersWait
  <2>2. doomed \in SUBSET Tagmap
    BY DEF TypeOK
  <2>3. QED
    BY <1>1, <2>1, <2>2 DEF Destroying, TargetsKept
<1>3. CASE req[t].pc = "collect_tag"
  <2> DEFINE doomed == {m \in tagmaps : m.tag = req[t].tag}
  <2>1. req' = [req EXCEPT ![t].pc = "commit_tag", ![t].doomed = doomed]
    BY <1>3 DEF Collect
  <2>2. doomed \in SUBSET tagmaps
    OBVIOUS
  <2> HIDE DEF doomed
  <2>3. /\ OthersWait(t) /\ TargetsKept(t) /\ req'[t].todo = req[t].todo
        /\ req'[t].tag = req[t].tag /\ req'[t].pc = "commit_tag" /\ req'[t].doomed = doomed
    BY <1>2, <2>1, <2>2
  <2>4. QED
    BY <1>1, <1>3, <2>3 DEF doomed
<1>4. CASE req[t].pc = "collect_post"
  <2> DEFINE doomed == {m \in tagmaps : m.post \in req[t].posts}
  <2>1. req' = [req EXCEPT ![t].pc = "commit_post", ![t].doomed = doomed]
    BY <1>4 DEF Collect
  <2>2. doomed \in SUBSET tagmaps
    OBVIOUS
  <2> HIDE DEF doomed
  <2>3. /\ OthersWait(t) /\ TargetsKept(t) /\ req'[t].todo = req[t].todo
        /\ req'[t].pc = "commit_post" /\ req'[t].doomed = doomed
    BY <1>2, <2>1, <2>2
  <2>4. QED
    BY <1>1, <1>4, <2>3 DEF doomed
<1>5. QED
  BY <1>1, <1>3, <1>4

LEMMA CommitTagStep ==
  ASSUME TypeOK, NEW t \in Thread, CommitTag(t)
  PROVE  /\ req[t] \in Destroying /\ req[t].pc = "commit_tag" /\ OthersWait(t) /\ TargetsKept(t)
         /\ req'[t].pc = "count" /\ req'[t].todo = req[t].todo
         /\ tagmaps' = tagmaps \ req[t].doomed
         /\ tags' = {g \in tags : g.id # req[t].tag}
         /\ UNCHANGED <<posts, lastId, saves, claim, met>>
<1>1. /\ req[t].pc = "commit_tag" /\ req[t] \in Destroying
      /\ tagmaps' = tagmaps \ req[t].doomed
      /\ tags' = {g \in tags : g.id # req[t].tag}
      /\ UNCHANGED <<posts, lastId, saves, claim, met>>
  BY RequestKinds DEF CommitTag, Destroys
<1> DEFINE next == [pc |-> "count", posts |-> req[t].posts, by |-> req[t].by,
                    todo |-> req[t].todo, tag |-> 0, doomed |-> {}]
<1>2. req'[t] = next /\ OthersWait(t)
  BY DEF CommitTag, TypeOK, OthersWait
<1>3. next \in Destroying
  BY <1>1, DestroyingFields DEF Destroying
<1>4. TargetsKept(t) /\ req'[t].pc = "count" /\ req'[t].todo = req[t].todo
  BY <1>2, <1>3 DEF TargetsKept
<1>5. QED
  BY <1>1, <1>2, <1>4

LEMMA CommitPostsStep ==
  ASSUME TypeOK, NEW t \in Thread, CommitPosts(t)
  PROVE  /\ req[t] \in Destroying /\ req[t].pc = "commit_post" /\ OthersWait(t) /\ req'[t] = Idle
         /\ tagmaps' = tagmaps \ req[t].doomed
         /\ posts' = posts \ req[t].posts
         /\ UNCHANGED <<tags, lastId, saves, claim, met>>
BY RequestKinds DEF CommitPosts, Destroys, TypeOK, OthersWait

LEMMA AbortStep ==
  ASSUME TypeOK, NEW t \in Thread, Abort(t)
  PROVE  /\ OthersWait(t) /\ Cancelled(t)
         /\ claim' \in [Post -> [known : BOOLEAN, names : SUBSET Name]]
         /\ UNCHANGED <<posts, tags, tagmaps, lastId, saves, met>>
BY FailsStep DEF Abort

LEMMA NextSteps ==
  ASSUME [Next]_vars
  PROVE  \/ \E t \in Thread, p \in Post : FindPost(t, p)
         \/ \E t \in Thread, form \in Form : SavePosts(t, form)
         \/ \E t \in Thread : \E ps \in SUBSET Post : \E by \in {"author", "cascade"} :
              DestroyPosts(t, ps, by)
         \/ \E t \in Thread :
              \/ Drop(t) \/ Find(t) \/ CreateTag(t) \/ Map(t) \/ Saved(t)
              \/ Count(t) \/ Collect(t) \/ CommitTag(t) \/ CommitPosts(t) \/ Abort(t)
         \/ UNCHANGED vars
<1>1. \A form \in [Name -> 0..MaxWord] : form \in Form
  BY TaggingAssumption DEF Form
<1>2. QED
  BY <1>1 DEF Next

\* A word at hand is one the form still has to add.
NameAtHand == \A t \in Thread : req[t].pc \in {"create", "map"} => req[t].name \in Named(req[t].new)

LEMMA RequestsAreUpdated ==
  ASSUME TypeOK, [Next]_vars
  PROVE  req' = [s \in Thread |-> req'[s]]
<1>1. ASSUME NEW t \in Thread, Fails(t) PROVE req' = [s \in Thread |-> req'[s]]
  BY <1>1 DEF Fails, TypeOK
<1>0. ASSUME NEW t \in Thread, NEW p \in Post, FindPost(t, p)
      PROVE  req' = [s \in Thread |-> req'[s]]
  BY <1>0 DEF FindPost, TypeOK
<1>2. ASSUME NEW t \in Thread, NEW form \in Form, SavePosts(t, form)
      PROVE  req' = [s \in Thread |-> req'[s]]
  BY <1>2 DEF SavePosts, SetOut, TypeOK
<1>3. ASSUME NEW t \in Thread, NEW ps \in SUBSET Post, NEW by \in {"author", "cascade"},
             DestroyPosts(t, ps, by)
      PROVE  req' = [s \in Thread |-> req'[s]]
  BY <1>3 DEF DestroyPosts, TypeOK
<1>4. ASSUME NEW t \in Thread, Drop(t) PROVE req' = [s \in Thread |-> req'[s]]
  BY <1>1, <1>4 DEF Drop, TypeOK
<1>5. ASSUME NEW t \in Thread, Find(t) PROVE req' = [s \in Thread |-> req'[s]]
  BY <1>5 DEF Find, TypeOK
<1>6. ASSUME NEW t \in Thread, CreateTag(t) PROVE req' = [s \in Thread |-> req'[s]]
  BY <1>1, <1>6 DEF CreateTag, TypeOK
<1>7. ASSUME NEW t \in Thread, Map(t) \/ Saved(t) \/ Count(t) \/ Collect(t) PROVE req' = [s \in Thread |-> req'[s]]
  BY <1>7 DEF Map, Saved, Count, Collect, TypeOK
<1>8. ASSUME NEW t \in Thread, CommitTag(t) \/ CommitPosts(t) PROVE req' = [s \in Thread |-> req'[s]]
  BY <1>8 DEF CommitTag, CommitPosts, TypeOK
<1>9. ASSUME NEW t \in Thread, Abort(t) PROVE req' = [s \in Thread |-> req'[s]]
  BY <1>1, <1>9 DEF Abort
<1>10. CASE UNCHANGED vars
  BY <1>10 DEF vars, TypeOK
<1>11. QED
  BY <1>0, <1>2, <1>3, <1>4, <1>5, <1>6, <1>7, <1>8, <1>9, <1>10, NextSteps

LEMMA HandInductive ==
  ASSUME TypeOK, NameAtHand, [Next]_vars
  PROVE  NameAtHand'
<1>1. ASSUME NEW t \in Thread, OthersWait(t),
             req'[t].pc \in {"create", "map"} => req'[t].name \in Named(req'[t].new)
      PROVE  NameAtHand'
  BY <1>1 DEF NameAtHand, OthersWait
<1>2. ASSUME NEW t \in Thread, OthersWait(t), req'[t] = Idle \/ req'[t] \in Finding \cup Dropping \cup Destroying
      PROVE  NameAtHand'
  BY <1>1, <1>2 DEF Idle, Finding, Dropping, Destroying
<1>3. ASSUME NEW t \in Thread, Drop(t) PROVE NameAtHand'
  BY <1>2, <1>3, DropStep DEF Cancelled
<1>4. ASSUME NEW t \in Thread, Find(t) PROVE NameAtHand'
  BY <1>1, <1>4, FindStep
<1>5. ASSUME NEW t \in Thread, CreateTag(t) PROVE NameAtHand'
  <2>1. CASE req'[t] = Idle
    BY <1>2, <1>5, <2>1, CreateTagStep
  <2>2. CASE req'[t].new = req[t].new /\ req'[t].name = req[t].name
    BY <1>1, <1>5, <2>2, CreateTagStep DEF NameAtHand
  <2>3. QED
    BY <1>5, <2>1, <2>2, CreateTagStep DEF Cancelled
<1>6. ASSUME NEW t \in Thread, Map(t) PROVE NameAtHand'
  <2>1. req[t].name \in Named(req[t].new)
    BY <1>6 DEF Map, NameAtHand
  <2>2. QED
    BY <1>2, <1>6, <2>1, MapStep
<1>7. ASSUME NEW t \in Thread, Saved(t) \/ Abort(t) \/ CommitPosts(t) PROVE NameAtHand'
  BY <1>2, <1>7, SavedStep, AbortStep, CommitPostsStep DEF Cancelled
<1>8. ASSUME NEW t \in Thread, Count(t) \/ Collect(t) \/ CommitTag(t) PROVE NameAtHand'
  BY <1>2, <1>8, CountStep, CollectStep, CommitTagStep DEF TargetsKept
<1>0. ASSUME NEW t \in Thread, NEW p \in Post, FindPost(t, p) PROVE NameAtHand'
  BY <1>2, <1>0, FindPostStep
<1>9. ASSUME NEW t \in Thread, NEW form \in Form, SavePosts(t, form) PROVE NameAtHand'
  BY <1>2, <1>9, SavePostsStep
<1>10. ASSUME NEW t \in Thread, NEW ps \in SUBSET Post, NEW by \in {"author", "cascade"},
              DestroyPosts(t, ps, by)
       PROVE  NameAtHand'
  BY <1>2, <1>10, DestroyPostsStep
<1>11. CASE UNCHANGED vars
  BY <1>11 DEF vars, NameAtHand
<1>12. QED
  BY <1>0, <1>3, <1>4, <1>5, <1>6, <1>7, <1>8, <1>9, <1>10, <1>11, NextSteps

LEMMA TypeInvariant ==
  ASSUME TypeOK, NameAtHand, [Next]_vars
  PROVE  TypeOK'
<1>r. req' = [s \in Thread |-> req'[s]]
  BY RequestsAreUpdated
<1>0. ASSUME NEW t \in Thread, OthersWait(t), req'[t] \in Request
      PROVE  req' \in [Thread -> {Idle} \cup Finding \cup Dropping \cup Adding \cup Destroying]
  BY <1>r, <1>0 DEF OthersWait, TypeOK, Request
<1>i. /\ Idle \in Request /\ Dropping \subseteq Request /\ Adding \subseteq Request
      /\ Destroying \subseteq Request /\ Finding \subseteq Request
  BY DEF Request
<1>13. ASSUME NEW t \in Thread, NEW p \in Post, FindPost(t, p) PROVE TypeOK'
  <2>1. /\ req'[t] \in Request /\ OthersWait(t) /\ raced' \subseteq Post
        /\ UNCHANGED <<posts, tags, tagmaps, lastId, saves, claim, contended, crowded>>
    BY <1>i, <1>13, FindPostStep DEF TypeOK
  <2>2. QED
    BY <1>0, <2>1 DEF TypeOK
<1>1. ASSUME NEW t \in Thread, NEW form \in Form, SavePosts(t, form) PROVE TypeOK'
  <2>1. /\ req'[t] \in Request /\ OthersWait(t)
        /\ saves' = saves + 1 /\ saves < MaxSave
        /\ UNCHANGED <<posts, tags, tagmaps, lastId, claim>>
    BY <1>i, <1>1, SavePostsStep
  <2>2. saves' \in 0..MaxSave
    BY <2>1, TaggingAssumption DEF TypeOK, met
  <2>3. contended' \subseteq Post /\ raced' \subseteq Post /\ crowded' \subseteq Post
    <3>1. PICK p \in Post :
          /\ contended' = IF \E s \in Thread : Saves(s, p) \/ Destroys(s)
                         THEN contended \cup {p} ELSE contended \ {p}
          /\ raced' = IF \E s \in Thread : Destroys(s) THEN raced \cup {p} ELSE raced
          /\ crowded' = crowded \cup Doomed
      BY <1>1, SavePostsStep
    <3>2. Doomed \subseteq Post
      BY DEF Doomed
    <3>3. QED
      BY <3>1, <3>2 DEF TypeOK
  <2>4. QED
    BY <1>0, <2>1, <2>2, <2>3 DEF TypeOK, met
<1>2. ASSUME NEW t \in Thread, NEW ps \in SUBSET Post, NEW by \in {"author", "cascade"},
             DestroyPosts(t, ps, by)
      PROVE  TypeOK'
  <2>1. /\ req'[t] \in Request /\ OthersWait(t)
        /\ UNCHANGED <<posts, tags, tagmaps, lastId, saves, claim>>
    BY <1>i, <1>2, DestroyPostsStep
  <2>2. contended' \subseteq Post /\ raced' \subseteq Post /\ crowded' \subseteq Post
    BY <1>2, DestroyPostsStep DEF TypeOK, Edited, Doomed
  <2>3. QED
    BY <1>0, <2>1, <2>2 DEF TypeOK, met
<1>3. ASSUME NEW t \in Thread, Drop(t) PROVE TypeOK'
  <2>1. tagmaps' \subseteq Tagmap
    BY <1>3, DropStep DEF TypeOK, met
  <2>2. req'[t] \in Request /\ OthersWait(t)
    BY <1>i, <1>3, DropStep DEF Cancelled
  <2>3. QED
    BY <1>0, <1>3, <2>1, <2>2, DropStep DEF TypeOK, met
<1>4. ASSUME NEW t \in Thread, Find(t) PROVE TypeOK'
  BY <1>0, <1>i, <1>4, FindStep DEF TypeOK, met
<1>5. ASSUME NEW t \in Thread, CreateTag(t) PROVE TypeOK'
  <2>1. [id |-> lastId + 1, tag_name |-> req[t].name] \in Tag /\ lastId + 1 \in Nat
    BY <1>5, CreateTagStep, AddingFields DEF TypeOK, Tag
  <2>2. tags' \subseteq Tag /\ lastId' \in Nat
    BY <1>5, <2>1, CreateTagStep DEF TypeOK, met
  <2>3. req'[t] \in Request /\ OthersWait(t)
    BY <1>i, <1>5, CreateTagStep DEF Cancelled
  <2>4. QED
    BY <1>0, <1>5, <2>2, <2>3, CreateTagStep DEF TypeOK, met
<1>6. ASSUME NEW t \in Thread, Map(t) PROVE TypeOK'
  <2>1. req[t].name \in Named(req[t].new)
    BY <1>6 DEF Map, NameAtHand
  <2>2. [id |-> lastId + 1, post |-> req[t].post, tag |-> req[t].tag] \in Tagmap /\ lastId + 1 \in Nat
    BY <1>6, <2>1, MapStep, AddingFields DEF TypeOK, Tagmap
  <2>3. QED
    BY <1>0, <1>i, <1>6, <2>1, <2>2, MapStep DEF TypeOK, met
<1>7. ASSUME NEW t \in Thread, Saved(t) PROVE TypeOK'
  <2> DEFINE c == [known |-> TRUE, names |-> Named(req[t].form)]
  <2>1. c \in [known : BOOLEAN, names : SUBSET Name]
    BY DEF Named
  <2>2. claim' = [claim EXCEPT ![req[t].post] = c]
    BY <1>7, SavedStep
  <2> HIDE DEF c
  <2>3. claim' \in [Post -> [known : BOOLEAN, names : SUBSET Name]]
    BY <2>1, <2>2 DEF TypeOK, met
  <2>4. QED
    BY <1>0, <1>i, <1>7, <2>3, SavedStep DEF TypeOK, met
<1>8. ASSUME NEW t \in Thread, Count(t) \/ Collect(t) \/ CommitTag(t) PROVE TypeOK'
  <2>1. /\ req'[t] \in Request /\ OthersWait(t)
        /\ tags' \subseteq tags /\ tagmaps' \subseteq tagmaps
        /\ UNCHANGED <<posts, lastId, saves, claim, met>>
    BY <1>i, <1>8, CountStep, CollectStep, CommitTagStep DEF TargetsKept
  <2>2. QED
    BY <1>0, <2>1 DEF TypeOK, met
<1>9. ASSUME NEW t \in Thread, CommitPosts(t) PROVE TypeOK'
  BY <1>0, <1>i, <1>9, CommitPostsStep DEF TypeOK, met
<1>10. ASSUME NEW t \in Thread, Abort(t) PROVE TypeOK'
  BY <1>0, <1>i, <1>10, AbortStep DEF TypeOK, met, Cancelled
<1>11. CASE UNCHANGED vars
  BY <1>11 DEF TypeOK, vars, met
<1>12. QED
  BY <1>1, <1>2, <1>3, <1>4, <1>5, <1>6, <1>7, <1>8, <1>9, <1>10, <1>11, <1>13, NextSteps

LEMMA TypeInit == Init => TypeOK /\ NameAtHand
<1> SUFFICES ASSUME Init PROVE TypeOK /\ NameAtHand
  OBVIOUS
<1>1. \A t \in Thread : req[t] = Idle /\ req[t].pc = "idle"
  BY DEF Init, Idle
<1>2. NameAtHand
  BY <1>1 DEF NameAtHand
<1>3. 0 \in 0..MaxSave
  BY TaggingAssumption
<1>4. TypeOK
  BY <1>3 DEF Init, TypeOK
<1>5. QED
  BY <1>2, <1>4

\* The tables and the requests always hold rows of the shape the schema gives them, and a
\* tagmap holds the id of a tag.
THEOREM TypeCorrect == Spec => []TypeOK
<1>1. TypeOK /\ NameAtHand /\ [Next]_vars => (TypeOK /\ NameAtHand)'
  BY TypeInvariant, HandInductive
<1>2. QED
  BY <1>1, TypeInit, PTL DEF Spec

-----------------------------------------------------------------------------
\* Ids are handed out once and the unique index refuses a second tag of a name
\* (db/schema.rb:163), so that an id or a name tells a tag.
TagKeys ==
  /\ \A g \in tags : g.id <= lastId
  /\ \A g, h \in tags : g.id = h.id => g = h
  /\ \A g, h \in tags : g.tag_name = h.tag_name => g = h

LEMMA TagKeysInductive ==
  ASSUME TypeOK, NameAtHand, TagKeys, [Next]_vars
  PROVE  TagKeys'
<1>0. lastId \in Nat /\ \A g \in tags : g.id \in Nat
  BY DEF TypeOK, Tag
<1>1. ASSUME tags' \subseteq tags, lastId' = lastId \/ lastId' = lastId + 1 PROVE TagKeys'
  <2>1. lastId <= lastId'
    BY <1>0, <1>1
  <2>2. \A g \in tags' : g.id <= lastId'
    BY <1>0, <1>1, <2>1 DEF TagKeys
  <2>3. QED
    BY <1>1, <2>2 DEF TagKeys
<1>2. ASSUME NEW t \in Thread, CreateTag(t) PROVE TagKeys'
  <2>1. CASE tags' = tags /\ lastId' = lastId
    BY <1>1, <2>1
  <2> DEFINE g == [id |-> lastId + 1, tag_name |-> req[t].name]
  <2>2. CASE /\ \A h \in tags : h.tag_name # req[t].name
             /\ lastId' = lastId + 1 /\ tags' = tags \cup {g}
    <3>1. g.id = lastId + 1 /\ g.tag_name = req[t].name
      OBVIOUS
    <3> HIDE DEF g
    <3>2. \A h \in tags : h.id < lastId + 1
      BY <1>0 DEF TagKeys
    <3>3. \A h \in tags' : h.id <= lastId'
      BY <1>0, <2>2, <3>1, <3>2
    <3>4. \A h, k \in tags' : h.id = k.id => h = k
      BY <1>0, <2>2, <3>1, <3>2 DEF TagKeys
    <3>5. \A h, k \in tags' : h.tag_name = k.tag_name => h = k
      BY <2>2, <3>1 DEF TagKeys
    <3>6. QED
      BY <3>3, <3>4, <3>5 DEF TagKeys
  <2>3. QED
    BY <1>2, <2>1, <2>2, CreateTagStep
<1>3. ASSUME NEW t \in Thread, Map(t) PROVE TagKeys'
  <2>1. req[t].name \in Named(req[t].new)
    BY <1>3 DEF Map, NameAtHand
  <2>2. QED
    BY <1>1, <1>3, <2>1, MapStep
<1>4. ASSUME NEW t \in Thread,
             \/ Drop(t) \/ Find(t) \/ Saved(t) \/ Count(t) \/ Collect(t)
             \/ CommitTag(t) \/ CommitPosts(t) \/ Abort(t)
      PROVE  TagKeys'
  <2>1. tags' \subseteq tags /\ lastId' = lastId
    BY <1>4, DropStep, FindStep, SavedStep, CountStep, CollectStep, CommitTagStep,
       CommitPostsStep, AbortStep
  <2>2. QED
    BY <1>1, <2>1
<1>9. ASSUME NEW t \in Thread, NEW p \in Post, FindPost(t, p) PROVE TagKeys'
  BY <1>1, <1>9, FindPostStep
<1>5. ASSUME NEW t \in Thread, NEW form \in Form, SavePosts(t, form) PROVE TagKeys'
  BY <1>1, <1>5, SavePostsStep
<1>6. ASSUME NEW t \in Thread, NEW ps \in SUBSET Post, NEW by \in {"author", "cascade"},
             DestroyPosts(t, ps, by)
      PROVE  TagKeys'
  BY <1>1, <1>6, DestroyPostsStep
<1>7. CASE UNCHANGED vars
  BY <1>1, <1>7 DEF vars
<1>8. QED
  BY <1>9, <1>2, <1>3, <1>4, <1>5, <1>6, <1>7, NextSteps

-----------------------------------------------------------------------------
\* Requests that have met are known to have.
FormsMeetDestroys ==
  \A t, s \in Thread, p \in Post : Saves(t, p) /\ Destroys(s) => p \in contended /\ p \in raced
FormsMeetForms ==
  \A t, s \in Thread, p \in Post : Saves(t, p) /\ Saves(s, p) /\ p \notin contended => s = t
DestroysMeet ==
  \A t, s \in Thread : Destroys(t) /\ Works(s) /\ s # t => req[t].posts \subseteq crowded
FoundPostsRace ==
  \A t, s \in Thread, p \in Post : Found(t, p) /\ Destroys(s) /\ p \in req[s].posts => p \in raced
Meetings == FormsMeetDestroys /\ FormsMeetForms /\ DestroysMeet /\ FoundPostsRace

\* A step of a request that has begun already.
Step(t) ==
  \/ Drop(t) \/ Find(t) \/ CreateTag(t) \/ Map(t) \/ Saved(t)
  \/ Count(t) \/ Collect(t) \/ CommitTag(t) \/ CommitPosts(t) \/ Abort(t)

LEMMA StepKeepsKind ==
  ASSUME TypeOK, NameAtHand, NEW t \in Thread, Step(t)
  PROVE  /\ OthersWait(t) /\ UNCHANGED met /\ req[t] # Idle
         /\ (Works(t)' => Works(t)) /\ \A p : ~Found(t, p)'
         /\ Destroys(t)' => /\ Destroys(t) /\ req'[t].posts = req[t].posts /\ req'[t].by = req[t].by
         /\ \A p : Saves(t, p)' => Saves(t, p)
         /\ req'[t] = Idle \/ (Destroys(t) <=> Destroys(t)')
         /\ \A p : req'[t] = Idle \/ (Saves(t, p) <=> Saves(t, p)')
<1>0. req[t] = Idle <=> req[t].pc = "idle"
  BY RequestKinds
<1>1. CASE req'[t] = Idle
  <2>1. ~Destroys(t)' /\ ~Works(t)' /\ \A p : ~Saves(t, p)' /\ ~Found(t, p)'
    BY <1>1 DEF Idle, Destroys, Works, Saves, Found
  <2>2. /\ OthersWait(t) /\ UNCHANGED met
    <3>1. CASE Map(t)
      <4>1. req[t].name \in Named(req[t].new)
        BY <3>1 DEF Map, NameAtHand
      <4>2. QED
        BY <3>1, <4>1, MapStep
    <3>2. CASE ~Map(t)
      BY <3>2, DropStep, FindStep, CreateTagStep, SavedStep, CountStep, CollectStep, CommitTagStep,
         CommitPostsStep, AbortStep DEF Step
    <3>3. QED
      BY <3>1, <3>2
  <2>3. req[t] # Idle
    BY <1>0 DEF Step, Drop, Find, CreateTag, Map, Saved, Count, Collect, CommitTag, CommitPosts, Abort
  <2>4. QED
    BY <1>1, <2>1, <2>2, <2>3
<1>2. CASE req'[t] # Idle /\ (Drop(t) \/ Find(t) \/ CreateTag(t) \/ Map(t))
  <2>1. /\ req[t].pc \in {"drop", "find", "create", "map"}
        /\ req'[t].pc \in {"drop", "find", "create", "map"}
        /\ FieldsKept(t) /\ OthersWait(t) /\ UNCHANGED met
    <3>1. CASE Map(t)
      <4>1. req[t].name \in Named(req[t].new)
        BY <3>1 DEF Map, NameAtHand
      <4>2. QED
        BY <3>1, <4>1, MapStep
    <3>2. CASE Drop(t) \/ Find(t) \/ CreateTag(t)
      BY <1>2, <3>2, DropStep, FindStep, CreateTagStep DEF Cancelled, Dropping
    <3>3. QED
      BY <1>2, <3>1, <3>2
  <2>2. QED
    BY <1>0, <2>1 DEF Works, Saves, Destroys, FieldsKept, Found
<1>3. CASE req'[t] # Idle /\ (Count(t) \/ Collect(t) \/ CommitTag(t))
  <2>1. /\ req[t] \in Destroying /\ req'[t] \in Destroying
        /\ TargetsKept(t) /\ OthersWait(t) /\ UNCHANGED met
    BY <1>3, CountStep, CollectStep, CommitTagStep DEF TargetsKept
  <2>2. /\ req[t].pc \in {"count", "collect_tag", "commit_tag", "collect_post", "commit_post"}
        /\ req'[t].pc \in {"count", "collect_tag", "commit_tag", "collect_post", "commit_post"}
    BY <2>1, DestroyingFields
  <2>3. QED
    BY <1>0, <2>1, <2>2 DEF Works, Saves, Destroys, TargetsKept, Found
<1>4. req'[t] = Idle \/ ~(Saved(t) \/ CommitPosts(t) \/ Abort(t))
  BY SavedStep, CommitPostsStep, AbortStep DEF Cancelled
<1>5. QED
  BY <1>1, <1>2, <1>3, <1>4 DEF Step

LEMMA NextCases ==
  ASSUME [Next]_vars
  PROVE  \/ \E t \in Thread, p \in Post : FindPost(t, p)
         \/ \E t \in Thread, form \in Form : SavePosts(t, form)
         \/ \E t \in Thread : \E ps \in SUBSET Post : \E by \in {"author", "cascade"} :
              DestroyPosts(t, ps, by)
         \/ \E t \in Thread : Step(t)
         \/ UNCHANGED vars
BY NextSteps DEF Step

LEMMA MeetingsInductive ==
  ASSUME TypeOK, NameAtHand, Meetings, [Next]_vars
  PROVE  Meetings'
<1>1. ASSUME NEW t \in Thread, Step(t) PROVE Meetings'
  <2>1. /\ OthersWait(t) /\ UNCHANGED <<contended, raced, crowded>>
        /\ (Works(t)' => Works(t)) /\ \A p : ~Found(t, p)'
        /\ Destroys(t)' => Destroys(t) /\ req'[t].posts = req[t].posts
        /\ \A p : Saves(t, p)' => Saves(t, p)
    BY <1>1, StepKeepsKind DEF met
  <2>2. \A s \in Thread : /\ Destroys(s)' => Destroys(s) /\ req'[s].posts = req[s].posts
                          /\ \A p : Saves(s, p)' => Saves(s, p)
                          /\ Works(s)' => Works(s)
                          /\ \A p : Found(s, p)' => Found(s, p)
    BY <2>1 DEF OthersWait, Destroys, Saves, Works, Found
  <2>3. FormsMeetDestroys'
    BY <2>1, <2>2 DEF Meetings, FormsMeetDestroys
  <2>4. FormsMeetForms'
    BY <2>1, <2>2 DEF Meetings, FormsMeetForms
  <2>5. DestroysMeet'
    BY <2>1, <2>2 DEF Meetings, DestroysMeet
  <2>6. FoundPostsRace'
    BY <2>1, <2>2 DEF Meetings, FoundPostsRace
  <2>7. QED
    BY <2>3, <2>4, <2>5, <2>6 DEF Meetings
<1>6. ASSUME NEW t \in Thread, NEW p \in Post, FindPost(t, p) PROVE Meetings'
  <2>1. /\ req[t] = Idle /\ OthersWait(t) /\ req'[t].pc = "found" /\ req'[t].post = p
        /\ raced' = raced \cup ({p} \cap Doomed)
        /\ UNCHANGED <<contended, crowded>>
    BY <1>6, FindPostStep
  <2>2. /\ ~Destroys(t)' /\ ~Works(t)' /\ \A q : ~Saves(t, q)'
        /\ \A q : Found(t, q)' => q = p
    BY <2>1 DEF Destroys, Works, Saves, Found
  <2>3. \A s \in Thread : s # t => /\ req'[s] = req[s]
                                   /\ Destroys(s)' <=> Destroys(s)
                                   /\ Works(s)' <=> Works(s)
                                   /\ \A q : Saves(s, q)' <=> Saves(s, q)
                                   /\ \A q : Found(s, q)' <=> Found(s, q)
    BY <2>1 DEF OthersWait, Destroys, Works, Saves, Found
  <2>4. FormsMeetDestroys' /\ FormsMeetForms'
    BY <2>1, <2>2, <2>3 DEF Meetings, FormsMeetDestroys, FormsMeetForms
  <2>5. DestroysMeet'
    BY <2>1, <2>2, <2>3 DEF Meetings, DestroysMeet
  <2>6. FoundPostsRace'
    <3>1. ASSUME NEW u \in Thread, NEW s \in Thread, NEW q \in Post, Found(u, q)', Destroys(s)',
                 q \in req'[s].posts
          PROVE  q \in raced'
      <4>1. s # t /\ Destroys(s) /\ q \in req[s].posts
        BY <2>2, <2>3, <3>1
      <4>2. CASE u = t
        BY <2>1, <2>2, <3>1, <4>1, <4>2 DEF Doomed
      <4>3. CASE u # t
        BY <2>1, <2>3, <3>1, <4>1, <4>3 DEF Meetings, FoundPostsRace
      <4>4. QED
        BY <4>2, <4>3
    <3>2. QED
      BY <3>1 DEF FoundPostsRace
  <2>7. QED
    BY <2>4, <2>5, <2>6 DEF Meetings
<1>2. ASSUME NEW t \in Thread, NEW form \in Form, SavePosts(t, form)
      PROVE  Meetings'
  <2>1. PICK p \in Post :
        /\ req[t].pc = "found" /\ OthersWait(t) /\ req'[t].pc = "drop" /\ req'[t].post = p
        /\ contended' = IF \E s \in Thread : Saves(s, p) \/ Destroys(s)
                        THEN contended \cup {p} ELSE contended \ {p}
        /\ raced' = IF \E s \in Thread : Destroys(s) THEN raced \cup {p} ELSE raced
        /\ crowded' = crowded \cup Doomed
    BY <1>2, SavePostsStep
  <2>2. /\ ~Destroys(t)' /\ ~Destroys(t) /\ \A q : ~Saves(t, q) /\ (Saves(t, q)' <=> q = p)
        /\ \A q : ~Found(t, q)'
    BY <2>1 DEF Destroys, Saves, Found
  <2>3. \A s \in Thread : /\ Destroys(s)' <=> Destroys(s)
                          /\ s # t => req'[s] = req[s] /\ \A q : Saves(s, q)' <=> Saves(s, q)
    BY <2>1, <2>2 DEF OthersWait, Destroys, Saves
  <2>4. FormsMeetDestroys'
    BY <2>1, <2>2, <2>3 DEF Meetings, FormsMeetDestroys
  <2>5. FormsMeetForms'
    BY <2>1, <2>2, <2>3 DEF Meetings, FormsMeetForms
  <2>6. DestroysMeet'
    <3>1. ASSUME NEW s \in Thread, Destroys(s)' PROVE req'[s].posts \subseteq crowded'
      <4>1. s # t /\ Destroys(s) /\ req'[s] = req[s]
        BY <2>2, <2>3, <3>1
      <4>2. req[s].posts \subseteq Post
        BY <4>1, RequestKinds, DestroyingFields
      <4>3. QED
        BY <2>1, <4>1, <4>2 DEF Doomed
    <3>2. QED
      BY <3>1 DEF DestroysMeet
  <2>8. FoundPostsRace'
    <3>1. ASSUME NEW u \in Thread, NEW q \in Post, Found(u, q)' PROVE Found(u, q)
      BY <2>1, <2>2, <3>1 DEF OthersWait, Found
    <3>2. ASSUME NEW s \in Thread, Destroys(s)' PROVE Destroys(s) /\ req'[s] = req[s]
      BY <2>1, <2>2, <3>2 DEF OthersWait, Destroys
    <3>3. raced \subseteq raced'
      BY <2>1
    <3>4. QED
      BY <3>1, <3>2, <3>3 DEF Meetings, FoundPostsRace
  <2>7. QED
    BY <2>4, <2>5, <2>6, <2>8 DEF Meetings
<1>3. ASSUME NEW t \in Thread, NEW ps \in SUBSET Post, NEW by \in {"author", "cascade"},
             DestroyPosts(t, ps, by)
      PROVE  Meetings'
  <2>1. /\ req[t].pc \in {"idle", "found"} /\ OthersWait(t) /\ req'[t].pc \in {"count", "collect_post"}
        /\ req'[t].posts = ps
        /\ contended' = contended \cup Edited
        /\ raced' = raced \cup Edited \cup {p \in ps : \E s \in Thread \ {t} : Found(s, p)}
        /\ crowded' = IF \E s \in Thread : Works(s)
                      THEN crowded \cup Doomed \cup ps ELSE crowded \ ps
    BY <1>3, DestroyPostsStep
  <2>2. Destroys(t)' /\ ~Destroys(t) /\ \A q : ~Saves(t, q) /\ ~Saves(t, q)' /\ ~Found(t, q)'
    BY <2>1 DEF Destroys, Saves, Found
  <2>3. \A s \in Thread : /\ \A q : Saves(s, q)' <=> Saves(s, q)
                          /\ s # t => /\ req'[s] = req[s] /\ (Destroys(s)' <=> Destroys(s))
                                      /\ Works(s)' <=> Works(s)
                                      /\ \A q : Found(s, q)' <=> Found(s, q)
    BY <2>1, <2>2 DEF OthersWait, Destroys, Saves, Works, Found
  <2>4. FormsMeetDestroys'
    BY <2>1, <2>3 DEF FormsMeetDestroys, Edited
  <2>5. FormsMeetForms'
    BY <2>1, <2>3 DEF Meetings, FormsMeetForms
  <2>6. DestroysMeet'
    <3>1. ASSUME NEW s \in Thread, NEW u \in Thread, Destroys(s)', Works(u)', u # s
          PROVE  req'[s].posts \subseteq crowded'
      <4>1. CASE s = t
        BY <2>1, <2>3, <3>1, <4>1
      <4>2. CASE s # t
        <5>1. Destroys(s) /\ req'[s] = req[s]
          BY <2>3, <3>1, <4>2
        <5>2. req[s].posts \subseteq Post /\ Works(s)
          BY <5>1, RequestKinds, DestroyingFields DEF Destroys, Works
        <5>3. QED
          BY <2>1, <5>1, <5>2 DEF Doomed
      <4>3. QED
        BY <4>1, <4>2
    <3>2. QED
      BY <3>1 DEF DestroysMeet
  <2>8. FoundPostsRace'
    <3>1. ASSUME NEW u \in Thread, NEW s \in Thread, NEW q \in Post, Found(u, q)', Destroys(s)',
                 q \in req'[s].posts
          PROVE  q \in raced'
      <4>1. u # t /\ Found(u, q)
        BY <2>2, <2>3, <3>1
      <4>2. CASE s = t
        BY <2>1, <3>1, <4>1, <4>2
      <4>3. CASE s # t
        BY <2>1, <2>3, <3>1, <4>1, <4>3 DEF Meetings, FoundPostsRace
      <4>4. QED
        BY <4>2, <4>3
    <3>2. QED
      BY <3>1 DEF FoundPostsRace
  <2>7. QED
    BY <2>4, <2>5, <2>6, <2>8 DEF Meetings
<1>4. CASE UNCHANGED vars
  BY <1>4 DEF vars, Meetings, FormsMeetDestroys, FormsMeetForms, DestroysMeet,
     FoundPostsRace, Saves, Destroys, Works, Found
<1>5. QED
  BY <1>1, <1>2, <1>3, <1>4, <1>6, NextCases

-----------------------------------------------------------------------------
\* Which step changes what, and where a request comes from.

LEMMA WhoMoves ==
  ASSUME TypeOK, NameAtHand, [Next]_vars, NEW t \in Thread
  PROVE  \/ req'[t] = req[t]
         \/ Step(t)
         \/ /\ req'[t].pc \in {"found", "drop", "count", "collect_post"}
            /\ UNCHANGED <<posts, tags, tagmaps>>
            /\ \A p : Found(t, p)' => p \in posts
            /\ \A p : Saves(t, p)' => Found(t, p)
<1>1. ASSUME NEW s \in Thread, Step(s) PROVE req'[t] = req[t] \/ Step(t)
  BY <1>1, StepKeepsKind DEF OthersWait
<1>2. ASSUME NEW form \in Form, SavePosts(t, form)
      PROVE  /\ req'[t].pc = "drop" /\ UNCHANGED <<posts, tags, tagmaps>>
             /\ \A q : ~Found(t, q)' /\ (Saves(t, q)' => Found(t, q))
  <2>1. PICK p \in Post :
          /\ Found(t, p) /\ req'[t].pc = "drop" /\ req'[t].post = p
          /\ UNCHANGED <<posts, tags, tagmaps>>
    BY <1>2, SavePostsStep
  <2>2. QED
    BY <2>1 DEF Saves, Found
<1>3. ASSUME NEW ps \in SUBSET Post, NEW by \in {"author", "cascade"}, DestroyPosts(t, ps, by)
      PROVE  /\ req'[t].pc \in {"count", "collect_post"} /\ UNCHANGED <<posts, tags, tagmaps>>
             /\ \A q : ~Found(t, q)' /\ ~Saves(t, q)'
  BY <1>3, DestroyPostsStep DEF Saves, Found
<1>4. ASSUME NEW p \in Post, FindPost(t, p)
      PROVE  /\ req'[t].pc = "found" /\ UNCHANGED <<posts, tags, tagmaps>>
             /\ \A q : ~Saves(t, q)' /\ (Found(t, q)' => q \in posts)
  BY <1>4, FindPostStep DEF Saves, Found
<1>5. ASSUME NEW s \in Thread, s # t,
             \/ \E p \in Post : FindPost(s, p)
             \/ \E form \in Form : SavePosts(s, form)
             \/ \E ps \in SUBSET Post : \E by \in {"author", "cascade"} : DestroyPosts(s, ps, by)
      PROVE  req'[t] = req[t]
  <2>1. OthersWait(s)
    <3>1. CASE \E p \in Post : FindPost(s, p)
      BY <3>1, FindPostStep
    <3>2. CASE \E form \in Form : SavePosts(s, form)
      BY <3>2, SavePostsStep
    <3>3. CASE \E ps \in SUBSET Post : \E by \in {"author", "cascade"} : DestroyPosts(s, ps, by)
      BY <3>3, DestroyPostsStep
    <3>4. QED
      BY <1>5, <3>1, <3>2, <3>3
  <2>2. QED
    BY <1>5, <2>1 DEF OthersWait
<1>6. CASE UNCHANGED vars
  BY <1>6 DEF vars
<1>7. QED
  BY <1>1, <1>2, <1>3, <1>4, <1>5, <1>6, NextCases

LEMMA TablesChange ==
  ASSUME TypeOK, NameAtHand, [Next]_vars
  PROVE  /\ \A m \in tagmaps' : m \in tagmaps \/
              \E t \in Thread : /\ Map(t) /\ req[t].pc = "map" /\ UNCHANGED <<posts, tags>>
                                /\ m.post = req[t].post /\ m.tag = req[t].tag
                                /\ m.post \in Post /\ Saves(t, m.post)
         /\ \A g \in tags : g \in tags' \/
              \E t \in Thread : /\ Destroys(t) /\ req[t].pc = "commit_tag" /\ g.id = req[t].tag
                                /\ tagmaps' = tagmaps \ req[t].doomed
         /\ \A g \in tags' : g \in tags \/ g.id = lastId + 1
         /\ \A p \in posts : p \in posts' \/
              \E t \in Thread : /\ Destroys(t) /\ req[t].pc = "commit_post" /\ p \in req[t].posts
                                /\ tagmaps' = tagmaps \ req[t].doomed
<1> DEFINE Rows ==
         \A m \in tagmaps' : m \in tagmaps \/
              \E t \in Thread : /\ Map(t) /\ req[t].pc = "map" /\ UNCHANGED <<posts, tags>>
                                /\ m.post = req[t].post /\ m.tag = req[t].tag
                                /\ m.post \in Post /\ Saves(t, m.post)
           Old == \A g \in tags : g \in tags' \/
              \E t \in Thread : /\ Destroys(t) /\ req[t].pc = "commit_tag" /\ g.id = req[t].tag
                                /\ tagmaps' = tagmaps \ req[t].doomed
           New == \A g \in tags' : g \in tags \/ g.id = lastId + 1
           Left == \A p \in posts : p \in posts' \/
              \E t \in Thread : /\ Destroys(t) /\ req[t].pc = "commit_post" /\ p \in req[t].posts
                                /\ tagmaps' = tagmaps \ req[t].doomed
<1>1. ASSUME tagmaps' \subseteq tagmaps, tags' = tags, posts' = posts
      PROVE  Rows /\ Old /\ New /\ Left
  BY <1>1
<1>2. ASSUME NEW t \in Thread, CreateTag(t) PROVE Rows /\ Old /\ New /\ Left
  <2>1. /\ tags \subseteq tags' /\ posts' = posts /\ tagmaps' = tagmaps
        /\ \A g \in tags' : g \in tags \/ g.id = lastId + 1
    BY <1>2, CreateTagStep
  <2>2. QED
    BY <2>1
<1>3. ASSUME NEW t \in Thread, Map(t) PROVE Rows /\ Old /\ New /\ Left
  <2>1. req[t].name \in Named(req[t].new)
    BY <1>3 DEF Map, NameAtHand
  <2> DEFINE m == [id |-> lastId + 1, post |-> req[t].post, tag |-> req[t].tag]
  <2>2. /\ req[t].pc = "map" /\ req[t] \in Adding /\ UNCHANGED <<posts, tags>>
        /\ tagmaps' = tagmaps \cup {m}
    BY <1>3, <2>1, MapStep
  <2>3. m.post = req[t].post /\ m.tag = req[t].tag
    OBVIOUS
  <2> HIDE DEF m
  <2>4. m.post \in Post /\ Saves(t, m.post)
    BY <2>2, <2>3, AddingFields DEF Saves
  <2>5. QED
    BY <1>3, <2>2, <2>3, <2>4
<1>4. ASSUME NEW t \in Thread, CommitTag(t) PROVE Rows /\ Old /\ New /\ Left
  <2>1. Destroys(t)
    BY <1>4, CommitTagStep, RequestKinds
  <2>2. QED
    BY <1>4, <2>1, CommitTagStep
<1>5. ASSUME NEW t \in Thread, CommitPosts(t) PROVE Rows /\ Old /\ New /\ Left
  <2>1. Destroys(t)
    BY <1>5, CommitPostsStep, RequestKinds
  <2>2. QED
    BY <1>5, <2>1, CommitPostsStep
<1>6. ASSUME NEW t \in Thread,
             Drop(t) \/ Find(t) \/ Saved(t) \/ Count(t) \/ Collect(t) \/ Abort(t)
      PROVE  Rows /\ Old /\ New /\ Left
  <2>1. tagmaps' \subseteq tagmaps /\ tags' = tags /\ posts' = posts
    BY <1>6, DropStep, FindStep, SavedStep, CountStep, CollectStep, AbortStep
  <2>2. QED
    BY <1>1, <2>1
<1>11. ASSUME NEW t \in Thread, NEW p \in Post, FindPost(t, p) PROVE Rows /\ Old /\ New /\ Left
  BY <1>1, <1>11, FindPostStep
<1>7. ASSUME NEW t \in Thread, NEW form \in Form, SavePosts(t, form)
      PROVE  Rows /\ Old /\ New /\ Left
  BY <1>1, <1>7, SavePostsStep
<1>8. ASSUME NEW t \in Thread, NEW ps \in SUBSET Post, NEW by \in {"author", "cascade"},
             DestroyPosts(t, ps, by)
      PROVE  Rows /\ Old /\ New /\ Left
  BY <1>1, <1>8, DestroyPostsStep
<1>9. CASE UNCHANGED vars
  BY <1>1, <1>9 DEF vars
<1>10. QED
  BY <1>2, <1>3, <1>4, <1>5, <1>6, <1>7, <1>8, <1>9, <1>11, NextSteps

\* A post that has raced stays so, and as long as a form or a destroy could mind, a post
\* stays contended.
LEMMA MetStays ==
  ASSUME TypeOK, NameAtHand, [Next]_vars
  PROVE  /\ raced \subseteq raced'
         /\ (\E s \in Thread : Destroys(s)) => contended \subseteq contended'
         /\ \A s \in Thread, p \in contended : Saves(s, p) => p \in contended'
<1>1. ASSUME NEW t \in Thread, Step(t) PROVE UNCHANGED <<contended, raced>>
  BY <1>1, StepKeepsKind DEF met
<1>6. ASSUME NEW t \in Thread, NEW p \in Post, FindPost(t, p)
      PROVE  raced \subseteq raced' /\ contended' = contended
  BY <1>6, FindPostStep
<1>2. ASSUME NEW t \in Thread, NEW form \in Form, SavePosts(t, form)
      PROVE  /\ raced \subseteq raced'
             /\ (\E s \in Thread : Destroys(s)) => contended \subseteq contended'
             /\ \A s \in Thread, q \in contended : Saves(s, q) => q \in contended'
  <2>1. PICK p \in Post :
        /\ contended' = IF \E s \in Thread : Saves(s, p) \/ Destroys(s)
                        THEN contended \cup {p} ELSE contended \ {p}
        /\ raced' = IF \E s \in Thread : Destroys(s) THEN raced \cup {p} ELSE raced
    BY <1>2, SavePostsStep
  <2>2. raced \subseteq raced'
    BY <2>1
  <2>3. (\E s \in Thread : Destroys(s)) => contended \subseteq contended'
    BY <2>1
  <2>4. ASSUME NEW s \in Thread, NEW q \in contended, Saves(s, q) PROVE q \in contended'
    <3>1. CASE q = p
      BY <2>1, <2>4, <3>1
    <3>2. CASE q # p
      BY <2>1, <2>4, <3>2
    <3>3. QED
      BY <3>1, <3>2
  <2>5. QED
    BY <2>2, <2>3, <2>4
<1>3. ASSUME NEW t \in Thread, NEW ps \in SUBSET Post, NEW by \in {"author", "cascade"},
             DestroyPosts(t, ps, by)
      PROVE  raced \subseteq raced' /\ contended \subseteq contended'
  BY <1>3, DestroyPostsStep
<1>4. CASE UNCHANGED vars
  BY <1>4 DEF vars
<1>5. QED
  BY <1>1, <1>2, <1>3, <1>4, <1>6, NextCases

\* What a step of a request leaves in it.
LEMMA StepLeaves ==
  ASSUME TypeOK, NameAtHand, NEW t \in Thread, Step(t)
  PROVE  /\ req'[t].pc = "map" =>
              \E g \in tags' : g.id = req'[t].tag /\ g.tag_name = req'[t].name
         /\ req'[t].pc = "collect_tag" =>
              /\ \A m \in tagmaps' : m.tag = req'[t].tag => m.post \in req'[t].posts
              /\ req[t].pc = "count"
         /\ req'[t].pc = "commit_tag" =>
              /\ req[t].pc = "collect_tag" /\ req'[t].tag = req[t].tag
              /\ req'[t].posts = req[t].posts /\ tagmaps' = tagmaps
              /\ req'[t].doomed = {m \in tagmaps' : m.tag = req'[t].tag}
         /\ req'[t].pc = "commit_post" =>
              req'[t].doomed = {m \in tagmaps' : m.post \in req'[t].posts}
<1>1. CASE req'[t] = Idle \/ req'[t] \in Dropping
  <2>1. req'[t].pc \notin {"map", "collect_tag", "commit_tag", "commit_post"}
    BY <1>1 DEF Idle, Dropping
  <2>2. QED
    BY <2>1
<1>2. CASE Find(t)
  <2>1. req'[t].pc \in {"create", "map"}
    BY <1>2, FindStep, AddingFields
  <2>2. QED
    BY <1>2, <2>1, FindStep
<1>3. CASE CreateTag(t) /\ req'[t] # Idle
  <2> DEFINE g == [id |-> lastId + 1, tag_name |-> req[t].name]
  <2>1. /\ tags' = tags \cup {g} /\ req'[t].name = req[t].name /\ req'[t].pc = "map"
        /\ req'[t].tag = lastId + 1
    BY <1>3, CreateTagStep DEF Cancelled
  <2>2. g.id = lastId + 1 /\ g.tag_name = req[t].name /\ g \in tags'
    BY <2>1
  <2>3. QED
    BY <2>1, <2>2
<1>4. CASE Map(t)
  <2>1. req[t].name \in Named(req[t].new)
    BY <1>4 DEF Map, NameAtHand
  <2>2. QED
    BY <1>1, <1>4, <2>1, MapStep
<1>5. CASE Count(t)
  <2>1. /\ tagmaps' = tagmaps /\ req[t].pc = "count" /\ req'[t].posts = req[t].posts
        /\ \/ req'[t].pc \in {"collect_post", "count"}
           \/ req'[t].pc = "collect_tag" /\ OtherUsers(req[t].posts, req'[t].tag) = {}
    BY <1>5, CountStep DEF TargetsKept
  <2>2. QED
    BY <2>1 DEF OtherUsers
<1>6. CASE Collect(t)
  BY <1>6, CollectStep DEF TargetsKept
<1>7. CASE CommitTag(t)
  BY <1>7, CommitTagStep
<1>8. CASE Drop(t)
  BY <1>1, <1>8, DropStep DEF Cancelled
<1>9. CASE Saved(t) \/ CommitPosts(t) \/ Abort(t)
  BY <1>1, <1>9, SavedStep, CommitPostsStep, AbortStep DEF Cancelled
<1>10. QED
  BY <1>1, <1>2, <1>3, <1>4, <1>5, <1>6, <1>7, <1>8, <1>9 DEF Step

-----------------------------------------------------------------------------
\* Rows and requests refer to what is there, but for forms that have met a destroy, and a
\* destroy knows all rows that go, but for those of such forms.
SavesLive ==
  \A t \in Thread, p \in Post : Found(t, p) \/ Saves(t, p) => p \in posts \/ p \in raced
HeldTags ==
  \A t \in Thread : req[t].pc = "map" =>
    \/ req[t].post \in contended /\ req[t].post \in raced
    \/ \E g \in tags : g.id = req[t].tag /\ g.tag_name = req[t].name
Unused ==
  \A t \in Thread : req[t].pc \in {"collect_tag", "commit_tag"} =>
    \A m \in tagmaps : m.tag = req[t].tag => m.post \in req[t].posts \/ m.post \in contended
DoomedNow ==
  \A t \in Thread :
    /\ req[t].pc = "commit_tag" =>
         /\ \A m \in req[t].doomed : m.tag = req[t].tag
         /\ \A m \in tagmaps : m.tag = req[t].tag => m \in req[t].doomed \/ m.post \in raced
    /\ req[t].pc = "commit_post" =>
         /\ \A m \in req[t].doomed : m.post \in req[t].posts
         /\ \A m \in tagmaps : m.post \in req[t].posts => m \in req[t].doomed \/ m.post \in raced
Whole == TagmapsBelong /\ SavesLive /\ HeldTags /\ Unused /\ DoomedNow

LEMMA BelongInductive ==
  ASSUME TypeOK, NameAtHand, Whole, [Next]_vars
  PROVE  TagmapsBelong'
<1>1. SUFFICES ASSUME NEW m \in tagmaps', m.post \notin raced'
               PROVE  m.post \in posts' /\ \E g \in tags' : g.id = m.tag
  BY DEF TagmapsBelong
<1>2. m.post \notin raced
  BY <1>1, MetStays
<1>3. CASE m \notin tagmaps
  <2>1. PICK t \in Thread : /\ req[t].pc = "map" /\ UNCHANGED <<posts, tags>>
                            /\ m.post = req[t].post /\ m.tag = req[t].tag
                            /\ m.post \in Post /\ Saves(t, m.post)
    BY <1>3, TablesChange
  <2>2. QED
    BY <1>2, <2>1 DEF Whole, SavesLive, HeldTags
<1>4. CASE m \in tagmaps
  <2>1. m.post \in posts
    BY <1>2, <1>4 DEF Whole, TagmapsBelong
  <2>2. PICK g \in tags : g.id = m.tag
    BY <1>2, <1>4 DEF Whole, TagmapsBelong
  <2>3. m.post \in posts'
    <3>1. ASSUME m.post \notin posts'
          PROVE  \E t \in Thread : /\ req[t].pc = "commit_post" /\ m.post \in req[t].posts
                                   /\ tagmaps' = tagmaps \ req[t].doomed
      BY <2>1, <3>1, TablesChange
    <3>2. QED
      BY <1>2, <1>4, <3>1 DEF Whole, DoomedNow
  <2>4. g \in tags'
    <3>1. ASSUME g \notin tags'
          PROVE  \E t \in Thread : /\ req[t].pc = "commit_tag" /\ g.id = req[t].tag
                                   /\ tagmaps' = tagmaps \ req[t].doomed
      BY <2>2, <3>1, TablesChange
    <3>2. QED
      BY <1>2, <1>4, <2>2, <3>1 DEF Whole, DoomedNow
  <2>5. QED
    BY <2>2, <2>3, <2>4
<1>5. QED
  BY <1>3, <1>4

LEMMA SavesLiveInductive ==
  ASSUME TypeOK, NameAtHand, Meetings, SavesLive, [Next]_vars
  PROVE  SavesLive'
<1>1. SUFFICES ASSUME NEW t \in Thread, NEW p \in Post, Found(t, p)' \/ Saves(t, p)'
               PROVE  p \in posts' \/ p \in raced'
  BY DEF SavesLive
<1>2. CASE Found(t, p) \/ Saves(t, p)
  <2>1. p \in posts \/ p \in raced'
    BY <1>2, MetStays DEF SavesLive
  <2>2. ASSUME p \in posts, p \notin posts' PROVE p \in raced'
    <3>1. \E s \in Thread : Destroys(s) /\ p \in req[s].posts
      BY <2>2, TablesChange
    <3>2. QED
      BY <1>2, <3>1, MetStays DEF Meetings, FormsMeetDestroys, FoundPostsRace
  <2>3. QED
    BY <2>1, <2>2
<1>3. CASE ~Found(t, p) /\ ~Saves(t, p)
  <2>1. ~Step(t)
    BY <1>1, <1>3, StepKeepsKind
  <2>2. req'[t] # req[t]
    BY <1>1, <1>3 DEF Found, Saves
  <2>3. p \in posts /\ posts' = posts
    BY <1>1, <1>3, <2>1, <2>2, WhoMoves
  <2>4. QED
    BY <2>3
<1>4. QED
  BY <1>2, <1>3

LEMMA HeldTagsInductive ==
  ASSUME TypeOK, NameAtHand, Meetings, HeldTags, [Next]_vars
  PROVE  HeldTags'
<1>1. SUFFICES ASSUME NEW t \in Thread, req'[t].pc = "map"
               PROVE  \/ req'[t].post \in contended' /\ req'[t].post \in raced'
                      \/ \E g \in tags' : g.id = req'[t].tag /\ g.tag_name = req'[t].name
  BY DEF HeldTags
<1>2. CASE Step(t)
  BY <1>1, <1>2, StepLeaves
<1>3. CASE req'[t] = req[t]
  <2>1. req[t].post \in Post /\ Saves(t, req[t].post)
    BY <1>1, <1>3, RequestKinds, AddingFields DEF Saves
  <2>2. CASE req[t].post \in contended /\ req[t].post \in raced
    BY <1>3, <2>1, <2>2, MetStays
  <2>3. ASSUME NEW g \in tags, g.id = req[t].tag, g.tag_name = req[t].name, g \notin tags'
        PROVE  req'[t].post \in contended' /\ req'[t].post \in raced'
    <3>1. \E s \in Thread : Destroys(s)
      BY <2>3, TablesChange
    <3>2. req[t].post \in contended /\ req[t].post \in raced
      BY <2>1, <3>1 DEF Meetings, FormsMeetDestroys
    <3>3. QED
      BY <1>3, <2>1, <3>2, MetStays
  <2>4. QED
    BY <1>1, <1>3, <2>2, <2>3 DEF HeldTags
<1>4. QED
  BY <1>1, <1>2, <1>3, WhoMoves

LEMMA UnusedInductive ==
  ASSUME TypeOK, NameAtHand, Meetings, Unused, [Next]_vars
  PROVE  Unused'
<1>1. SUFFICES ASSUME NEW t \in Thread, req'[t].pc \in {"collect_tag", "commit_tag"},
                      NEW m \in tagmaps', m.tag = req'[t].tag
               PROVE  m.post \in req'[t].posts \/ m.post \in contended'
  BY DEF Unused
<1>2. CASE Step(t)
  <2>1. CASE req'[t].pc = "collect_tag"
    BY <1>1, <1>2, <2>1, StepLeaves
  <2>2. CASE req'[t].pc = "commit_tag"
    <3>1. /\ req[t].pc = "collect_tag" /\ req'[t].tag = req[t].tag
          /\ req'[t].posts = req[t].posts /\ tagmaps' = tagmaps
      BY <1>2, <2>2, StepLeaves
    <3>2. contended' = contended
      BY <1>2, StepKeepsKind DEF met
    <3>3. QED
      BY <1>1, <3>1, <3>2 DEF Unused
  <2>3. QED
    BY <1>1, <2>1, <2>2
<1>3. CASE req'[t] = req[t]
  <2>1. Destroys(t) /\ contended \subseteq contended'
    BY <1>1, <1>3, MetStays DEF Destroys
  <2>2. CASE m \in tagmaps
    BY <1>1, <1>3, <2>1, <2>2 DEF Unused
  <2>3. CASE m \notin tagmaps
    <3>1. \E s \in Thread : m.post \in Post /\ Saves(s, m.post)
      BY <1>1, <2>3, TablesChange
    <3>2. QED
      BY <2>1, <3>1 DEF Meetings, FormsMeetDestroys
  <2>4. QED
    BY <2>2, <2>3
<1>4. QED
  BY <1>1, <1>2, <1>3, WhoMoves

LEMMA DoomedInductive ==
  ASSUME TypeOK, NameAtHand, Meetings, DoomedNow, [Next]_vars
  PROVE  DoomedNow'
<1>1. SUFFICES ASSUME NEW t \in Thread, req'[t].pc \in {"commit_tag", "commit_post"}
      PROVE  /\ req'[t].pc = "commit_tag" =>
                  /\ \A m \in req'[t].doomed : m.tag = req'[t].tag
                  /\ \A m \in tagmaps' : m.tag = req'[t].tag =>
                       m \in req'[t].doomed \/ m.post \in raced'
             /\ req'[t].pc = "commit_post" =>
                  /\ \A m \in req'[t].doomed : m.post \in req'[t].posts
                  /\ \A m \in tagmaps' : m.post \in req'[t].posts =>
                       m \in req'[t].doomed \/ m.post \in raced'
  BY DEF DoomedNow
<1>2. CASE Step(t)
  BY <1>2, StepLeaves
<1>3. CASE req'[t] = req[t]
  <2>1. Destroys(t)
    BY <1>1, <1>3 DEF Destroys
  <2>2. \A m \in tagmaps' : m \in tagmaps \/ m.post \in raced'
    <3>1. \A m \in tagmaps' : m \in tagmaps \/ \E s \in Thread : m.post \in Post /\ Saves(s, m.post)
      BY TablesChange
    <3>2. QED
      BY <2>1, <3>1, MetStays DEF Meetings, FormsMeetDestroys
  <2>3. raced \subseteq raced'
    BY MetStays
  <2>4. QED
    BY <1>3, <2>2, <2>3 DEF DoomedNow
<1>4. QED
  BY <1>1, <1>2, <1>3, WhoMoves

LEMMA WholeInductive ==
  ASSUME TypeOK, NameAtHand, Meetings, Whole, [Next]_vars
  PROVE  Whole'
BY BelongInductive, SavesLiveInductive, HeldTagsInductive, UnusedInductive, DoomedInductive
   DEF Whole

-----------------------------------------------------------------------------
\* The tags that rows and requests name have been there.
IdsPast ==
  /\ \A m \in tagmaps : m.tag <= lastId
  /\ \A t \in Thread : req[t].pc = "map" => req[t].tag <= lastId

LEMMA IdsPastInductive ==
  ASSUME TypeOK, NameAtHand, TagKeys, TagKeys', IdsPast, [Next]_vars
  PROVE  IdsPast'
<1>0. /\ lastId \in Nat /\ \A m \in tagmaps : m.tag \in Nat
      /\ \A t \in Thread : req[t].pc = "map" => req[t].tag \in Nat
  BY RequestKinds, AddingFields DEF TypeOK, Tagmap
<1>1. lastId' = lastId \/ lastId' = lastId + 1
  <2>1. ASSUME NEW t \in Thread, Step(t) PROVE lastId' = lastId \/ lastId' = lastId + 1
    <3>1. CASE Map(t)
      BY <3>1 DEF Map
    <3>2. QED
      BY <2>1, <3>1, DropStep, FindStep, CreateTagStep, SavedStep, CountStep, CollectStep,
         CommitTagStep, CommitPostsStep, AbortStep DEF Step
  <2>2. QED
    BY <2>1, NextCases, FindPostStep, SavePostsStep, DestroyPostsStep DEF vars
<1>2. \A m \in tagmaps' : m.tag <= lastId'
  <2>1. ASSUME NEW m \in tagmaps', m \notin tagmaps PROVE m.tag <= lastId
    <3>1. \E t \in Thread : req[t].pc = "map" /\ m.tag = req[t].tag
      BY <2>1, TablesChange
    <3>2. QED
      BY <3>1 DEF IdsPast
  <2>2. \A m \in tagmaps' : m.tag <= lastId /\ m.tag \in Nat
    <3>1. ASSUME NEW m \in tagmaps' PROVE m.tag <= lastId /\ m.tag \in Nat
      <4>1. CASE m \in tagmaps
        BY <1>0, <4>1 DEF IdsPast
      <4>2. CASE m \notin tagmaps
        <5>1. \E t \in Thread : req[t].pc = "map" /\ m.tag = req[t].tag
          BY <4>2, TablesChange
        <5>2. QED
          BY <1>0, <2>1, <4>2, <5>1
      <4>3. QED
        BY <4>1, <4>2
    <3>2. QED
      BY <3>1
  <2>3. QED
    BY <1>0, <1>1, <2>2
<1>3. ASSUME NEW t \in Thread, req'[t].pc = "map" PROVE req'[t].tag <= lastId'
  <2>1. CASE Step(t)
    <3>1. \E g \in tags' : g.id = req'[t].tag
      BY <1>3, <2>1, StepLeaves
    <3>2. QED
      BY <3>1 DEF TagKeys
  <2>2. CASE req'[t] = req[t]
    BY <1>0, <1>1, <1>3, <2>2 DEF IdsPast
  <2>3. QED
    BY <1>3, <2>1, <2>2, WhoMoves
<1>4. QED
  BY <1>2, <1>3 DEF IdsPast

-----------------------------------------------------------------------------
\* An author's destroy has a post to destroy, and only an author's has tags to go through.
Authors ==
  \A t \in Thread : Destroys(t) =>
    /\ req[t].by = "author" => req[t].posts # {}
    /\ req[t].by = "cascade" => req[t].pc \in {"collect_post", "commit_post"}

\* A destroy that has met no other request is the only one at work.
Lone(t) == Destroys(t) /\ ~(req[t].posts \subseteq crowded)

\* It knows what goes, and each tag of the post is still to be counted, is used by another
\* post, or is the one being destroyed.
CountedTags(t) ==
  /\ req[t].pc = "commit_tag" => req[t].doomed = {m \in tagmaps : m.tag = req[t].tag}
  /\ req[t].pc = "commit_post" => req[t].doomed = {m \in tagmaps : m.post \in req[t].posts}
  /\ req[t].by = "author" =>
       /\ \A p \in req[t].posts : \A j \in TagsOf(p) :
            \/ j \in req[t].todo
            \/ OtherUsers(req[t].posts, j[2].id) # {}
            \/ req[t].pc \in {"collect_tag", "commit_tag"} /\ j[2].id = req[t].tag
       /\ req[t].pc \in {"collect_post", "commit_post"} => req[t].todo = {}

Counted == \A t \in Thread : Lone(t) => CountedTags(t)

LEMMA AuthorsInductive ==
  ASSUME TypeOK, NameAtHand, Authors, [Next]_vars
  PROVE  Authors'
<1> DEFINE Fine(t) == Destroys(t) =>
             /\ req[t].by = "author" => req[t].posts # {}
             /\ req[t].by = "cascade" => req[t].pc \in {"collect_post", "commit_post"}
<1>1. ASSUME NEW t \in Thread, NEW s \in Thread, Step(s) PROVE Fine(t)'
  <2>1. CASE t # s
    <3>1. req'[t] = req[t]
      BY <1>1, <2>1, StepKeepsKind DEF OthersWait
    <3>2. QED
      BY <3>1 DEF Authors, Destroys
  <2>2. CASE t = s /\ Destroys(s)'
    <3>1. Destroys(s) /\ req'[s].posts = req[s].posts /\ req'[s].by = req[s].by
      BY <1>1, <2>2, StepKeepsKind
    <3>2. Count(s) \/ Collect(s) \/ CommitTag(s)
      <4>1. ~(Drop(s) \/ Find(s) \/ CreateTag(s) \/ Map(s) \/ Saved(s))
        BY <3>1 DEF Destroys, Drop, Find, CreateTag, Map, Saved
      <4>2. req'[s] # Idle
        BY <2>2 DEF Destroys, Idle
      <4>3. QED
        BY <1>1, <4>1, <4>2, CommitPostsStep, AbortStep DEF Step, Cancelled
    <3>3. req[s].pc \in {"collect_post", "commit_post"} =>
            req'[s].pc \in {"collect_post", "commit_post"}
      BY <3>2, CountStep, CollectStep, CommitTagStep
    <3>4. QED
      BY <2>2, <3>1, <3>3 DEF Authors
  <2>3. QED
    BY <2>1, <2>2
<1>2. ASSUME NEW t \in Thread, NEW s \in Thread,
             (\E p \in Post : FindPost(s, p)) \/ \E form \in Form : SavePosts(s, form)
      PROVE  Fine(t)'
  <2>1. OthersWait(s) /\ req'[s].pc \in {"found", "drop"}
    <3>1. CASE \E p \in Post : FindPost(s, p)
      BY <3>1, FindPostStep
    <3>2. CASE \E form \in Form : SavePosts(s, form)
      BY <3>2, SavePostsStep
    <3>3. QED
      BY <1>2, <3>1, <3>2
  <2>2. (t # s => req'[t] = req[t]) /\ ~Destroys(s)'
    BY <2>1 DEF OthersWait, Destroys
  <2>3. QED
    BY <2>2 DEF Authors, Destroys
<1>3. ASSUME NEW t \in Thread, NEW s \in Thread, NEW ps \in SUBSET Post,
             NEW by \in {"author", "cascade"}, DestroyPosts(s, ps, by)
      PROVE  Fine(t)'
  <2>1. t # s => req'[t] = req[t]
    BY <1>3, DestroyPostsStep DEF OthersWait
  <2>2. /\ req'[s].posts = ps /\ req'[s].by = by
        /\ by = "cascade" => req'[s].pc \in {"collect_post", "commit_post"}
    BY <1>3, DestroyPostsStep
  <2>3. by = "author" => ps # {}
    BY <1>3, DestroyPostsStep
  <2>4. QED
    BY <2>1, <2>2, <2>3 DEF Authors, Destroys
<1>4. ASSUME UNCHANGED vars, NEW t \in Thread PROVE Fine(t)'
  BY <1>4 DEF vars, Authors, Destroys
<1>5. QED
  BY <1>1, <1>2, <1>3, <1>4, NextCases DEF Authors

LEMMA CountedAcrossSteps ==
  ASSUME TypeOK, NEW t \in Thread, CountedTags(t),
         Count(t) \/ Collect(t) \/ CommitTag(t)
  PROVE  CountedTags(t)'
<1>1. CASE Count(t)
  <2>1. /\ req[t].pc = "count" /\ req'[t].posts = req[t].posts /\ req'[t].by = req[t].by
        /\ UNCHANGED <<tags, tagmaps>>
    BY <1>1, CountStep DEF TargetsKept
  <2>2. \A p : TagsOf(p)' = TagsOf(p)
    BY <2>1 DEF TagsOf
  <2>3. \A ps, g : OtherUsers(ps, g)' = OtherUsers(ps, g)
    BY <2>1 DEF OtherUsers
  <2>4. CASE req[t].todo = {} /\ req'[t].todo = {} /\ req'[t].pc = "collect_post"
    BY <2>1, <2>2, <2>4 DEF CountedTags, OtherUsers
  <2>5. ASSUME NEW j \in req[t].todo, req'[t].todo = req[t].todo \ {j},
               OtherUsers(req[t].posts, j[2].id) = {},
               req'[t].pc = "collect_tag", req'[t].tag = j[2].id
        PROVE  CountedTags(t)'
    BY <2>1, <2>2, <2>5 DEF CountedTags, OtherUsers
  <2>6. ASSUME NEW j \in req[t].todo, req'[t].todo = req[t].todo \ {j},
               OtherUsers(req[t].posts, j[2].id) # {}, req'[t].pc = "count"
        PROVE  CountedTags(t)'
    BY <2>1, <2>2, <2>6 DEF CountedTags, OtherUsers
  <2>7. QED
    BY <1>1, <2>4, <2>5, <2>6, CountStep
<1>2. CASE Collect(t)
  <2>1. /\ req'[t].posts = req[t].posts /\ req'[t].by = req[t].by /\ req'[t].todo = req[t].todo
        /\ \/ /\ req[t].pc = "collect_tag" /\ req'[t].pc = "commit_tag"
              /\ req'[t].tag = req[t].tag
              /\ req'[t].doomed = {m \in tagmaps : m.tag = req[t].tag}
           \/ /\ req[t].pc = "collect_post" /\ req'[t].pc = "commit_post"
              /\ req'[t].doomed = {m \in tagmaps : m.post \in req[t].posts}
        /\ UNCHANGED <<tags, tagmaps>>
    BY <1>2, CollectStep DEF TargetsKept
  <2>2. \A p : TagsOf(p)' = TagsOf(p)
    BY <2>1 DEF TagsOf
  <2>3. QED
    BY <2>1, <2>2 DEF CountedTags, OtherUsers
<1>3. CASE CommitTag(t)
  <2>1. /\ req'[t].posts = req[t].posts /\ req'[t].by = req[t].by /\ req'[t].todo = req[t].todo
        /\ req[t].pc = "commit_tag" /\ req'[t].pc = "count"
        /\ tagmaps' = tagmaps \ req[t].doomed /\ tags' = {g \in tags : g.id # req[t].tag}
    BY <1>3, CommitTagStep DEF TargetsKept
  <2>2. tagmaps' = {m \in tagmaps : m.tag # req[t].tag}
    BY <2>1 DEF CountedTags
  <2>3. ASSUME NEW p, NEW j, j \in TagsOf(p)'
        PROVE  j \in TagsOf(p) /\ j[2].id # req[t].tag
    BY <2>1, <2>2, <2>3 DEF TagsOf
  <2>4. ASSUME NEW g, g # req[t].tag, OtherUsers(req[t].posts, g) # {}
        PROVE  \E m \in tagmaps' : m.tag = g /\ m.post \notin req'[t].posts
    BY <2>1, <2>2, <2>4 DEF OtherUsers
  <2>5. ASSUME req[t].by = "author", NEW p \in req[t].posts, NEW j, j \in TagsOf(p)'
        PROVE  j \in req'[t].todo \/ \E m \in tagmaps' : m.tag = j[2].id /\ m.post \notin req'[t].posts
    <3>1. j \in TagsOf(p) /\ j[2].id # req[t].tag
      BY <2>3, <2>5
    <3>2. j \in req[t].todo \/ OtherUsers(req[t].posts, j[2].id) # {}
      BY <2>5, <3>1 DEF CountedTags
    <3>3. QED
      BY <2>1, <2>4, <3>1, <3>2
  <2>6. QED
    BY <2>1, <2>5 DEF CountedTags, OtherUsers
<1>4. QED
  BY <1>1, <1>2, <1>3

LEMMA CountedInductive ==
  ASSUME TypeOK, NameAtHand, Meetings, Authors, Counted, [Next]_vars
  PROVE  Counted'
<1>1. SUFFICES ASSUME NEW s \in Thread, Lone(s)' PROVE CountedTags(s)'
  BY DEF Counted
<1>8. ASSUME NEW t \in Thread, Abort(t) PROVE CountedTags(s)'
  <2>1. OthersWait(t) /\ req'[t] = Idle /\ UNCHANGED <<tags, tagmaps, crowded>>
    BY <1>8, AbortStep DEF Cancelled, met
  <2>2. Destroys(s) /\ req'[s] = req[s]
    BY <1>1, <2>1 DEF Lone, OthersWait, Destroys, Idle
  <2>3. CountedTags(s)
    BY <1>1, <2>1, <2>2 DEF Lone, Counted
  <2>4. \A q : TagsOf(q)' = TagsOf(q)
    BY <2>1 DEF TagsOf
  <2>5. QED
    BY <2>1, <2>2, <2>3, <2>4 DEF CountedTags, OtherUsers
<1>2. ASSUME NEW t \in Thread, Step(t), ~Abort(t) PROVE CountedTags(s)'
  <2>0. Works(t)
    BY <1>2 DEF Works, Step, Drop, Find, CreateTag, Map, Saved, Count, Collect, CommitTag,
       CommitPosts
  <2>1. /\ OthersWait(t) /\ crowded' = crowded /\ Works(t)
        /\ Destroys(t)' => Destroys(t) /\ req'[t].posts = req[t].posts
    BY <1>2, <2>0, StepKeepsKind DEF met
  <2>2. Destroys(s) /\ req'[s].posts = req[s].posts
    BY <1>1, <2>1 DEF Lone, OthersWait, Destroys
  <2>3. Lone(s) /\ s = t
    BY <1>1, <2>1, <2>2 DEF Lone, Meetings, DestroysMeet
  <2>4. Count(t) \/ Collect(t) \/ CommitTag(t)
    <3>1. ~(Drop(t) \/ Find(t) \/ CreateTag(t) \/ Map(t) \/ Saved(t))
      BY <2>2, <2>3 DEF Destroys, Drop, Find, CreateTag, Map, Saved
    <3>2. req'[t] # Idle
      BY <1>1, <2>3 DEF Lone, Destroys, Idle
    <3>3. ~CommitPosts(t)
      BY <3>2, CommitPostsStep
    <3>4. QED
      BY <1>2, <3>1, <3>3 DEF Step
  <2>5. QED
    BY <2>3, <2>4, CountedAcrossSteps DEF Counted
<1>7. ASSUME NEW t \in Thread, NEW p \in Post, FindPost(t, p) PROVE CountedTags(s)'
  <2>1. /\ OthersWait(t) /\ req'[t].pc = "found" /\ UNCHANGED <<tags, tagmaps, crowded>>
    BY <1>7, FindPostStep
  <2>2. Destroys(s) /\ req'[s] = req[s]
    BY <1>1, <2>1 DEF Lone, OthersWait, Destroys
  <2>3. CountedTags(s)
    BY <1>1, <2>1, <2>2 DEF Lone, Counted
  <2>4. \A q : TagsOf(q)' = TagsOf(q)
    BY <2>1 DEF TagsOf
  <2>5. QED
    BY <2>1, <2>2, <2>3, <2>4 DEF CountedTags, OtherUsers
<1>3. ASSUME NEW t \in Thread, NEW form \in Form, SavePosts(t, form)
      PROVE  CountedTags(s)'
  <2>1. OthersWait(t) /\ req'[t].pc = "drop" /\ crowded' = crowded \cup Doomed
    BY <1>3, SavePostsStep
  <2>2. Destroys(s) /\ req'[s] = req[s]
    BY <1>1, <2>1 DEF Lone, OthersWait, Destroys
  <2>3. req[s].posts \subseteq Post
    BY <2>2, RequestKinds, DestroyingFields
  <2>4. ~Lone(s)'
    BY <2>1, <2>2, <2>3 DEF Lone, Doomed
  <2>5. QED
    BY <1>1, <2>4
<1>4. ASSUME NEW t \in Thread, NEW ps \in SUBSET Post, NEW by \in {"author", "cascade"},
             DestroyPosts(t, ps, by)
      PROVE  CountedTags(s)'
  <2>1. /\ OthersWait(t)
        /\ crowded' = IF \E x \in Thread : Works(x)
                      THEN crowded \cup Doomed \cup ps ELSE crowded \ ps
        /\ req'[t].posts = ps /\ req'[t].by = by /\ req'[t].pc \in {"count", "collect_post"}
        /\ by = "author" <=> req'[t].pc = "count"
        /\ \A p \in ps : TagsOf(p) \subseteq req'[t].todo
        /\ UNCHANGED <<tags, tagmaps>>
    BY <1>4, DestroyPostsStep
  <2>2. s = t
    <3>1. CASE \A x \in Thread : ~Works(x)
      <4>1. ~Destroys(s)
        BY <3>1 DEF Destroys, Works
      <4>2. QED
        BY <1>1, <2>1, <4>1 DEF Lone, OthersWait, Destroys
    <3>2. CASE \E x \in Thread : Works(x)
      <4>1. ASSUME s # t PROVE req'[s].posts \subseteq crowded'
        <5>1. Destroys(s) /\ req'[s] = req[s]
          BY <1>1, <2>1, <4>1 DEF Lone, OthersWait, Destroys
        <5>2. req[s].posts \subseteq Post
          BY <5>1, RequestKinds, DestroyingFields
        <5>3. QED
          BY <2>1, <3>2, <5>1, <5>2 DEF Doomed
      <4>2. QED
        BY <1>1, <4>1 DEF Lone
    <3>3. QED
      BY <3>1, <3>2
  <2>3. \A p : TagsOf(p)' = TagsOf(p)
    BY <2>1 DEF TagsOf
  <2>4. QED
    BY <2>1, <2>2, <2>3 DEF CountedTags
<1>5. CASE UNCHANGED vars
  <2>1. \A p : TagsOf(p)' = TagsOf(p)
    BY <1>5 DEF TagsOf, vars
  <2>2. CountedTags(s)
    BY <1>1, <1>5 DEF vars, Counted, Lone, Destroys
  <2>3. QED
    BY <1>5, <2>1, <2>2 DEF vars, CountedTags, OtherUsers
<1>6. QED
  BY <1>2, <1>3, <1>4, <1>5, <1>7, <1>8, NextCases

\* What holds of every state whatever the requests do.
TagInv == TypeOK /\ NameAtHand /\ TagKeys /\ Meetings /\ Whole /\ IdsPast /\ Authors /\ Counted

LEMMA TagInvHolds ==
  /\ Init => TagInv
  /\ TagInv /\ [Next]_vars => TagInv'
<1>1. ASSUME Init PROVE TagInv
  <2>1. TypeOK /\ NameAtHand
    BY <1>1, TypeInit
  <2>2. \A t \in Thread : req[t].pc = "idle"
    BY <1>1 DEF Init, Idle
  <2>3. \A t \in Thread : ~Destroys(t) /\ \A p : ~Saves(t, p) /\ ~Found(t, p)
    BY <2>2 DEF Destroys, Saves, Found
  <2>4. tagmaps = {} /\ tags = {}
    BY <1>1 DEF Init
  <2>5. Meetings /\ Authors /\ Counted
    BY <2>3 DEF Meetings, FormsMeetDestroys, FormsMeetForms, DestroysMeet, FoundPostsRace,
       Authors, Counted, Lone
  <2>6. Whole
    BY <2>2, <2>3, <2>4 DEF Whole, TagmapsBelong, SavesLive, HeldTags, Unused, DoomedNow
  <2>7. TagKeys /\ IdsPast
    BY <2>2, <2>4 DEF TagKeys, IdsPast
  <2>8. QED
    BY <2>1, <2>5, <2>6, <2>7 DEF TagInv
<1>2. ASSUME TagInv, [Next]_vars PROVE TagInv'
  BY <1>2, TypeInvariant, HandInductive, TagKeysInductive, MeetingsInductive, WholeInductive,
     IdsPastInductive, AuthorsInductive, CountedInductive DEF TagInv
<1>3. QED
  BY <1>1, <1>2

\* Every tagmap is one of a post and a tag that are there, however forms interleave and
\* wherever they are cut short, but for the posts of which a form has met a destroy
\* (tagmap.rb:2-3).
THEOREM Belong == Spec => []TagmapsBelong
<1>1. TagInv => TagmapsBelong
  BY DEF TagInv, Whole
<1>2. QED
  BY <1>1, TagInvHolds, PTL DEF Spec

\* When an author has deleted a post and no other request was saving or destroying, each of its
\* tags is gone or on another post that is there, unless a tagmap of a gone post kept clean_tag
\* from destroying it (post.rb:57-63, posts_controller.rb:99-104).
THEOREM NoOrphans == Spec => AuthorLeavesNoOrphan
<1>1. ASSUME TagInv, [Next]_vars, NEW t \in Thread, req[t].pc = "commit_post",
             req[t].by = "author", req[t].posts \cap crowded = {}, posts' # posts,
             NEW m \in req[t].doomed, NEW g \in tags', g.id = m.tag,
             \A n \in tagmaps : n.tag = g.id => n.post \in posts
      PROVE  \E n \in tagmaps' : n.tag = g.id /\ n.post \in posts'
  <2>1. Destroys(t)
    BY <1>1 DEF Destroys
  <2>2. Lone(t)
    BY <1>1, <2>1 DEF TagInv, Authors, Lone
  <2>3. CommitPosts(t)
    <3>1. \A s \in Thread : Works(s) => s = t
      BY <1>1, <2>2 DEF TagInv, Meetings, DestroysMeet, Lone
    <3>2. \E s \in Thread : CommitPosts(s)
      <4>1. ASSUME NEW s \in Thread, Step(s), ~CommitPosts(s) PROVE posts' = posts
        BY <4>1 DEF Step, Drop, Find, CreateTag, Map, Saved, Count, Collect, CommitTag, Abort
      <4>2. QED
        BY <1>1, <4>1, NextCases, FindPostStep, SavePostsStep, DestroyPostsStep DEF TagInv, vars
    <3>3. \A s \in Thread : CommitPosts(s) => Works(s)
      BY DEF CommitPosts, Works
    <3>4. QED
      BY <3>1, <3>2, <3>3
  <2>4. /\ tags' = tags /\ tagmaps' = tagmaps \ req[t].doomed
        /\ posts' = posts \ req[t].posts
    BY <2>3 DEF CommitPosts
  <2>5. CountedTags(t)
    BY <1>1, <2>2 DEF TagInv, Counted
  <2>6. req[t].doomed = {n \in tagmaps : n.post \in req[t].posts}
    BY <1>1, <2>5 DEF CountedTags
  <2>7. m \in tagmaps /\ m.post \in req[t].posts /\ g \in tags
    BY <1>1, <2>4, <2>6
  <2>8. <<m, g>> \in TagsOf(m.post) /\ <<m, g>>[2] = g
    BY <1>1, <2>7 DEF TagsOf
  <2>9. OtherUsers(req[t].posts, g.id) # {}
    BY <1>1, <2>5, <2>7, <2>8 DEF CountedTags
  <2>10. QED
    BY <1>1, <2>4, <2>6, <2>9 DEF OtherUsers
<1>2. TagInv /\ [Next]_vars =>
        [\A t \in Thread :
           /\ req[t].pc = "commit_post" /\ req[t].by = "author"
           /\ req[t].posts \cap crowded = {} /\ posts' # posts
           => \A m \in req[t].doomed : \A g \in tags' :
                g.id = m.tag /\ (\A n \in tagmaps : n.tag = g.id => n.post \in posts)
                => \E n \in tagmaps' : n.tag = g.id /\ n.post \in posts']_vars
  BY <1>1
<1>3. QED
  BY <1>2, TagInvHolds, PTL DEF Spec, AuthorLeavesNoOrphan

-----------------------------------------------------------------------------
\* What a form is about to make of the names of its post.
OldNames(t) == IF req[t].pc = "drop" THEN {j[2].tag_name : j \in req[t].old} ELSE {}
Underway(t, p) ==
  /\ NamesOf(p) \subseteq Named(req[t].form) \cup OldNames(t)
  /\ Named(req[t].form) \subseteq NamesOf(p) \cup Named(req[t].new)
  /\ Named(req[t].new) \subseteq Named(req[t].form)
  /\ OldNames(t) \cap Named(req[t].form) = {}

Shown(p) ==
  p \in posts /\ claim[p].known /\ (\A t \in Thread : ~Piecemeal(t, p))
    => NamesOf(p) = claim[p].names

ShowPart(p) == Shown(p) /\ \A s \in Thread : Saves(s, p) => Underway(s, p)
TagShow == \A p \in Post \ contended : ShowPart(p)

\* A step that leaves the names of p and is not one of a form about p.
LEMMA ShowQuiet ==
  ASSUME NEW p \in Post, NEW t \in Thread, OthersWait(t), NamesOf(p)' = NamesOf(p),
         Shown(p), \A s \in Thread : Saves(s, p) => Underway(s, p),
         ~Saves(t, p), ~Saves(t, p)',
         p \in posts' => p \in posts,
         p \in posts' /\ claim'[p].known =>
           claim[p].known /\ claim'[p].names = claim[p].names /\ (Piecemeal(t, p) => Piecemeal(t, p)')
  PROVE  Shown(p)' /\ \A s \in Thread : Saves(s, p)' => Underway(s, p)'
<1>1. \A s \in Thread : s # t => /\ Saves(s, p)' <=> Saves(s, p)
                                 /\ Piecemeal(s, p)' <=> Piecemeal(s, p)
  BY DEF OthersWait, Saves, Piecemeal, Destroys
<1>2. Shown(p)'
  <2>1. SUFFICES ASSUME p \in posts', claim'[p].known, \A s \in Thread : ~Piecemeal(s, p)'
                 PROVE  NamesOf(p)' = claim'[p].names
    BY DEF Shown
  <2>2. \A s \in Thread : ~Piecemeal(s, p)
    BY <1>1, <2>1
  <2>3. QED
    BY <2>1, <2>2 DEF Shown
<1>3. ASSUME NEW s \in Thread, Saves(s, p)' PROVE Underway(s, p)'
  <2>1. s # t /\ Saves(s, p) /\ req'[s] = req[s]
    BY <1>1, <1>3 DEF OthersWait
  <2>2. Underway(s, p)
    BY <2>1
  <2>3. OldNames(s)' = OldNames(s)
    BY <2>1 DEF OldNames
  <2>4. QED
    BY <2>1, <2>2, <2>3 DEF Underway
<1>4. QED
  BY <1>2, <1>3

\* A step of the only form about p.
LEMMA ShowUnderway ==
  ASSUME NEW p \in Post, NEW t \in Thread, OthersWait(t), Saves(t, p), Saves(t, p)',
         \A s \in Thread : Saves(s, p) => s = t, Underway(t, p)'
  PROVE  Shown(p)' /\ \A s \in Thread : Saves(s, p)' => Underway(s, p)'
<1>1. \A s \in Thread : Saves(s, p)' => s = t
  BY DEF OthersWait, Saves
<1>2. Shown(p)'
  BY DEF Shown, Piecemeal
<1>3. QED
  BY <1>1, <1>2

\* The end of the only form about p.
LEMMA ShowEnds ==
  ASSUME NEW p \in Post, NEW t \in Thread, OthersWait(t), Saves(t, p), req'[t] = Idle,
         \A s \in Thread : Saves(s, p) => s = t,
         claim'[p].known => NamesOf(p)' = claim'[p].names
  PROVE  Shown(p)' /\ \A s \in Thread : Saves(s, p)' => Underway(s, p)'
<1>1. \A s \in Thread : ~Saves(s, p)'
  BY DEF OthersWait, Saves, Idle
<1>2. QED
  BY <1>1 DEF Shown

\* The names of a post hang on its own tagmaps only.
LEMMA NamesStay ==
  ASSUME TypeOK, NEW p \in Post,
         \A m \in tagmaps, g \in tags : m.post = p /\ g.id = m.tag => g \in tags',
         \A m \in tagmaps, g \in tags' : m.post = p /\ g.id = m.tag => g \in tags,
         \A m \in tagmaps' : m.post = p => m \in tagmaps,
         \A m \in tagmaps : m.post = p => m \in tagmaps'
  PROVE  NamesOf(p)' = NamesOf(p)
<1>1. \A x : x \in NamesOf(p) <=>
        \E m \in tagmaps, g \in tags : m.post = p /\ m.tag = g.id /\ x = g.tag_name
  BY JoinsAreRows
<1>2. \A x : x \in NamesOf(p)' <=>
        \E m \in tagmaps', g \in tags' : m.post = p /\ m.tag = g.id /\ x = g.tag_name
  BY NamesThen
<1>3. ASSUME NEW m \in tagmaps', NEW g \in tags', m.post = p, m.tag = g.id
      PROVE  m \in tagmaps /\ g \in tags
  BY <1>3
<1>4. \A x : x \in NamesOf(p)' <=> x \in NamesOf(p)
  BY <1>1, <1>2, <1>3
<1>5. QED
  BY <1>4

\* Nothing is lost or promised where a request fails.
LEMMA ShowCancelled ==
  ASSUME NEW p \in Post, NEW t \in Thread, OthersWait(t), Cancelled(t), posts' = posts,
         NamesOf(p)' = NamesOf(p), Shown(p), \A s \in Thread : Saves(s, p) => Underway(s, p),
         \A s \in Thread : Saves(t, p) /\ Saves(s, p) => s = t
  PROVE  Shown(p)' /\ \A s \in Thread : Saves(s, p)' => Underway(s, p)'
<1>1. /\ req'[t] = Idle /\ claim'[p].names = claim[p].names
      /\ claim'[p].known => claim[p].known /\ ~Piecemeal(t, p)
  BY DEF Cancelled
<1>2. CASE Saves(t, p)
  <2>1. ~claim'[p].known
    BY <1>1, <1>2 DEF Piecemeal
  <2>2. QED
    BY <1>1, <1>2, <2>1, ShowEnds
<1>3. CASE ~Saves(t, p)
  <2>1. ~Saves(t, p)'
    BY <1>1 DEF Saves, Idle
  <2>2. QED
    BY <1>1, <1>3, <2>1, ShowQuiet
<1>4. QED
  BY <1>2, <1>3

\* A step of a form about another post than p.
LEMMA ShowOther ==
  ASSUME NEW p \in Post, NEW t \in Thread, OthersWait(t), posts' = posts,
         NamesOf(p)' = NamesOf(p), Shown(p), \A s \in Thread : Saves(s, p) => Underway(s, p),
         ~Saves(t, p), ~Saves(t, p)', ~Destroys(t),
         claim'[p] = claim[p]
  PROVE  Shown(p)' /\ \A s \in Thread : Saves(s, p)' => Underway(s, p)'
<1>1. ~Piecemeal(t, p)
  BY DEF Piecemeal
<1>2. QED
  BY <1>1, ShowQuiet

LEMMA ShowAcrossDrop ==
  ASSUME TypeOK, TagKeys, NEW p \in Post, ShowPart(p),
         NEW t \in Thread, \A s \in Thread : Saves(t, p) /\ Saves(s, p) => s = t, Drop(t)
  PROVE  ShowPart(p)'
<1>1. /\ req[t].pc = "drop" /\ OthersWait(t) /\ UNCHANGED <<posts, tags>> /\ ~Destroys(t)
  BY DropStep DEF Destroys
<1>2. /\ \A g, h \in tags : g.id = h.id => g = h
      /\ \A g, h \in tags : g.tag_name = h.tag_name => g = h
  BY DEF TagKeys
<1>3. CASE Cancelled(t) /\ tagmaps' = tagmaps
  <2>1. NamesOf(p)' = NamesOf(p)
    BY <1>1, <1>3 DEF NamesOf, TagsOf
  <2>2. QED
    BY <1>1, <1>3, <2>1, ShowCancelled DEF ShowPart
<1>4. ASSUME NEW j \in req[t].old, NEW g \in tags,
             g.tag_name = j[2].tag_name,
             tagmaps' = {m \in tagmaps : ~(m.post = req[t].post /\ m.tag = g.id)},
             req'[t].pc = "drop", FieldsKept(t),
             req'[t].old = req[t].old \ {j}, req'[t].new = req[t].new,
             claim' = claim
      PROVE  ShowPart(p)'
  <2>1. CASE req[t].post # p
    <3>1. NamesOf(p)' = NamesOf(p)
      BY <1>1, <1>2, <1>4, <2>1, NamesStay
    <3>2. ~Saves(t, p) /\ ~Saves(t, p)'
      BY <1>4, <2>1 DEF Saves, FieldsKept
    <3>3. QED
      BY <1>1, <1>4, <3>1, <3>2, ShowOther DEF ShowPart
  <2>2. CASE req[t].post = p
    <3>1. Saves(t, p) /\ Saves(t, p)' /\ req'[t].form = req[t].form
      BY <1>1, <1>4, <2>2 DEF Saves, FieldsKept
    <3>2. Underway(t, p)
      BY <3>1 DEF ShowPart
    <3>3. \A x : x \in NamesOf(p)' => x \in NamesOf(p) /\ x # g.tag_name
      <4>1. ASSUME NEW m \in tagmaps', NEW h \in tags, m.post = p, m.tag = h.id
            PROVE  m \in tagmaps /\ h.tag_name # g.tag_name
        BY <1>2, <1>4, <2>2, <4>1
      <4>2. QED
        BY <1>1, <4>1, JoinsAreRows, NamesThen
    <3>4. \A x : x \in NamesOf(p) /\ x # g.tag_name => x \in NamesOf(p)'
      <4>1. ASSUME NEW m \in tagmaps, NEW h \in tags, m.post = p, m.tag = h.id,
                   h.tag_name # g.tag_name
            PROVE  m \in tagmaps'
        BY <1>2, <1>4, <2>2, <4>1
      <4>2. QED
        BY <1>1, <4>1, JoinsAreRows, NamesThen
    <3>5. OldNames(t) = {k[2].tag_name : k \in req[t].old}
      BY <1>1 DEF OldNames
    <3>6. OldNames(t)' = {k[2].tag_name : k \in req[t].old \ {j}}
      BY <1>4 DEF OldNames
    <3>7. /\ g.tag_name \in OldNames(t)
          /\ OldNames(t)' \subseteq OldNames(t)
          /\ \A x \in OldNames(t) : x = g.tag_name \/ x \in OldNames(t)'
      BY <1>4, <3>5, <3>6
    <3>8. Underway(t, p)'
      BY <1>4, <3>1, <3>2, <3>3, <3>4, <3>7 DEF Underway, Named
    <3>9. QED
      BY <1>1, <3>1, <3>8, ShowUnderway DEF ShowPart
  <2>3. QED
    BY <2>1, <2>2
<1>5. QED
  BY <1>3, <1>4, DropStep

LEMMA ShowAcrossAdding ==
  ASSUME TypeOK, TagKeys, IdsPast, HeldTags, NameAtHand,
         NEW p \in Post, p \notin contended, ShowPart(p),
         NEW t \in Thread, \A s \in Thread : Saves(t, p) /\ Saves(s, p) => s = t,
         Find(t) \/ CreateTag(t) \/ Map(t) \/ Saved(t)
  PROVE  ShowPart(p)'
<1>0. ~Destroys(t)
  BY DEF Find, CreateTag, Map, Saved, Destroys
<1>1. \A g, h \in tags : g.id = h.id => g = h
  BY DEF TagKeys
<1>2. CASE Find(t)
  <2>1. /\ req[t].pc \in {"drop", "find"} /\ (req[t].pc = "drop" => req[t].old = {}) /\ OthersWait(t)
        /\ req'[t].pc \in {"create", "map"} /\ FieldsKept(t) /\ req'[t].new = req[t].new
        /\ UNCHANGED <<posts, tags, tagmaps, claim>>
    BY <1>2, FindStep, DroppingFields
  <2>2. NamesOf(p)' = NamesOf(p)
    BY <2>1 DEF NamesOf, TagsOf
  <2>3. CASE req[t].post # p
    <3>1. ~Saves(t, p) /\ ~Saves(t, p)'
      BY <2>1, <2>3 DEF Saves, FieldsKept
    <3>2. QED
      BY <1>0, <2>1, <2>2, <3>1, ShowOther DEF ShowPart
  <2>4. CASE req[t].post = p
    <3>1. Saves(t, p) /\ Saves(t, p)'
      BY <2>1, <2>4 DEF Saves, FieldsKept
    <3>2. OldNames(t) = {} /\ OldNames(t)' = {}
      BY <2>1 DEF OldNames
    <3>3. Underway(t, p)'
      BY <2>1, <2>2, <3>1, <3>2 DEF ShowPart, Underway, FieldsKept, Named
    <3>4. QED
      BY <2>1, <3>1, <3>3, ShowUnderway DEF ShowPart
  <2>5. QED
    BY <2>3, <2>4
<1>3. CASE CreateTag(t)
  <2>1. /\ req[t].pc = "create" /\ OthersWait(t) /\ UNCHANGED <<posts, tagmaps>>
    BY <1>3, CreateTagStep
  <2>2. CASE Cancelled(t) /\ tags' = tags
    <3>1. NamesOf(p)' = NamesOf(p)
      BY <2>1, <2>2 DEF NamesOf, TagsOf
    <3>2. QED
      BY <2>1, <2>2, <3>1, ShowCancelled DEF ShowPart
  <2> DEFINE new == [id |-> lastId + 1, tag_name |-> req[t].name]
  <2>3. CASE /\ tags' = tags \cup {new} /\ req'[t].pc = "map" /\ FieldsKept(t)
             /\ req'[t].new = req[t].new /\ claim' = claim
    <3>1. new.id = lastId + 1
      OBVIOUS
    <3>2. \A m \in tagmaps : m.tag # new.id
      <4>1. lastId \in Nat /\ \A m \in tagmaps : m.tag \in Nat /\ m.tag <= lastId
        BY DEF TypeOK, Tagmap, IdsPast
      <4>2. QED
        BY <3>1, <4>1
    <3> HIDE DEF new
    <3>3. /\ \A g \in tags : g \in tags'
          /\ \A m \in tagmaps, g \in tags' : g.id = m.tag => g \in tags
      BY <2>3, <3>2
    <3>4. NamesOf(p)' = NamesOf(p)
      BY <2>1, <3>3, NamesStay
    <3>5. CASE req[t].post # p
      <4>1. ~Saves(t, p) /\ ~Saves(t, p)'
        BY <2>3, <3>5 DEF Saves, FieldsKept
      <4>2. QED
        BY <1>0, <2>1, <2>3, <3>4, <4>1, ShowOther DEF ShowPart
    <3>6. CASE req[t].post = p
      <4>1. Saves(t, p) /\ Saves(t, p)'
        BY <2>1, <2>3, <3>6 DEF Saves, FieldsKept
      <4>2. OldNames(t) = {} /\ OldNames(t)' = {}
        BY <2>1, <2>3 DEF OldNames
      <4>3. Underway(t, p)'
        BY <2>3, <3>4, <4>1, <4>2 DEF ShowPart, Underway, FieldsKept, Named
      <4>4. QED
        BY <2>1, <4>1, <4>3, ShowUnderway DEF ShowPart
    <3>7. QED
      BY <3>5, <3>6
  <2>4. QED
    BY <1>3, <2>2, <2>3, CreateTagStep
<1>4. CASE Map(t)
  <2> DEFINE new == [id |-> lastId + 1, post |-> req[t].post, tag |-> req[t].tag]
  <2>0. req[t].name \in Named(req[t].new)
    BY <1>4 DEF Map, NameAtHand
  <2>1. /\ req[t].pc = "map" /\ OthersWait(t)
        /\ tagmaps' = tagmaps \cup {new}
        /\ req'[t].pc = "find" /\ FieldsKept(t) /\ req'[t].old = {}
        /\ \A x \in Named(req[t].new) : x = req[t].name \/ x \in Named(req'[t].new)
        /\ \A x \in Named(req'[t].new) : x \in Named(req[t].new)
        /\ UNCHANGED <<posts, tags, claim>>
    BY <1>4, <2>0, MapStep
  <2>2. new.post = req[t].post /\ new.tag = req[t].tag
    OBVIOUS
  <2> HIDE DEF new
  <2>3. CASE req[t].post # p
    <3>1. NamesOf(p)' = NamesOf(p)
      BY <1>1, <2>1, <2>2, <2>3, NamesStay
    <3>2. ~Saves(t, p) /\ ~Saves(t, p)'
      BY <2>1, <2>3 DEF Saves, FieldsKept
    <3>3. QED
      BY <1>0, <2>1, <3>1, <3>2, ShowOther DEF ShowPart
  <2>4. CASE req[t].post = p
    <3>1. PICK g \in tags : g.id = req[t].tag /\ g.tag_name = req[t].name
      BY <2>1, <2>4 DEF HeldTags
    <3>2. \A x : x \in NamesOf(p) => x \in NamesOf(p)'
      BY <2>1, JoinsAreRows, NamesThen
    <3>3. req[t].name \in NamesOf(p)'
      <4>1. new \in tagmaps' /\ g \in tags' /\ new.post = p /\ new.tag = g.id
        BY <2>1, <2>2, <2>4, <3>1
      <4>2. QED
        BY <3>1, <4>1, NamesThen
    <3>4. ASSUME NEW x, x \in NamesOf(p)' PROVE x \in NamesOf(p) \/ x = req[t].name
      <4>1. PICK m \in tagmaps', h \in tags' : m.post = p /\ m.tag = h.id /\ x = h.tag_name
        BY <3>4, NamesThen
      <4>2. CASE m = new
        <5>1. h = g
          BY <1>1, <2>1, <2>2, <3>1, <4>1, <4>2
        <5>2. QED
          BY <3>1, <4>1, <5>1
      <4>3. CASE m \in tagmaps
        <5>1. h \in tags
          BY <2>1
        <5>2. QED
          BY <4>1, <4>3, <5>1, JoinsAreRows
      <4>4. QED
        BY <2>1, <4>2, <4>3
    <3>5. Saves(t, p) /\ Saves(t, p)' /\ req'[t].form = req[t].form
      BY <2>1, <2>4 DEF Saves, FieldsKept
    <3>6. OldNames(t) = {} /\ OldNames(t)' = {}
      BY <2>1 DEF OldNames
    <3>7. Underway(t, p)
      BY <3>5 DEF ShowPart
    <3>8. Underway(t, p)'
      <4>1. Named(req[t].form)' = Named(req[t].form)
        BY <3>5 DEF Named
      <4>2. Named(req[t].new)' = Named(req'[t].new)
        BY DEF Named
      <4>3. QED
        BY <2>0, <2>1, <3>2, <3>3, <3>4, <3>5, <3>6, <3>7, <4>1, <4>2 DEF Underway
    <3>9. QED
      BY <2>1, <3>5, <3>8, ShowUnderway DEF ShowPart
  <2>5. QED
    BY <2>3, <2>4
<1>5. CASE Saved(t)
  <2>1. /\ req[t] \in Dropping /\ (req[t].pc = "drop" => req[t].old = {}) /\ OthersWait(t)
        /\ Named(req[t].new) = {} /\ req'[t] = Idle
        /\ claim' = [claim EXCEPT ![req[t].post] = [known |-> TRUE, names |-> Named(req[t].form)]]
        /\ UNCHANGED <<posts, tags, tagmaps>>
    BY <1>5, SavedStep
  <2>2. NamesOf(p)' = NamesOf(p)
    BY <2>1 DEF NamesOf, TagsOf
  <2>3. CASE req[t].post # p
    <3>1. ~Saves(t, p) /\ ~Saves(t, p)'
      BY <2>1, <2>3 DEF Saves, Idle
    <3>2. claim'[p] = claim[p]
      BY <2>1, <2>3 DEF TypeOK
    <3>3. QED
      BY <1>0, <2>1, <2>2, <3>1, <3>2, ShowOther DEF ShowPart
  <2>4. CASE req[t].post = p
    <3>1. Saves(t, p)
      BY <2>1, <2>4, DroppingFields DEF Saves
    <3>2. OldNames(t) = {}
      BY <2>1 DEF OldNames
    <3>3. NamesOf(p) = Named(req[t].form)
      BY <2>1, <3>1, <3>2 DEF ShowPart, Underway
    <3>4. claim'[p].names = Named(req[t].form)
      <4>1. claim'[p] = [known |-> TRUE, names |-> Named(req[t].form)]
        BY <2>1, <2>4 DEF TypeOK
      <4>2. QED
        BY <4>1
    <3>5. QED
      BY <2>1, <2>2, <3>1, <3>3, <3>4, ShowEnds DEF ShowPart
  <2>5. QED
    BY <2>3, <2>4
<1>6. QED
  BY <1>2, <1>3, <1>4, <1>5

LEMMA ShowAcrossDestroy ==
  ASSUME TypeOK, Meetings, Authors, Unused, DoomedNow,
         NEW p \in Post, p \notin contended, ShowPart(p),
         NEW t \in Thread, Count(t) \/ Collect(t) \/ CommitTag(t) \/ CommitPosts(t)
  PROVE  ShowPart(p)'
<1>1. Destroys(t) /\ req[t] \in Destroying /\ OthersWait(t) /\ claim' = claim
  BY CountStep, CollectStep, CommitTagStep, CommitPostsStep, RequestKinds
<1>2. \A s \in Thread : ~Saves(s, p)
  BY <1>1 DEF Meetings, FormsMeetDestroys
<1>4. ~Saves(t, p)
  BY <1>2
<1>5. CASE Count(t) \/ Collect(t) \/ CommitTag(t)
  <2>1. TargetsKept(t) /\ posts' = posts
    BY <1>5, CountStep, CollectStep, CommitTagStep
  <2>2. Destroys(t)' /\ ~Saves(t, p)' /\ (Piecemeal(t, p)' <=> Piecemeal(t, p))
    <3>1. /\ req'[t].pc \in {"count", "collect_tag", "commit_tag", "collect_post", "commit_post"}
          /\ req'[t].posts = req[t].posts /\ req'[t].by = req[t].by
      BY <2>1, DestroyingFields DEF TargetsKept
    <3>2. QED
      BY <1>1, <1>4, <3>1 DEF Destroys, Saves, Piecemeal
  <2>3. CASE NamesOf(p)' = NamesOf(p)
    BY <1>1, <1>4, <2>1, <2>2, <2>3, ShowQuiet DEF ShowPart
  <2>4. CASE Count(t) \/ Collect(t)
    <3>1. UNCHANGED <<tags, tagmaps>>
      BY <2>4, CountStep, CollectStep
    <3>2. NamesOf(p)' = NamesOf(p)
      BY <3>1 DEF NamesOf, TagsOf
    <3>3. QED
      BY <2>3, <3>2
  <2>5. CASE CommitTag(t)
    <3>1. /\ req[t].pc = "commit_tag" /\ tagmaps' = tagmaps \ req[t].doomed
          /\ tags' = {g \in tags : g.id # req[t].tag}
      BY <2>5, CommitTagStep
    <3>2. \A m \in req[t].doomed : m.tag = req[t].tag
      BY <3>1 DEF DoomedNow
    <3>3. CASE p \in req[t].posts
      <4>1. req[t].by = "author"
        BY <1>1, <3>1, DestroyingFields DEF Authors
      <4>2. Piecemeal(t, p)'
        BY <1>1, <2>2, <3>3, <4>1 DEF Piecemeal
      <4>3. Shown(p)'
        BY <4>2 DEF Shown
      <4>4. \A s \in Thread : ~Saves(s, p)'
        BY <1>1, <1>2, <2>2 DEF OthersWait, Saves
      <4>5. QED
        BY <4>3, <4>4 DEF ShowPart
    <3>4. CASE p \notin req[t].posts
      <4>1. \A m \in tagmaps : m.post = p => m.tag # req[t].tag
        BY <3>1, <3>4 DEF Unused
      <4>2. NamesOf(p)' = NamesOf(p)
        BY <3>1, <3>2, <4>1, NamesStay
      <4>3. QED
        BY <2>3, <4>2
    <3>5. QED
      BY <3>3, <3>4
  <2>6. QED
    BY <1>5, <2>4, <2>5
<1>6. CASE CommitPosts(t)
  <2>1. /\ req[t].pc = "commit_post" /\ req'[t] = Idle /\ tagmaps' = tagmaps \ req[t].doomed
        /\ posts' = posts \ req[t].posts /\ tags' = tags
    BY <1>6, CommitPostsStep
  <2>2. ~Saves(t, p)' /\ ~Destroys(t)'
    BY <2>1 DEF Saves, Destroys, Idle
  <2>3. \A s \in Thread : ~Saves(s, p)'
    BY <1>1, <1>2, <2>2 DEF OthersWait, Saves
  <2>4. CASE p \in req[t].posts
    <3>1. Shown(p)'
      BY <2>1, <2>4 DEF Shown
    <3>2. QED
      BY <2>3, <3>1 DEF ShowPart
  <2>5. CASE p \notin req[t].posts
    <3>1. \A m \in req[t].doomed : m.post \in req[t].posts
      BY <2>1 DEF DoomedNow
    <3>2. NamesOf(p)' = NamesOf(p)
      BY <2>1, <2>5, <3>1, NamesStay
    <3>3. ~Piecemeal(t, p)
      BY <1>4, <2>5 DEF Piecemeal
    <3>4. QED
      BY <1>1, <1>4, <2>1, <2>2, <3>2, <3>3, ShowQuiet DEF ShowPart
  <2>6. QED
    BY <2>4, <2>5
<1>7. QED
  BY <1>5, <1>6

\* A form that sets out: what it found and what it asks for are all there is to do, in
\* whatever state other forms have left the tags of the post.
LEMMA ShowAcrossBegin ==
  ASSUME TypeOK, NEW p \in Post, p \notin contended => ShowPart(p), p \notin contended',
         NEW t \in Thread,
         \/ \E q \in Post : FindPost(t, q)
         \/ \E form \in Form : SavePosts(t, form)
         \/ \E ps \in SUBSET Post, by \in {"author", "cascade"} : DestroyPosts(t, ps, by)
  PROVE  ShowPart(p)'
<1>0. ASSUME NEW q \in Post, FindPost(t, q) PROVE ShowPart(p)'
  <2>1. /\ req[t] = Idle /\ OthersWait(t) /\ req'[t].pc = "found"
        /\ UNCHANGED <<posts, tags, tagmaps, claim, contended>>
    BY <1>0, FindPostStep
  <2>2. NamesOf(p)' = NamesOf(p)
    BY <2>1 DEF NamesOf, TagsOf
  <2>3. ~Saves(t, p) /\ ~Saves(t, p)' /\ ~Destroys(t)
    BY <2>1 DEF Saves, Destroys, Idle
  <2>4. QED
    BY <2>1, <2>2, <2>3, ShowOther DEF ShowPart
<1>1. ASSUME NEW form \in Form, SavePosts(t, form) PROVE ShowPart(p)'
  <2>1. PICK q \in Post :
          /\ req[t].pc = "found" /\ OthersWait(t)
          /\ req'[t].pc = "drop" /\ req'[t].post = q /\ req'[t].form = form
          /\ req'[t].old = {j \in TagsOf(q) : j[2].tag_name \notin Named(form)}
          /\ req'[t].new = [x \in Name |-> IF x \in NamesOf(q) THEN 0 ELSE form[x]]
          /\ contended' = IF \E s \in Thread : Saves(s, q) \/ Destroys(s)
                          THEN contended \cup {q} ELSE contended \ {q}
          /\ UNCHANGED <<posts, tags, tagmaps, claim>>
    BY <1>1, SavePostsStep
  <2>2. NamesOf(p)' = NamesOf(p)
    BY <2>1 DEF NamesOf, TagsOf
  <2>3. ~Saves(t, p) /\ ~Destroys(t)
    BY <2>1 DEF Saves, Destroys
  <2>4. CASE q # p
    <3>1. ~Saves(t, p)'
      BY <2>1, <2>4 DEF Saves
    <3>2. ShowPart(p)
      BY <2>1, <2>4
    <3>3. QED
      BY <2>1, <2>2, <2>3, <3>1, <3>2, ShowOther DEF ShowPart
  <2>5. CASE q = p
    <3>1. Saves(t, p)' /\ \A s \in Thread : ~Saves(s, p)
      BY <2>1, <2>5 DEF Saves
    <3>2. \A s \in Thread : Saves(s, p)' => s = t
      BY <2>1, <3>1 DEF OthersWait, Saves
    <3>3. OldNames(t)' = NamesOf(p) \ Named(form)
      BY <2>1, <2>5 DEF OldNames, NamesOf
    <3>4. Named(req'[t].new) = Named(form) \ NamesOf(p)
      BY <2>1, <2>5 DEF Named, Form
    <3>5. Underway(t, p)'
      <4>1. Named(req[t].form)' = Named(form) /\ Named(req[t].new)' = Named(req'[t].new)
        BY <2>1 DEF Named
      <4>2. QED
        BY <2>2, <3>3, <3>4, <4>1 DEF Underway
    <3>6. Shown(p)'
      BY <3>1 DEF Shown, Piecemeal
    <3>7. QED
      BY <3>2, <3>5, <3>6 DEF ShowPart
  <2>6. QED
    BY <2>4, <2>5
<1>2. ASSUME NEW ps \in SUBSET Post, NEW by \in {"author", "cascade"}, DestroyPosts(t, ps, by)
      PROVE  ShowPart(p)'
  <2>1. /\ req[t].pc \in {"idle", "found"} /\ OthersWait(t)
        /\ req'[t].pc \in {"count", "collect_post"}
        /\ contended \subseteq contended' /\ UNCHANGED <<posts, tags, tagmaps, claim>>
    BY <1>2, DestroyPostsStep
  <2>2. NamesOf(p)' = NamesOf(p)
    BY <2>1 DEF NamesOf, TagsOf
  <2>3. ~Saves(t, p) /\ ~Saves(t, p)' /\ ~Destroys(t)
    BY <2>1 DEF Saves, Destroys
  <2>4. QED
    BY <2>1, <2>2, <2>3, ShowOther DEF ShowPart
<1>3. QED
  BY <1>0, <1>1, <1>2

LEMMA ShowInductive ==
  ASSUME TagInv, TagShow, [Next]_vars
  PROVE  TagShow'
<1>1. SUFFICES ASSUME NEW p \in Post \ contended' PROVE ShowPart(p)'
  BY DEF TagShow
<1>2. /\ TypeOK /\ NameAtHand /\ TagKeys /\ Meetings /\ IdsPast /\ Authors
      /\ HeldTags /\ Unused /\ DoomedNow
  BY DEF TagInv, Whole
<1>3. p \notin contended => ShowPart(p)
  BY DEF TagShow
<1>4. p \notin contended => \A t, s \in Thread : Saves(t, p) /\ Saves(s, p) => s = t
  BY <1>2 DEF Meetings, FormsMeetForms
<1>6. ASSUME NEW t \in Thread, Step(t) PROVE ShowPart(p)'
  <2>0. p \notin contended /\ ShowPart(p)
    BY <1>2, <1>3, <1>6, StepKeepsKind DEF met
  <2>1. CASE Drop(t)
    BY <1>2, <1>4, <2>0, <2>1, ShowAcrossDrop
  <2>2. CASE Find(t) \/ CreateTag(t) \/ Map(t) \/ Saved(t)
    BY <1>2, <1>4, <2>0, <2>2, ShowAcrossAdding
  <2>3. CASE Count(t) \/ Collect(t) \/ CommitTag(t) \/ CommitPosts(t)
    BY <1>2, <2>0, <2>3, ShowAcrossDestroy
  <2>4. CASE Abort(t)
    <3>1. OthersWait(t) /\ Cancelled(t) /\ UNCHANGED <<posts, tags, tagmaps>>
      BY <1>2, <2>4, AbortStep
    <3>2. NamesOf(p)' = NamesOf(p)
      BY <3>1 DEF NamesOf, TagsOf
    <3>3. QED
      BY <1>4, <2>0, <3>1, <3>2, ShowCancelled DEF ShowPart
  <2>5. QED
    BY <1>6, <2>1, <2>2, <2>3, <2>4 DEF Step
<1>5. ASSUME NEW t \in Thread, NEW q \in Post, FindPost(t, q) PROVE ShowPart(p)'
  BY <1>2, <1>3, <1>5, ShowAcrossBegin
<1>7. ASSUME NEW t \in Thread, NEW form \in Form, SavePosts(t, form) PROVE ShowPart(p)'
  BY <1>2, <1>3, <1>7, ShowAcrossBegin
<1>8. ASSUME NEW t \in Thread, NEW ps \in SUBSET Post, NEW by \in {"author", "cascade"},
             DestroyPosts(t, ps, by)
      PROVE  ShowPart(p)'
  BY <1>2, <1>3, <1>8, ShowAcrossBegin
<1>9. CASE UNCHANGED vars
  <2>1. NamesOf(p)' = NamesOf(p)
    BY <1>9 DEF NamesOf, TagsOf, vars
  <2>2. QED
    BY <1>3, <1>9, <2>1
       DEF vars, ShowPart, Shown, Underway, OldNames, Saves, Piecemeal, Destroys, Named
<1>10. QED
  BY <1>5, <1>6, <1>7, <1>8, <1>9, NextCases

LEMMA ShowInit == Init => TagShow
<1>1. SUFFICES ASSUME Init, NEW p \in Post
               PROVE  Shown(p) /\ \A t \in Thread : ~Saves(t, p)
  BY DEF TagShow, ShowPart
<1>2. \A t \in Thread : ~Saves(t, p)
  BY <1>1 DEF Init, Idle, Saves
<1>3. NamesOf(p) = {}
  BY <1>1 DEF Init, NamesOf, TagsOf
<1>4. claim[p].names = {}
  BY <1>1 DEF Init
<1>5. QED
  BY <1>2, <1>3, <1>4 DEF Shown

\* Between requests a post has the names of its last form and no other, unless its last
\* form met another one about it or a destroy (post.rb:33-55).
THEOREM TagsShown == Spec => []TagsAreTheForms
<1>1. TagInv /\ TagShow => TagsAreTheForms
  BY DEF TagInv, TypeOK, TagShow, ShowPart, TagsAreTheForms, Shown
<1>2. QED
  BY <1>1, ShowInit, TagInvHolds, ShowInductive, PTL DEF Spec

-----------------------------------------------------------------------------
\* A form about p that is being saved moves the tags of p towards itself, whoever takes the
\* step: its own deletions take off what it has not, and its own additions are what it has.
LEMMA StepTowards ==
  ASSUME TagInv, TagShow, [Next]_vars, NEW t \in Thread, NEW p \in Post \ contended, Saves(t, p)
  PROVE  /\ NamesOf(p) \cap Named(req[t].form) \subseteq NamesOf(p)'
         /\ NamesOf(p)' \subseteq NamesOf(p) \cup Named(req[t].form)
<1> DEFINE Towards == /\ NamesOf(p) \cap Named(req[t].form) \subseteq NamesOf(p)'
                      /\ NamesOf(p)' \subseteq NamesOf(p) \cup Named(req[t].form)
<1>1. /\ TypeOK /\ NameAtHand /\ TagKeys /\ IdsPast /\ HeldTags
      /\ \A g, h \in tags : g.id = h.id => g = h
      /\ \A g, h \in tags : g.tag_name = h.tag_name => g = h
  BY DEF TagInv, Whole, TagKeys
<1>2. /\ \A s \in Thread : ~Destroys(s)
      /\ \A s \in Thread : Saves(s, p) => s = t
  BY DEF TagInv, Meetings, FormsMeetDestroys, FormsMeetForms
<1>3. Underway(t, p)
  BY DEF TagShow, ShowPart
<1>4. NamesOf(p)' = NamesOf(p) => Towards
  OBVIOUS
<1>5. UNCHANGED <<tags, tagmaps>> => Towards
  BY <1>4 DEF NamesOf, TagsOf
<1> HIDE DEF Towards
<1>6. ASSUME NEW s \in Thread, Drop(s) PROVE Towards
  <2>1. CASE tagmaps' = tagmaps
    BY <1>1, <1>5, <1>6, <2>1, DropStep
  <2>2. ASSUME NEW j \in req[s].old, NEW g \in tags, g.tag_name = j[2].tag_name,
               tagmaps' = {m \in tagmaps : ~(m.post = req[s].post /\ m.tag = g.id)}
        PROVE  Towards
    <3>0. req[s].pc = "drop" /\ tags' = tags
      BY <1>1, <1>6, DropStep
    <3>1. CASE req[s].post # p
      <4>1. NamesOf(p)' = NamesOf(p)
        BY <1>1, <2>2, <3>0, <3>1, NamesStay
      <4>2. QED
        BY <1>4, <4>1
    <3>2. CASE req[s].post = p
      <4>1. s = t
        BY <1>2, <3>0, <3>2 DEF Saves
      <4>2. g.tag_name \notin Named(req[t].form)
        <5>1. g.tag_name \in OldNames(t)
          BY <2>2, <3>0, <4>1 DEF OldNames
        <5>2. QED
          BY <1>3, <5>1 DEF Underway
      <4>3. \A x : x \in NamesOf(p)' => x \in NamesOf(p)
        BY <1>1, <2>2, <3>0, JoinsAreRows, NamesThen
      <4>4. \A x : x \in NamesOf(p) /\ x # g.tag_name => x \in NamesOf(p)'
        <5>1. ASSUME NEW m \in tagmaps, NEW h \in tags, m.post = p, m.tag = h.id,
                     h.tag_name # g.tag_name
              PROVE  m \in tagmaps'
          BY <1>1, <2>2, <3>2, <5>1
        <5>2. QED
          BY <1>1, <3>0, <5>1, JoinsAreRows, NamesThen
      <4>5. QED
        BY <4>2, <4>3, <4>4 DEF Towards
    <3>3. QED
      BY <3>1, <3>2
  <2>3. QED
    BY <1>1, <1>6, <2>1, <2>2, DropStep
<1>7. ASSUME NEW s \in Thread, CreateTag(s) PROVE Towards
  <2> DEFINE new == [id |-> lastId + 1, tag_name |-> req[s].name]
  <2>1. tagmaps' = tagmaps /\ (tags' = tags \/ tags' = tags \cup {new})
    BY <1>1, <1>7, CreateTagStep
  <2>2. CASE tags' = tags
    BY <1>5, <2>1, <2>2
  <2>3. CASE tags' = tags \cup {new}
    <3>1. new.id = lastId + 1
      OBVIOUS
    <3>2. \A m \in tagmaps : m.tag # new.id
      <4>1. lastId \in Nat /\ \A m \in tagmaps : m.tag \in Nat /\ m.tag <= lastId
        BY <1>1 DEF TypeOK, Tagmap, IdsPast
      <4>2. QED
        BY <3>1, <4>1
    <3> HIDE DEF new
    <3>3. /\ \A g \in tags : g \in tags'
          /\ \A m \in tagmaps, g \in tags' : g.id = m.tag => g \in tags
      BY <2>3, <3>2
    <3>4. NamesOf(p)' = NamesOf(p)
      BY <1>1, <2>1, <3>3, NamesStay
    <3>5. QED
      BY <1>4, <3>4
  <2>4. QED
    BY <2>1, <2>2, <2>3
<1>8. ASSUME NEW s \in Thread, Map(s) PROVE Towards
  <2> DEFINE new == [id |-> lastId + 1, post |-> req[s].post, tag |-> req[s].tag]
  <2>0. req[s].name \in Named(req[s].new) /\ req[s].pc = "map"
    BY <1>1, <1>8 DEF Map, NameAtHand
  <2>1. tagmaps' = tagmaps \cup {new} /\ tags' = tags
    BY <1>1, <1>8, <2>0, MapStep
  <2>2. new.post = req[s].post /\ new.tag = req[s].tag
    OBVIOUS
  <2> HIDE DEF new
  <2>3. CASE req[s].post # p
    <3>1. NamesOf(p)' = NamesOf(p)
      BY <1>1, <2>1, <2>2, <2>3, NamesStay
    <3>2. QED
      BY <1>4, <3>1
  <2>4. CASE req[s].post = p
    <3>1. s = t
      BY <1>2, <2>0, <2>4 DEF Saves
    <3>2. PICK g \in tags : g.id = req[t].tag /\ g.tag_name = req[t].name
      BY <1>1, <2>0, <2>4, <3>1 DEF HeldTags
    <3>3. g.tag_name \in Named(req[t].form)
      BY <1>3, <2>0, <3>1, <3>2 DEF Underway
    <3>4. \A x : x \in NamesOf(p) => x \in NamesOf(p)'
      BY <1>1, <2>1, JoinsAreRows, NamesThen
    <3>5. ASSUME NEW x, x \in NamesOf(p)' PROVE x \in NamesOf(p) \/ x = g.tag_name
      <4>1. PICK m \in tagmaps', h \in tags' : m.post = p /\ m.tag = h.id /\ x = h.tag_name
        BY <3>5, NamesThen
      <4>2. CASE m = new
        <5>1. h = g
          BY <1>1, <2>1, <2>2, <3>1, <3>2, <4>1, <4>2
        <5>2. QED
          BY <4>1, <5>1
      <4>3. CASE m \in tagmaps
        <5>1. h \in tags
          BY <2>1
        <5>2. QED
          BY <1>1, <4>1, <4>3, <5>1, JoinsAreRows
      <4>4. QED
        BY <2>1, <4>2, <4>3
    <3>6. QED
      BY <3>3, <3>4, <3>5 DEF Towards
  <2>5. QED
    BY <2>3, <2>4
<1>9. ASSUME NEW s \in Thread, Find(s) \/ Saved(s) \/ Abort(s) PROVE Towards
  <2>1. UNCHANGED <<tags, tagmaps>>
    BY <1>9 DEF Find, Saved, Abort
  <2>2. QED
    BY <1>5, <2>1
<1>10. ASSUME NEW s \in Thread, Count(s) \/ Collect(s) \/ CommitTag(s) \/ CommitPosts(s)
       PROVE  Towards
  <2>1. Destroys(s)
    BY <1>10 DEF Destroys, Count, Collect, CommitTag, CommitPosts
  <2>2. QED
    BY <1>2, <2>1
<1>11. ASSUME NEW s \in Thread, NEW q \in Post, FindPost(s, q) PROVE Towards
  BY <1>1, <1>5, <1>11, FindPostStep
<1>12. ASSUME NEW s \in Thread, NEW form \in Form, SavePosts(s, form) PROVE Towards
  BY <1>1, <1>5, <1>12, SavePostsStep
<1>13. ASSUME NEW s \in Thread, NEW ps \in SUBSET Post, NEW by \in {"author", "cascade"},
              DestroyPosts(s, ps, by)
       PROVE  Towards
  BY <1>1, <1>5, <1>13, DestroyPostsStep
<1>14. ASSUME UNCHANGED vars PROVE Towards
  <2>1. UNCHANGED <<tags, tagmaps>>
    BY <1>14 DEF vars
  <2>2. QED
    BY <1>5, <2>1
<1>15. ASSUME NEW s \in Thread, Step(s) PROVE Towards
  BY <1>6, <1>7, <1>8, <1>9, <1>10, <1>15 DEF Step
<1>16. Towards
  BY <1>11, <1>12, <1>13, <1>14, <1>15, NextCases
<1>17. QED
  BY <1>16 DEF Towards

\* A form that is being saved, name by name and in several transactions, takes no tag off its
\* post that is to stay and puts none on it that is not to be there (post.rb:39-43).
THEOREM OnlyTowards == Spec => TagsOnlyTowardsTheForm
<1> DEFINE Toward ==
      \A t \in Thread, p \in Post \ contended :
        Saves(t, p) => /\ NamesOf(p) \cap Named(req[t].form) \subseteq NamesOf(p)'
                       /\ NamesOf(p)' \subseteq NamesOf(p) \cup Named(req[t].form)
<1>1. TagInv /\ TagShow /\ [Next]_vars => [Toward]_vars
  BY StepTowards
<1> HIDE DEF Toward
<1>2. Spec => [][Toward]_vars
  BY <1>1, ShowInit, TagInvHolds, ShowInductive, PTL DEF Spec
<1>3. QED
  BY <1>2 DEF Toward, TagsOnlyTowardsTheForm

-----------------------------------------------------------------------------
\* A request that destroys posts has the application to itself: while it is at work no other
\* request works on a post, or has even found one that it is going to work on.
DestroysAlone == \A s, t \in Thread : Destroys(s) /\ req[t] # Idle => s = t

\* The forms about one post are served one after another, those about others as they come.
FormsApart == \A p \in Post : \A s, t \in Thread : Saves(s, p) /\ Saves(t, p) => s = t

\* What tagmap.rb:2-3 asks, and what the author's destroy promises, with nothing excepted.
NoTagmapDangles == \A m \in tagmaps : m.post \in posts /\ \E g \in tags : g.id = m.tag
NoTagIsLeft ==
  [][\A t \in Thread :
       req[t].pc = "commit_post" /\ req[t].by = "author" /\ posts' # posts
       => \A m \in req[t].doomed : \A g \in tags' :
            g.id = m.tag => \E n \in tagmaps' : n.tag = g.id /\ n.post \in posts']_vars

LEMMA DestroysMeetNothing ==
  ASSUME TypeOK, NameAtHand, raced = {}, crowded = {}, [Next]_vars, DestroysAlone, DestroysAlone'
  PROVE  raced' = {} /\ crowded' = {}
<1>1. ASSUME NEW t \in Thread, Step(t) PROVE raced' = {} /\ crowded' = {}
  BY <1>1, StepKeepsKind DEF met
<1>2. ASSUME NEW t \in Thread, NEW p \in Post, FindPost(t, p) PROVE raced' = {} /\ crowded' = {}
  <2>1. /\ req[t] = Idle /\ OthersWait(t) /\ req'[t].pc = "found"
        /\ raced' = raced \cup ({p} \cap Doomed) /\ crowded' = crowded
    BY <1>2, FindPostStep
  <2>2. req'[t] # Idle /\ ~Destroys(t)
    BY <2>1 DEF Idle, Destroys
  <2>3. ASSUME NEW s \in Thread PROVE ~Destroys(s)
    BY <2>1, <2>2 DEF DestroysAlone, OthersWait, Destroys
  <2>4. QED
    BY <2>1, <2>3 DEF Doomed
<1>3. ASSUME NEW t \in Thread, NEW form \in Form, SavePosts(t, form)
      PROVE  raced' = {} /\ crowded' = {}
  <2>1. PICK p \in Post :
          /\ req[t].pc = "found"
          /\ raced' = IF \E s \in Thread : Destroys(s) THEN raced \cup {p} ELSE raced
          /\ crowded' = crowded \cup Doomed
    BY <1>3, SavePostsStep
  <2>2. \A s \in Thread : ~Destroys(s)
    BY <2>1 DEF DestroysAlone, Idle, Destroys
  <2>3. QED
    BY <2>1, <2>2 DEF Doomed
<1>4. ASSUME NEW t \in Thread, NEW ps \in SUBSET Post, NEW by \in {"author", "cascade"},
             DestroyPosts(t, ps, by)
      PROVE  raced' = {} /\ crowded' = {}
  <2>1. /\ req[t].pc \in {"idle", "found"} /\ OthersWait(t)
        /\ req'[t].pc \in {"count", "collect_post"}
        /\ raced' = raced \cup Edited \cup {p \in ps : \E s \in Thread \ {t} : Found(s, p)}
        /\ crowded' = IF \E s \in Thread : Works(s)
                      THEN crowded \cup Doomed \cup ps ELSE crowded \ ps
    BY <1>4, DestroyPostsStep
  <2>2. Destroys(t)'
    BY <2>1 DEF Destroys
  <2>3. \A s \in Thread : s # t => req[s].pc = "idle"
    BY <2>1, <2>2 DEF DestroysAlone, OthersWait, Idle
  <2>4. /\ Edited = {} /\ \A s \in Thread : ~Works(s)
        /\ \A p \in ps : \A s \in Thread \ {t} : ~Found(s, p)
    BY <2>1, <2>3 DEF Edited, Saves, Works, Found
  <2>5. QED
    BY <2>1, <2>4
<1>5. CASE UNCHANGED vars
  BY <1>5 DEF vars
<1>6. QED
  BY <1>1, <1>2, <1>3, <1>4, <1>5, NextCases

LEMMA FormsMeetNothing ==
  ASSUME TypeOK, NameAtHand, contended = {}, [Next]_vars, DestroysAlone, DestroysAlone',
         FormsApart, FormsApart'
  PROVE  contended' = {}
<1>1. ASSUME NEW t \in Thread, Step(t) PROVE contended' = {}
  BY <1>1, StepKeepsKind DEF met
<1>2. ASSUME NEW t \in Thread, NEW p \in Post, FindPost(t, p) PROVE contended' = {}
  BY <1>2, FindPostStep
<1>3. ASSUME NEW t \in Thread, NEW form \in Form, SavePosts(t, form) PROVE contended' = {}
  <2>1. PICK p \in Post :
          /\ req[t].pc = "found" /\ OthersWait(t) /\ req'[t].pc = "drop" /\ req'[t].post = p
          /\ contended' = IF \E s \in Thread : Saves(s, p) \/ Destroys(s)
                          THEN contended \cup {p} ELSE contended \ {p}
    BY <1>3, SavePostsStep
  <2>2. Saves(t, p)' /\ ~Saves(t, p) /\ req[t] # Idle /\ ~Destroys(t)
    BY <2>1 DEF Idle, Saves, Destroys
  <2>3. ASSUME NEW s \in Thread PROVE ~Saves(s, p) /\ ~Destroys(s)
    <3>1. CASE s = t
      BY <2>2, <3>1
    <3>2. CASE s # t
      <4>1. Saves(s, p)' <=> Saves(s, p)
        BY <2>1, <3>2 DEF OthersWait, Saves
      <4>2. QED
        BY <2>2, <3>2, <4>1 DEF DestroysAlone, FormsApart
    <3>3. QED
      BY <3>1, <3>2
  <2>4. QED
    BY <2>1, <2>3
<1>4. ASSUME NEW t \in Thread, NEW ps \in SUBSET Post, NEW by \in {"author", "cascade"},
             DestroyPosts(t, ps, by)
      PROVE  contended' = {}
  <2>1. /\ req[t].pc \in {"idle", "found"} /\ OthersWait(t)
        /\ req'[t].pc \in {"count", "collect_post"}
        /\ contended' = contended \cup Edited
    BY <1>4, DestroyPostsStep
  <2>2. \A s \in Thread : s # t => req[s].pc = "idle"
    BY <2>1 DEF DestroysAlone, Destroys, OthersWait, Idle
  <2>3. Edited = {}
    BY <2>1, <2>2 DEF Edited, Saves
  <2>4. QED
    BY <2>1, <2>3
<1>5. CASE UNCHANGED vars
  BY <1>5 DEF vars
<1>6. QED
  BY <1>1, <1>2, <1>3, <1>4, <1>5, NextCases

\* If whoever destroys posts were alone with the database, no other request being even between
\* its look-up and save_posts, no tagmap would dangle and no deletion by an author would leave
\* a tag without a post, however forms interleave and wherever requests are cut short: the
\* destroys are the only source of both.
THEOREM AloneNothingDangles == Spec /\ []DestroysAlone => []NoTagmapDangles /\ NoTagIsLeft
<1> DEFINE Inv == TypeOK /\ NameAtHand /\ raced = {} /\ crowded = {}
<1>1. Init => Inv
  BY TypeInit DEF Init
<1>2. Inv /\ DestroysAlone /\ DestroysAlone' /\ [Next]_vars => Inv'
  BY TypeInvariant, HandInductive, DestroysMeetNothing
<1>3. TagmapsBelong /\ Inv => NoTagmapDangles
  BY DEF TagmapsBelong, NoTagmapDangles
<1> DEFINE Left(spared) ==
      \A t \in Thread :
        /\ req[t].pc = "commit_post" /\ req[t].by = "author"
        /\ req[t].posts \cap spared = {} /\ posts' # posts
        => \A m \in req[t].doomed : \A g \in tags' :
             g.id = m.tag /\ (\A n \in tagmaps : n.tag = g.id => n.post \in posts)
             => \E n \in tagmaps' : n.tag = g.id /\ n.post \in posts'
<1>4. Inv /\ NoTagmapDangles /\ [Left(crowded)]_vars =>
        [\A t \in Thread :
           req[t].pc = "commit_post" /\ req[t].by = "author" /\ posts' # posts
           => \A m \in req[t].doomed : \A g \in tags' :
                g.id = m.tag => \E n \in tagmaps' : n.tag = g.id /\ n.post \in posts']_vars
  BY DEF vars, NoTagmapDangles
<1> HIDE DEF Inv
<1>5. QED
  BY <1>1, <1>2, <1>3, <1>4, Belong, NoOrphans, PTL DEF Spec, AuthorLeavesNoOrphan, NoTagIsLeft

\* If besides the forms about one post were served one after another, every post that no
\* request is working on would have the tags of its last form, all of them and no other.
THEOREM ApartTagsAreTheForms ==
  Spec /\ []DestroysAlone /\ []FormsApart =>
    [](\A p \in posts : claim[p].known /\ (\A t \in Thread : ~Piecemeal(t, p))
                        => NamesOf(p) = claim[p].names)
<1> DEFINE Inv == TypeOK /\ NameAtHand /\ contended = {}
<1> DEFINE Show == \A p \in posts : claim[p].known /\ (\A t \in Thread : ~Piecemeal(t, p))
                                   => NamesOf(p) = claim[p].names
<1>1. Init => Inv
  BY TypeInit DEF Init
<1>2. /\ Inv /\ DestroysAlone /\ DestroysAlone' /\ FormsApart /\ FormsApart' /\ [Next]_vars
      => Inv'
  BY TypeInvariant, HandInductive, FormsMeetNothing
<1>3. TagsAreTheForms /\ Inv => Show
  BY DEF TagsAreTheForms
<1> HIDE DEF Inv, Show
<1>4. Spec /\ []DestroysAlone /\ []FormsApart => []Show
  BY <1>1, <1>2, <1>3, TagsShown, PTL DEF Spec
<1>5. QED
  BY <1>4 DEF Show
=============================================================================
