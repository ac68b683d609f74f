# "What do you draw with?" — TLA+ models, model checking and proofs

The application is a Rails 6.1 site on which illustrators show which software,
brushes and pens they draw with. It is served by Puma with five threads
(`src/config/puma.rb`) over one MySQL database in production
(`src/config/database.yml`). Controllers and models of the application itself
are about 1300 lines of Ruby under `src/app`, with the tables in
`src/db/schema.rb`; everything else in the repository is vendored
(gems, SQLite, compiled packs) or generated (Devise).

There is no lock, no explicit transaction and hardly a unique index or a foreign
key in the application. All that is hard about it follows from this: every
request is a sequence of statements, other requests run between any two of
them, and a deployment kills the server whenever it happens
(`src/.github/workflows/rails.yml:24`).

## 1. Inventory

| Part | State | Operations | Interacts with |
|---|---|---|---|
| Comments on posts | `post_comments`, `notifications` | create (public, admin), fan-out, destroy (author, admin) | posts and accounts (cascade), inbox |
| Favorites | `favorites`, `notifications` | like, unlike, announce once | posts and accounts (cascade, foreign keys), inbox, rank |
| Post forms | `posts`, `pens` | create, update (author, admin), destroy | tags (same requests), softwares and accounts (required) |
| Tags | `tags`, `tagmaps` | save_posts, clean_tag, destroy | posts |
| Boards | `boards`, `board_comments`, `notifications` | create, update, destroy, answer, delete an answer | inbox |
| Inbox | `notifications.checked` | list a page, mark as read | whatever writes notifications |
| Follows | `relationships` | follow, unfollow, lists | accounts |
| Accounts | `users`, `admins` | sign-up, guest and Twitter sign-in, renaming, delete with everything | all tables |
| Software catalogue | `softwares` | create, update, destroy | posts require one and go with it |
| Listings | none | index, rank, search, drafts | posts, favorites |

The parts call each other only through the database and through
`dependent: :destroy`: a destroyed post takes its favorites, comments, tagmaps, pens
and notifications with it, a destroyed comment its notifications, a destroyed software
its posts, a destroyed account its posts, boards, favorites, comments, follows and
notifications. The cascade is cut along the tables: each module has the part of it that
deletes from its own tables.

What each part has to get right:

- *Comments*: everyone who commented before and the owner hear of a new comment,
  each of them once; nothing that is destroyed leaves a notification behind,
  because the inbox dereferences it and fails for its receiver.
- *Favorites*: the owner hears of a like, and not as often as the button is pressed; a like
  names a post and an account that exist, because lists of likes look them up and fail otherwise.
- *Post forms*: what is published has its software and its author; after an edit the post has the pens of
  the form, although the controller saves them up to three times and cleans up twice.
- *Tags*: a post has the tags of its form, and on the way there loses none that is to stay;
  destroying one post takes away its own tags but no tag of another post; no tagmap is
  left of a post that is gone.
- *Boards*: like comments, without the cascades.
- *Inbox*: what a page lists is marked as read, and the badge of unread notifications goes out.
- *Accounts*: one account for one address and one person; deleting it leaves no follow and
  no notification dangling.

The hazards, with the line where each bites and the properties that cover it, are in
`PROJECT.json`. Most are of one of three kinds: two requests interleave between a
read and the write that relies on it; a destroy deletes the rows it has read
and misses the one that came after; a request is cut short between two of its
transactions.

## 2. How the models are built

A **request** is served by a thread of the Puma pool. `req[t]` is a record with a
program counter `pc` and what the request holds in memory, or `Idle`. A **step** is
one statement, or one transaction where ActiveRecord opens one (`save`, `destroy`).
Between two steps any other thread may run.

A **destroy** takes two steps: one reads the dependent rows, the next one deletes those
rows and the parent. Under MySQL's repeatable reads a row that another
transaction inserts in between is neither seen nor deleted. Where `schema.rb` has a
foreign key (`favorites`, `pens`) such a row makes the second step roll back.

**Abort** ends a request between any two of its steps. It stands for the kill in the
deploy job and for a statement that raises (lost connection, full disk). What was
committed stays; an open transaction leaves nothing.

**Tables** are sets of records with the columns that a guard or a property reads;
texts, images and times are left out. Ids grow, as the database hands them out.
**History variables** record what a property has to know, and no guard reads them:
`silent` and `cut` the requests that were cut short, `claim` what the last form asked for,
`leaked`, `contended`, `crossed`, `raced`, `crowded` and `doubled` where two requests have met
whose race the code does not prevent. A property that holds only without the race excepts exactly
what these record, so that one run with two threads shows both that the property holds
elsewhere and where the race bites. Some races are made good by the next request that meets no
other one, and these records forget them then (`crossed` in `PostForms`, `contended` and `crowded` in
`Tagging`); the others are there for good.

A request that is refused before it writes anything (a missing row, a blank text, a
wrong user) changes nothing, so no action stands for it.

In all modules but `Accounts` the accounts exist from the start, and in `PostComments`,
`BoardComments`, `Favorites` and `PostForms` they may be deleted; where that is limited to
some of them to keep an instance small, these are the constant `Leaver`. The posts exist
from the start in all modules but `PostForms`. The guest account may do what any account may
as far as the controllers are concerned.

`Puma`, MySQL and ActiveRecord are outside `src/app`. They are modelled from
how the code relies on them, as described in this section.

## 3. The modules

### Announcements

What the two fan-outs promise, without requests, tables of rows or a plan of who deletes what:
comments are written (`Write`), receivers are told one by one (`TellOne`), the last one when
everybody with a claim has been told (`TellLast`), an announcement may be `CutShort`, and
accounts, comments and receipts go (`Withdraw`) as long as no receipt goes that its receiver has a
claim to. A claim is that of the owner, or of whoever has an earlier comment in the same place.

`PostComments` and `BoardComments` instantiate it as `Told` and have `ImplementsAnnouncements ==
Told!Spec` as a property. The refinement mapping reads: `members` are the accounts, `standing` the
comments, `open` the comments of the requests that select or notify, `promised` those whose
request has come to its end, `receipts` the notifications by comment and receiver. So
`SelectCommenters` stutters, `NotifyCommenter` is `TellOne`, `NotifyOwner` is `TellLast`, an `Abort` of a
fan-out is `CutShort`, and every destroy is a `Withdraw` or a stutter. What the mapping has to get
across: no notification is deleted that a standing claim still needs, however stale the reads of
the destroy are, and the last call comes only when the loop has told everyone with a claim.

### PostComments

`Create` is the lookup and the validation, `Insert` the `INSERT` of `@comment.save`,
`SelectCommenters` the query of `post.rb:96`, `NotifyCommenter` one turn of the loop
(the rows come in no stated order), `NotifyOwner` the call of `post.rb:101`.
The admin's controller saves a comment and tells nobody: `InsertSilent`.
`DestroyComment`, `DestroyPosts` (one post, or those of a software) and `DestroyAccount` read what
`dependent: :destroy` will delete, `CommitDestroy` deletes it. `silent` holds the comments whose
fan-out never comes or was cut short, `contended` the posts and accounts that went while a comment on
the one or by the other was on its way.

### Favorites

`Like` and `CreateFavorite` are `favorites_controller.rb:5-8`; `Favorite.create` does not
raise if the post or the account has just gone, and the request goes on. `CheckNotified` and
`Notify` are the two statements of `create_notification_favorite!`. `Unlike` and `DeleteFavorite` find
one row and delete it. `DestroyPosts` and `DestroyAccount` read, `CommitDestroy` is guarded by the two
foreign keys of `favorites`.

### PostForms

A post is unborn, published, a draft, or gone. A form carries the status it asks for
("keep" if the page offers no choice), the software, and the pens. `twitter` and `brush` are
required like the software; a form without software stands for each form that leaves one of the
three blank. `Create` validates and `Insert` saves. `Edit` chooses among the paths of
`posts_controller.rb:67-97`:

- a complete form: `FirstSave`, `SecondSave` (lines 71 and 72), `LoadPens`, `DestroyPen`,
  `Cleaned` (line 73), `FinalSave` (75 or 80), and for a draft once more `DestroyPen`
  and `DraftSaved` (83);
- an incomplete draft: `SaveDraft` (89, with the pens that three refused updates have
  built), `LoadPens`, `DestroyPen`, `DraftSaved` (90);
- the admin: `LoadPens`, `DestroyPen`, `Cleaned`, `FinalSave`, with the pens gone even if
  the form is refused.

`contended` holds the posts two requests have worked on at once, with whoever removes
what a form relies on; `crossed` those whose last form has met another request about them, until a
form meets none. `Save` writes only the columns that differ from what the request has read, as ActiveRecord
does. A pen row names the form and the save that wrote it; this tells leftovers from what
should stay. `CreateSoftware` and `Destroy` make the catalogue and the accounts change under the
forms: `Destroy` is the destroy of one post, of a software with all its posts, drafts included, or of
an account, and `CommitDestroy` rolls back as a whole where a pen came in between.

### Tagging

`FindPost` is the `Post.find` at the start of a request. Between it and `SavePosts` lie several
transactions (`posts_controller.rb:68` and `:76`) and `save_posts` does not look again, so the post
may be gone by then and is mapped to tags all the same.
A form is a bag of names: how often the text field has each one. `SavePosts` plucks the names and
takes the two differences, which leave a repeated new name repeated; `Drop` is one turn of the first
loop, `Find`, `CreateTag` and `Map` are the statements of the second, `Saved` is its end. `CreateTag`
fails on the unique index if the name has come in between. `DestroyPosts` is the author's destroy of
the post found, which goes through `clean_tag` (`Count`, `Collect`, `CommitTag`), that of the admin, or
a cascade of a software or an account, which do not; `Collect` and `CommitPosts` end both.
Three records keep the races apart. `contended` are the posts whose last form met a second
form about them or a destroy; `raced` those of which any form ever met a destroy, or was between its
look-up and `save_posts` when its post was destroyed, which may leave a tagmap nobody will delete; `crowded` those whose last destroy met any other request.
A new draft (`posts_controller.rb:49-52`) never calls `save_posts`, so that its form is none here.

### BoardComments

The same fan-out for boards. The differences are what the module is about:
`DeleteComment` is all that the admin's controller does, while the public one goes on
with `CollectNotices` and `DeleteNotice`; `CommitDestroyBoard` deletes the comments but no
notification, since none carries a `board_id`; the boards of a deleted account go the same way
(`CommitDestroyAccount`). `leaked` holds the ids of comments that may go without their
notifications: those the admin deletes, those of a destroyed board, those of others on the boards of a
deleted account, those whose author's request is cut short or whose fan-out is still running.

### Inbox

One user and any number of tabs. `Index` is the query of the loop: `where(checked: false)` is put
on a relation that already has a limit and an offset, so that it yields a page of the unread
rows. `Mark` is one turn of the loop, `Show` the query of the view. `Arrive` and
`Remove` stand for the other modules: a notification is saved, or goes with what it is about.
One's own notifications are saved as read and filtered out by the view, and are left out.

### Accounts

`FindGuest` and `CreateGuest` are the two statements of `find_or_create_by!`, `FindForOauth` and
`CreateOauth` those of `find_for_oauth`; `Insert` fails if the address is taken. An address is
that of a person, of the guest, or the one `dummy_email` makes of the identity and the second.
`Rename` and `AdminUpdate` are the two profile pages. A *tie* is a follow or a notification between two
accounts, or something that is one account's own (a post, a board or a comment): `Begin` is the
lookup, `InsertTie` the insert, `DestroyAccount` and `CommitDestroyAccount` the cascade of
`user.rb:8-18` over all kinds in both directions. Whom a request may tie says `Reach`: a follow finds
both accounts, but the account to be notified is known from its post, board or comment only, which an
earlier race may have left behind.

`MC*` modules give the constants their values and the symmetry sets. Definitions that begin
with the comment "Mutated" are plausible bugs of the definition that follows; they are used
to test that a property can fail, and no specification refers to them.

## 4. What the runs check

| Run | Bounds | Shows |
|---|---|---|
| `post_comments` | 3 users, 2 of them may leave, 1 post, 2 threads, 2 comments, `FairSpec` | types, one notification per receiver, fan-out complete, a destroyed post or account leaves rows behind only in a race, `Announcements` is implemented, the owner hears of every comment that is not cut short |
| `post_comments_inbox` | 2 threads | **violated**: a notification outlives its post and breaks the owner's inbox |
| `favorites` | 2 users who may leave, 1 post, 2 threads, 3 likes | types, likes are announced and name what exists, notifications of what is gone only in a race, duplicates bounded by the threads |
| `favorites_dedupe` | 2 threads | **violated**: the owner is told twice |
| `post_forms` | 1 post, 1 pen, 1 software, 1 user, 2 threads, 3 forms | types, no pen of an intermediate save survives; a save of a stale row undoes nothing; races excepted, what is published has its software and author and shows its form |
| `post_forms_draft` | 1 thread | **violated**: a saved draft loses its pens |
| `tagging` | 2 posts, 1 name, up to twice in a form, 2 threads, 2 forms | types; races excepted, tags are those of the last form and move only towards it, no dangling tagmap, no orphan of an author |
| `board_comments` | 3 users who may leave, 1 board, 2 threads, 2 comments | types, one notification per receiver, fan-out complete, leaks come from known places only, `Announcements` is implemented |
| `board_comments_inbox` | 1 thread | **violated**: notifications outlive their board |
| `inbox` | 2 tabs, pages of 2, 4 notifications | types, the first page is marked before it is shown, each visit of it wears the badge off, the badge goes out |
| `inbox_pages` | 1 tab, 3 notifications | **violated**: the second page is shown and not marked |
| `accounts` | 2 accounts, 1 identity, 1 address, 2 threads, 2 ties | types, one account for an address and for an identity, a deleted account leaves ties only in a race |

*Why the bounds are enough.* The races of this code are between two requests: one reads and
writes, the other one writes in between; two threads show all of them and the proofs
below cover any number. Three users are an owner, a commenter and another one, so that
every receiver of a fan-out occurs; in `post_comments` the owner and one commenter may
leave, so that the other one has to hear although they do. Two forms that share one
name reach both sides of each statement of `save_posts`: the name is found, created, or refused
by the unique index, and the tag of one post is counted for the other. Two or three comments or forms allow a row to be
written, deleted and written again around a request that is under way; `Abort` and the destroys
are not bounded. Pages of two rows instead of twenty leave room for unread rows before, on and
behind a page with four notifications. `accounts` makes two accounts, which the guest,
a form or an identity may be behind in any mixture, over two possible seconds of
`dummy_email`. `MaxUser` and `MaxTie` count rows ever inserted, those under way
included.

*Where a property excepts races*, the exception is the history variable named in it:
`contended` (`OnlyRacesLeak`, `PublishedNamesWhatExists`, `TiesEndAtAccounts`, `TagsAreTheForms`,
`TagsOnlyTowardsTheForm`),
`crossed` (`PublishedShowsItsForm`), `raced` (`TagmapsBelong`), `crowded`
(`AuthorLeavesNoOrphan`), `leaked` (`OnlyKnownLeaks`) and `doubled` (`OneAccountPerPerson`). Pens and
tags are excepted only until the next form about the post that meets no other request. The forms of
*different* posts interleave in `Tagging` without exception. `post_comments_inbox` checks what
`OnlyRacesLeak` says of the inbox without the exception and finds the race. Section 6 proves the
converse: without the meetings the exceptions are empty. So such a property does not catch the race
it excepts, which the code has; it says that nothing else goes wrong and how far the damage
reaches. `AuthorLeavesNoOrphan` excepts besides the tags that a tagmap of a gone post
keeps: `clean_tag` counts that one (`post.rb:59`).

*What TLC tells apart.* `post_forms` has the `VIEW` `MCView`: of the rows a request is about to destroy
it keeps those that are still there. A pen row that is gone does not come back, since its form and its save
insert it once, and every action asks only for the rows that are there, so that two states of one view
have the same steps and the same properties. `tagging` has one too: of the tagmaps to be destroyed, and of
what a form asked for, it keeps what can still matter (rows and posts that are there, names known
to be on the post, which names a form has once it is at work). `accounts` forgets the name of
an account that was not made for the guest, the number of a tie that no like tie needs
to be told from, and deletions of accounts that nothing names any more. Threads, posts, pens, softwares, names, and users and boards without a
role are symmetry sets; `post_comments` and `inbox`, which check liveness, have none.

*Deadlock* is not checked. The bounds on ids and forms stop the models, and a site
without visitors rests.

*Fairness* is assumed in `post_comments` only: weak fairness of `Continue(t)`, the
steps a thread takes of its own accord. Puma runs each thread that has a request and the
statements neither wait for other requests nor retry. No fairness is assumed of the
arrival of requests nor of `Abort`. `BadgeGoesOut` needs none: it speaks of behaviours in which
the user opens the first page again and again, and states this as its premise.

## 5. What the runs found

Each finding is a disagreement of the code with its own comments, declarations or tests; the
counterexamples are those of the runs marked *violated*.

1. A notification that is saved while its post is being destroyed stays
   behind (`post.rb:116`, `post.rb:10`). If somebody else's comment caused it, the inbox of its
   receiver fails from then on; one's own rows are not shown (`notifications/index.html.erb:7`).
2. Two likes at once notify the owner twice, which `post.rb:77` means to avoid.
3. Saving a draft throws away its pens: the second `clean_pen` of the request destroys what the
   request has just saved (`posts_controller.rb:83` and `:90`).
4. Notifications about a board's comments outlive the board (`board.rb:6`).
5. Once the first page of the inbox has been read, opening the second marks nothing of what it lists
   (`notifications_controller.rb:5`).

What the models reach and no line of the repository rules out is listed with the hazards: a
published post without its required columns after two tabs saved it at once
(`posts_controller.rb:89`), a published post whose software was removed while its form was being
saved (`software.rb:2`), a draft without software on a profile page
(`users/show.html.erb:87`), the notification of a like that was not saved
(`favorites_controller.rb:7`), a tag that `clean_tag` takes from another post
(`post.rb:59`), tagmaps of a post that was destroyed after its form had found it
(`posts_controller.rb:68`), two accounts of one Twitter identity
(`user.rb:29`), a guest who cannot sign in after being renamed (`sessions_controller.rb:7`).

## 6. What is proved

All that the passing runs check, apart from the two liveness properties, is proved: the theorems of
the `*Proofs` modules hold for any users, posts, owners, names, identities, any set of
threads (finite where cardinalities are counted), any page size and any bound.

**Announcements.** `NobodyTwice` and `PromisesStayKept` hold of the abstract specification itself:
a receiver is told only if not told yet, and every step keeps what has been promised, `Write` because a
new comment has the greatest id and so gives nobody a claim on an older one, `Withdraw` by its
condition. They rest on ids that are given out once, and say why the refinement is
worth having.

**PostComments.** The inductive invariant adds to `TypeOK`: comments have ids of their own
between 1 and `lastId`, and so do the comments under way; two threads never fan out the same
comment; a notification's comment has been inserted, its visitor is the author and the
call that wrote it ("commenter" or "owner") fits its receiver. From these follow

- `NotifiedOnce`: two notifications of one comment to one receiver would need the owner both in
  the loop and in the last call, or two threads fanning out one comment;
- `FanOutIsComplete`: besides, each thread's `todo` holds every earlier commenter who
  stands and is not yet told; the owner's notification is there when the request has ended.
  The proof has to show that no destroy takes away the notification of a comment that
  stands while its receiver has a claim: a destroy of the comment removes both, that of an account
  the receiver or the comment, and what a destroy has read grows stale only in the harmless direction;
- `RacesAloneLeak`: a comment on its way keeps its post and its author, and a destroy knows all there
  is to delete, unless the two have met and `contended` says so;
- `CommentsAreAnnounced`: the refinement. Each action is mapped to a step of `Announcements` or
  to a stutter; the invariant supplies that `TellOne` and `TellLast` find the receiver untold and that
  `AllTold` holds when the owner has been told.

**BoardComments.** The same four along the same lines. A delete that takes several transactions
needs one thing more: the notifications that a request has collected are of a comment that is gone
already, so that deleting them one by one withdraws nothing anybody has a claim to. `OnlyTheKnownLeak`
follows each notification to its comment, to a request that is going to delete it, or
to `leaked`; a comment that is still being fanned out when it is deleted is in `leaked` from then on.

**Favorites.** `Announced` and `LikesNameTheLiving` rest on the foreign keys: a destroy that deletes a
notification, a post or an account deletes every like that goes with it or rolls back.
`RacesAloneLeak` adds what a destroy knows, as in `PostComments`. `BoundedDuplicates` counts
the notifications of a pair together with the threads that have found none: a thread joins
the second group only while the first is empty, so that the sum never exceeds the number of
threads. `SerialToldOnce` is its case of one thread.

**PostForms.** A pen names its form, and the number of a form is held by one request at most.
`InterimPensGo` follows a pen of an intermediate save from the save to the `clean_pen` that loads it
and passes `Cleaned` only when it is gone. `WhatIsPublishedIsNamed` says of a post that no two requests have
worked on: while a form about it is at work, what the form names exists if it was complete when it was
read, since a destroy that could take it away would have met the form; and the destroy of a
software or an account has read all posts that name it. `WhatIsPublishedShowsItsForm` has for each
place of an edit the pens the post may have there (`ShowInv`): those of earlier forms and saves up to the
cleaning, those still to be cleaned after it, none before the last save, those of the form after it.
It rests on a smaller fact than the property before it: a post that is not `crossed` has one form at work
at most, which has read the row as it is (`SingleInv`); whether its software and its author still stand
does not matter. A form that finds nobody at work makes this true of any post, whatever happened
to it before (`CrossedHeals`), since the pens it is going to clean are all there are.
`NoSaveUndoesAnother` is about any number of requests with rows read long ago: an `UPDATE` carries a
column only if the form has changed it (`WrittenColumns`), and a new post is held as its form came
(`NewRowsAreForms`).

**Tagging.** Ids are given out once and the unique index keeps a name single (`TagKeys`). Everything
else starts from who can have met whom (`Meetings`): while a form is at work beside a destroy, its post is
`raced` and `contended`; beside another form about the post, `contended`; a post that a request has found
and another is destroying is `raced` (`FoundPostsRace`); and the posts of a destroy beside
anything else at work are `crowded`. From this follow `Belong` (races
excepted, a post that was found or is being saved is there, the tags a form holds exist, no other post
uses a tag about to be destroyed, and what a destroy
has read is still all there is: `SavesLive`, `HeldTags`, `Unused`, `DoomedNow`) and `NoOrphans`, which keeps for a
destroy that is alone (`Lone`) that each tag of the post is still to be counted, used by another post, or
about to be destroyed (`CountedTags`). `TagsShown` says what a form is about to make of the names of its
post (`Underway`): what is there is asked for or to be dropped, what is asked for is there or to be
added. A form that begins alone establishes this from any state of the tables, dangling tagmaps
included, so `contended` heals; steps of other posts' forms keep it because the names of a post
hang on its own tagmaps only (`NamesStay`), and no tag goes away while such a form is at work.
`OnlyTowards` reads each step against `Underway`: what is to be dropped is not asked for, what is to be
added is, and the tag that a form holds still has the name it was found under.

**Inbox.** `FirstPageMarked`: the unread rows among the newest `PerPage` rows are among the newest
`PerPage` unread rows, since what is newer and unread is newer (`UnreadComeFirst`, by
cardinalities of subsets). So the loop for the first page starts with every unread row of the
page in `todo`, and takes it out of `todo` only when it marks it; a row that arrives later has a
greater number and is not on the list. `BadgeWearsOff` is what the liveness property `BadgeGoesOut`
rests on, step by step: unread rows never become more unless one arrives, the first page takes at
least the newest unread row (`NewestComesFirst`), and what has been worked off is read or gone.
`LaterPagesMarkNothing` explains the finding of `inbox_pages`: a visit of page p marks nothing unless
more than (p-1) pages of rows are unread, wherever on the pages these are.

**Accounts.** `OneAccountPerAddress` follows from the check at each insert and update.
`OnePersonOneAccount` adds that a request about to create the account of an identity is
alone with it (`MakersAreAlone`). `OnlyRacesLeaveTies` is the analogue of
`RacesAloneLeak` for accounts: `TyingToAccounts` and `DestroysKnowAll`, unless the two have met; what an
account has left behind leads only to accounts that are there or have met a race already (`Reach`).

**The exceptions are races.** A property that excepts a history variable would say little if that
could fill for other reasons. So for each there is a theorem in which the exception has gone and its place
is taken by a premise on which requests are at work together:

| Theorem | If always | then always, with nothing excepted |
|---|---|---|
| `PostCommentsProofs!AloneNothingLeaks` | a destroy of posts, a software or an account is alone | posts and accounts of comments and notifications exist, and inboxes render |
| `FavoritesProofs!AloneNothingLeaks` | the same | posts and visitors of notifications exist |
| `FavoritesProofs!ToldOnceIfLikesAreApart` | likes of one user on one post do not overlap | the owner is told once |
| `PostFormsProofs!ApartPublishedIsRight` | a destroy is alone, forms about one post do not overlap | what is published has its software, its author and the pens of its form |
| `TaggingProofs!AloneNothingDangles` | a destroy is alone, with no other request even between its look-up and `save_posts` | tagmaps have their post and tag, and no author leaves a tag without a post that is there |
| `TaggingProofs!ApartTagsAreTheForms` | besides, forms about one post do not overlap | a post has the tags of its form |
| `AccountsProofs!AloneNothingLeaks` | a delete of an account is alone | follows, notifications and all else have their accounts |
| `AccountsProofs!ApartOneForEach` | callbacks of one identity do not overlap | an identity has one account |

The premises hold of every behaviour with one thread, and of many with more: all requests that they
do not name interleave freely, and any request may be cut short anywhere. They say which meetings a lock or
a transaction in the code would have to rule out for the property to hold, within the steps that the models
tell apart: a request counts as at work from the first action that its module has of it. Each theorem is a
small invariant (the history variable stays empty) on top of the one with the exception.

The assumptions are those the modules name: `PostCommentsAssumption`, `BoardCommentsAssumption` and
`FavoritesAssumption` (owners are users, the pool is finite), `PostFormsAssumption` (authors are users,
"none" is neither a software nor a user and these are told apart), `TaggingAssumption` (bounds are
numbers), `InboxAssumption` (pages are not empty) and `AccountsAssumption` ("none" is no identity).

*Only model-checked*: the liveness properties `OwnerHearsOfEveryComment` and `BadgeGoesOut`, since
liveness is out of reach of TLAPS (the steps that make the badge go out are proved, that they
add up is not), and of course the properties that are violated.

## 7. Plan

Modules, in the order of what matters most: `PostComments`, `Favorites`, `PostForms`, `Tagging`,
`BoardComments`, `Inbox`, `Accounts`, `Announcements` with its two refinements, the software catalogue
(in `PostForms`) and the cascade of an account (in the modules of the tables it deletes from). All of them
are there, and so are the theorems planned for them.

What could follow: the listing pages as readers of `Favorites` and `PostForms` together (a draft among the
most liked posts, `posts_controller.rb:22`), which needs the two modules composed; lock waits of
MySQL between two cascades, which a deadlock would roll back like any other `Abort`.

## 8. What is not modelled

Devise, Active Storage, the views (apart from the conditions quoted at
the properties), stubs without behaviour (bookmarks, lists, homes, `Embed`), the listing pages, which only
read. `PROJECT.json` lists them with reasons.

The C files of the repository, `src/sqlite-autoconf-3290000` and the second release inside it, are
two unpacked copies of SQLite's own distribution: the amalgamated library, its shell and its Tcl binding.
The application neither builds nor changes them; it uses the `sqlite3` gem in development and tests
alone, and MySQL in production (`src/config/database.yml`). They are by far the most lines of the
repository and none of its logic, so nothing here models them; what the application relies on in its
database is described in section 2.
