-------------------------------- MODULE Posts --------------------------------
(***************************************************************************)
(* post-service (services/post/src): the posts, tags and post_tags tables, *)
(* the requests that create, update and delete posts, the user.deleted     *)
(* subscriber that archives them, and the events about posts.              *)
(*                                                                         *)
(* Every statement on the database is a step of its own, and so is every   *)
(* publication: nothing runs in a transaction.  A request that fails       *)
(* answers 500 and leaves the statements before it behind.                 *)
(*                                                                         *)
(* title, slug and content are one attribute, text.  A slug taken between  *)
(* ensureUniquSlug's look-up and the write makes the write fail before     *)
(* anything has changed, so it is not modelled.  Any writer or admin may   *)
(* be the author of, or edit, a post: who may do what is left out.         *)
(***************************************************************************)
EXTENDS Integers, Sequences, FiniteSets

CONSTANTS
  Posts,       \* the ids gen_random_uuid() may return
  Authors,     \* writers
  Departing,   \* writers whose accounts may be deleted
  Texts,       \* what a post may say
  Tags,        \* tag names, in lower case
  Repeats,     \* does a client's list ever name a tag twice, up to case?
  Requests,    \* slots for HTTP requests in flight
  Absent,      \* no row; a field that is not given
  MaxEvents,   \* bound: events about posts
  MaxFaults    \* bound: crashes, failed publications, and the faults of Search

ASSUME PostConstants ==
  /\ Departing \subseteq Authors
  /\ Absent \notin Posts
  /\ Repeats \in BOOLEAN
  /\ MaxEvents \in Nat
  /\ MaxFaults \in Nat

Statuses == {"draft", "published", "archived"}

ASSUME AbsentIsNoField == Absent \notin Statuses

VARIABLES
  post,     \* the posts table
  tagged,   \* the post_tags table: the tags of each post
  tags,     \* the tags table
  used,     \* post ids generated so far
  log,      \* the events published about posts, in stream order
  req,      \* requests in flight
  faults    \* faults so far

postVars == <<post, tagged, tags, used, log, req>>
vars == <<postVars, faults>>

\* dated: published_at is not null.
Row == [author : Authors, text : Texts, status : Statuses, dated : BOOLEAN]

ASSUME AbsentIsNoRow == Absent \notin Row

Event == [kind   : {"created", "updated", "published", "deleted"},
          post   : Posts,
          author : Authors \union {Absent},
          text   : Texts \union {Absent},
          tags   : SUBSET Tags,
          status : Statuses \union {Absent}]

(***************************************************************************)
(* A request between two awaits.                                           *)
(*   at     the statement it is about to make                              *)
(*   post   the post it is about                                           *)
(*   body   the fields the client sent and that are still to be written,   *)
(*          Absent for one that is not                                     *)
(*   seen   of the row that updatePost read first: was it published, had   *)
(*          it a publication date?  Absent for createPost                  *)
(*   row    the row its own INSERT or UPDATE returned                      *)
(*   left   the tags ensureTags still has to go through                    *)
(*   name   the tag ensureTags did not find and is about to insert         *)
(*   twice  does the client's list name a tag twice, up to case?           *)
(*   shown  the tags getPostTags returned                                  *)
(***************************************************************************)
Places == {"idle", "update", "unlink", "tags", "newtag", "link", "read",
           "announce", "publish", "delete", "retract"}

Body == [text : Texts \union {Absent}, tags : (SUBSET Tags) \union {Absent},
         status : Statuses \union {Absent}]

Seen == [public : BOOLEAN, dated : BOOLEAN]

ASSUME AbsentIsNotSeen == Absent \notin Seen

Request == [at : Places, post : Posts \union {Absent}, body : Body,
            seen : Seen \union {Absent}, row : Row \union {Absent},
            left : SUBSET Tags, name : Tags \union {Absent}, twice : BOOLEAN,
            shown : SUBSET Tags]

NoBody == [text |-> Absent, tags |-> Absent, status |-> Absent]

Idle == [at |-> "idle", post |-> Absent, body |-> NoBody, seen |-> Absent, row |-> Absent,
         left |-> {}, name |-> Absent, twice |-> FALSE, shown |-> {}]

Init ==
  /\ post = [p \in Posts |-> Absent]
  /\ tagged = [p \in Posts |-> {}]
  /\ tags = {}
  /\ used = {}
  /\ log = << >>
  /\ req = [r \in Requests |-> Idle]
  /\ faults = 0

-----------------------------------------------------------------------------
\* The bound MaxEvents: a request in flight may publish two events.
Room == Len(log) + 2 * Cardinality({r \in Requests : req[r].at # "idle"}) + 2 <= MaxEvents

CanFail == faults < MaxFaults

Become(r, new) == req' = [req EXCEPT ![r] = new]

Finish(r) == Become(r, Idle)

\* The tags a list in the body asks for.
Wanted(q) == IF q.body.tags = Absent THEN {} ELSE q.body.tags

-----------------------------------------------------------------------------
(* createPost.                                                             *)

CreatePost(r, p, a, body, twice) ==
  /\ Room
  /\ req[r].at = "idle"
  /\ p \notin used
  /\ body.text # Absent /\ body.tags # Absent /\ body.status \in {"draft", "published"}
  /\ twice => Repeats /\ body.tags # {}
  /\ LET new == [author |-> a, text |-> body.text, status |-> body.status,
                 dated |-> body.status = "published"] IN
       /\ post' = [post EXCEPT ![p] = new]
       /\ Become(r, [Idle EXCEPT !.at = "tags", !.post = p, !.row = new, !.twice = twice,
                                 !.body = [NoBody EXCEPT !.tags = body.tags],
                                 !.left = body.tags])
  /\ used' = used \union {p}
  /\ UNCHANGED <<tagged, tags, log, faults>>

-----------------------------------------------------------------------------
(* updatePost.                                                             *)

FindForUpdate(r, p, body, twice) ==
  /\ Room
  /\ req[r].at = "idle"
  /\ post[p] # Absent
  /\ twice => Repeats /\ body.tags \notin {Absent, {}}
  /\ Become(r, [Idle EXCEPT !.at = "update", !.post = p, !.body = body,
                            !.seen = [public |-> post[p].status = "published",
                                      dated |-> post[p].dated],
                            !.twice = twice])
  /\ UNCHANGED <<post, tagged, tags, used, log, faults>>

\* Mutant: the fields are set whether the body has them or not.
EditedBlindly(row, body, seen) ==
  [author |-> row.author, text |-> body.text, status |-> body.status,
   dated |-> row.dated \/ (body.status = "published" /\ ~ seen.dated)]

\* Mutant: published_at is set to null where it is not set to now.
EditedUndated(row, body, seen) ==
  [author |-> row.author,
   text   |-> IF body.text = Absent THEN row.text ELSE body.text,
   status |-> IF body.status = Absent THEN row.status ELSE body.status,
   dated  |-> body.status = "published" /\ ~ seen.dated]

\* The row with the body's fields set; published_at is set when the row
\* found at first had none.
Edited(row, body, seen) ==
  [author |-> row.author,
   text   |-> IF body.text = Absent THEN row.text ELSE body.text,
   status |-> IF body.status = Absent THEN row.status ELSE body.status,
   dated  |-> row.dated \/ (body.status = "published" /\ ~ seen.dated)]

\* Mutant: an upsert.
UpsertPost(r) ==
  LET q == req[r] IN
  /\ q.at = "update"
  /\ q.body.text # Absent /\ q.body.status # Absent
  /\ \E a \in Authors :
       LET new == [author |-> a, text |-> q.body.text, status |-> q.body.status,
                   dated |-> TRUE] IN
       /\ post' = [post EXCEPT ![q.post] = new]
       /\ Become(r, [q EXCEPT !.at = "read", !.row = new, !.body = NoBody])
  /\ UNCHANGED <<tagged, tags, used, log, faults>>

\* UPDATE posts ... RETURNING.  No row returns undefined, which goes on until
\* its title is asked for.
UpdatePost(r) ==
  LET q == req[r]
      new == IF post[q.post] = Absent THEN Absent ELSE Edited(post[q.post], q.body, q.seen)
  IN
  /\ q.at = "update"
  /\ post' = [post EXCEPT ![q.post] = new]
  /\ Become(r, [q EXCEPT !.at = IF q.body.tags = Absent THEN "read" ELSE "unlink",
                         !.body = [NoBody EXCEPT !.tags = q.body.tags],
                         !.row = new, !.left = Wanted(q)])
  /\ UNCHANGED <<tagged, tags, used, log, faults>>

\* DELETE FROM post_tags of this post.
UnlinkTags(r) ==
  LET q == req[r] IN
  /\ q.at = "unlink"
  /\ tagged' = [tagged EXCEPT ![q.post] = {}]
  /\ Become(r, [q EXCEPT !.at = "tags"])
  /\ UNCHANGED <<post, tags, used, log, faults>>

-----------------------------------------------------------------------------
(* ensureTags, post_tags and getPostTags, for both.                        *)

\* The look-up of one tag; an empty list needs none.
FindTag(r) ==
  LET q == req[r] IN
  /\ q.at = "tags"
  /\ IF q.left = {} THEN Become(r, [q EXCEPT !.at = "link"])
     ELSE \E g \in q.left :
            Become(r, IF g \in tags THEN [q EXCEPT !.left = q.left \ {g}]
                      ELSE [q EXCEPT !.at = "newtag", !.name = g])
  /\ UNCHANGED <<post, tagged, tags, used, log, faults>>

InsertTag(r) ==
  LET q == req[r] IN
  /\ q.at = "newtag"
  /\ q.name \notin tags
  /\ tags' = tags \union {q.name}
  /\ Become(r, [q EXCEPT !.at = "tags", !.left = q.left \ {q.name}, !.name = Absent])
  /\ UNCHANGED <<post, tagged, used, log, faults>>

\* tags.name is UNIQUE and another request was faster: 500.
TagRefused(r) ==
  /\ req[r].at = "newtag"
  /\ req[r].name \in tags
  /\ Finish(r)
  /\ UNCHANGED <<post, tagged, tags, used, log, faults>>

\* Mutant: no foreign key.
LinkableUnchecked(q) ==
  Wanted(q) = {} \/ (~ q.twice /\ Wanted(q) \intersect tagged[q.post] = {})

\* The foreign key and the primary key of post_tags.
Linkable(q) ==
  \/ Wanted(q) = {}
  \/ post[q.post] # Absent /\ ~ q.twice /\ Wanted(q) \intersect tagged[q.post] = {}

LinkTags(r) ==
  LET q == req[r] IN
  /\ q.at = "link"
  /\ Linkable(q)
  /\ tagged' = [tagged EXCEPT ![q.post] = @ \union Wanted(q)]
  /\ Become(r, [q EXCEPT !.at = "read", !.body = NoBody])
  /\ UNCHANGED <<post, tags, used, log, faults>>

LinkRefused(r) ==
  /\ req[r].at = "link"
  /\ ~ Linkable(req[r])
  /\ Finish(r)
  /\ UNCHANGED <<post, tagged, tags, used, log, faults>>

\* getPostTags, and then updated.title of a row that was not there.
ReadTags(r) ==
  LET q == req[r] IN
  /\ q.at = "read"
  /\ IF q.row = Absent THEN Finish(r)
     ELSE Become(r, [q EXCEPT !.at = "announce", !.shown = tagged[q.post]])
  /\ UNCHANGED <<post, tagged, tags, used, log, faults>>

-----------------------------------------------------------------------------
(* deletePost.                                                             *)

FindForDelete(r, p) ==
  /\ Room
  /\ req[r].at = "idle"
  /\ post[p] # Absent
  /\ Become(r, [Idle EXCEPT !.at = "delete", !.post = p])
  /\ UNCHANGED <<post, tagged, tags, used, log, faults>>

\* DELETE, whose links go with it (ON DELETE CASCADE).
DeletePost(r) ==
  LET q == req[r] IN
  /\ q.at = "delete"
  /\ post' = [post EXCEPT ![q.post] = Absent]
  /\ tagged' = [tagged EXCEPT ![q.post] = {}]
  /\ Become(r, [q EXCEPT !.at = "retract"])
  /\ UNCHANGED <<tags, used, log, faults>>

-----------------------------------------------------------------------------
(* The publications.                                                       *)

\* post.created carries the author, post.updated does not.
Announcement(q) ==
  [kind   |-> IF q.seen = Absent THEN "created" ELSE "updated",
   post   |-> q.post,
   author |-> IF q.seen = Absent THEN q.row.author ELSE Absent,
   text   |-> q.row.text,
   tags   |-> q.shown,
   status |-> q.row.status]

\* Mutant: the status the row ended up with is not looked at.
GoesPublicUnchecked(q) == q.seen # Absent => ~ q.seen.public

GoesPublic(q) ==
  /\ q.row.status = "published"
  /\ q.seen # Absent => ~ q.seen.public

Announce(r) ==
  LET q == req[r] IN
  /\ q.at = "announce"
  /\ log' = Append(log, Announcement(q))
  /\ IF GoesPublic(q) THEN Become(r, [q EXCEPT !.at = "publish"]) ELSE Finish(r)
  /\ UNCHANGED <<post, tagged, tags, used, faults>>

AnnouncePublished(r) ==
  LET q == req[r] IN
  /\ q.at = "publish"
  /\ log' = Append(log, [kind |-> "published", post |-> q.post, author |-> q.row.author,
                         text |-> q.row.text, tags |-> {}, status |-> Absent])
  /\ Finish(r)
  /\ UNCHANGED <<post, tagged, tags, used, faults>>

AnnounceDeleted(r) ==
  LET q == req[r] IN
  /\ q.at = "retract"
  /\ log' = Append(log, [kind |-> "deleted", post |-> q.post, author |-> Absent,
                         text |-> Absent, tags |-> {}, status |-> Absent])
  /\ Finish(r)
  /\ UNCHANGED <<post, tagged, tags, used, faults>>

\* js.publish throws: 500.
PublicationFails(r) ==
  /\ CanFail
  /\ req[r].at \in {"announce", "publish", "retract"}
  /\ Finish(r)
  /\ faults' = faults + 1
  /\ UNCHANGED <<post, tagged, tags, used, log>>

-----------------------------------------------------------------------------
\* The user.deleted subscriber, once or again.
ArchivePosts(a) ==
  /\ a \in Departing
  /\ post' = [p \in Posts |-> IF post[p] # Absent /\ post[p].author = a
                              THEN [post[p] EXCEPT !.status = "archived"] ELSE post[p]]
  /\ UNCHANGED <<tagged, tags, used, log, req, faults>>

\* The process dies with its requests.
CrashPosts ==
  /\ CanFail
  /\ \E r \in Requests : req[r].at # "idle"
  /\ req' = [r \in Requests |-> Idle]
  /\ faults' = faults + 1
  /\ UNCHANGED <<post, tagged, tags, used, log>>

-----------------------------------------------------------------------------
\* What the event loop does when an await is answered.
Resume(r) ==
  \/ UpdatePost(r) \/ UnlinkTags(r) \/ FindTag(r) \/ InsertTag(r) \/ TagRefused(r)
  \/ LinkTags(r) \/ LinkRefused(r) \/ ReadTags(r) \/ DeletePost(r)
  \/ Announce(r) \/ AnnouncePublished(r) \/ AnnounceDeleted(r)

Next ==
  \/ \E r \in Requests, p \in Posts :
        \/ \E body \in Body, twice \in BOOLEAN :
              \/ \E a \in Authors : CreatePost(r, p, a, body, twice)
              \/ FindForUpdate(r, p, body, twice)
        \/ FindForDelete(r, p)
  \/ \E r \in Requests : Resume(r) \/ PublicationFails(r)
  \/ \E a \in Authors : ArchivePosts(a)
  \/ CrashPosts

Spec == Init /\ [][Next]_vars

-----------------------------------------------------------------------------
TypeOK ==
  /\ post \in [Posts -> Row \union {Absent}]
  /\ tagged \in [Posts -> SUBSET Tags]
  /\ tags \in SUBSET Tags
  /\ used \in SUBSET Posts
  /\ log \in Seq(Event)
  /\ req \in [Requests -> Request]
  /\ faults \in 0 .. MaxFaults

(***************************************************************************)
(* A public post has a publication date.  updatePost sets published_at     *)
(* only when the row it read before its UPDATE had none; requests and      *)
(* archiving that come in between must not leave a published row without.  *)
(***************************************************************************)
PublishedHasDate ==
  \A p \in Posts : post[p] # Absent /\ post[p].status = "published" => post[p].dated

(***************************************************************************)
(* Whoever hears that a post was published has been told of the published  *)
(* post before: the search index knows it when the notification goes out.  *)
(* Requests overlap, publications fail and the process dies in between.    *)
(***************************************************************************)
PublishedIsAnnounced ==
  \A i \in DOMAIN log : log[i].kind = "published" =>
     \E j \in 1 .. (i - 1) :
        /\ log[j].post = log[i].post
        /\ log[j].kind \in {"created", "updated"}
        /\ log[j].status = "published"
        /\ log[j].text = log[i].text

(***************************************************************************)
(* A deleted post is gone for good: an update that read the row before the *)
(* deletion writes nothing back, neither the row nor tags of it.           *)
(***************************************************************************)
DeletedPostStaysGone == [][\A p \in used : post[p] = Absent => post'[p] = Absent]_vars

(***************************************************************************)
(* README.md:99, post.created is published by post and consumed by search  *)
(* and notification: once its request is over, a post in the table has     *)
(* been announced.                                                         *)
(***************************************************************************)
PostsAreAnnounced ==
  (\A r \in Requests : req[r].at = "idle")
    => \A p \in Posts : post[p] # Absent => \E i \in DOMAIN log : log[i].post = p

\* A link of post_tags joins rows that exist.
LinksJoinRows ==
  \A p \in Posts : tagged[p] # {} => post[p] # Absent /\ tagged[p] \subseteq tags
=============================================================================
