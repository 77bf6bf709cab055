------------------------------ MODULE Cascade ------------------------------
(***************************************************************************)
(* comment-service (services/comment/src) and notification-service         *)
(* (services/notification/src): the comments and notifications tables, the *)
(* requests on them, and the five durables that keep them in step with     *)
(* posts and users.                                                        *)
(*                                                                         *)
(* Neither table has a foreign key, and neither service asks another       *)
(* whether a post or a user exists: an access token outlives its user, so  *)
(* anybody may comment on anything at any time.  What post-service and     *)
(* user-service publish is external here and comes in any order.           *)
(*                                                                         *)
(* Rows are numbered as they are inserted (a fresh UUID each) and marked   *)
(* when they are deleted, which keeps what they said for the properties.   *)
(* The text of a comment and of a notification is left out.                *)
(***************************************************************************)
EXTENDS EventStream, FiniteSets

CONSTANTS
  Posts,        \* ids that comments are made on: nobody asks whether a post has them
  Existing,     \* those that posts have
  Users,        \* who comments, who is notified, who is deleted
  Requests,     \* slots for requests of comment-service in flight
  Absent,       \* a field an event or a request does not have
  MaxEvents,    \* bound: events on all subjects together
  MaxComments,  \* bound: comments inserted
  MaxFaults     \* bound: crashes, failed publications and statements, lost acks

ASSUME CascadeConstants ==
  /\ Existing \subseteq Posts
  /\ Absent \notin Posts \union Users
  /\ MaxEvents \in Nat
  /\ MaxComments \in Nat
  /\ MaxFaults \in Nat

VARIABLES
  comment,  \* the comments table
  notice,   \* the notifications table
  stream,   \* the subjects, each a sequence of events
  cons,     \* the durables
  up,       \* how many of its durables the running process of a service consumes
  req,      \* requests of comment-service in flight
  faults    \* faults so far

vars == <<comment, notice, stream, cons, up, req, faults>>

Subjects == {"post.deleted", "user.deleted", "comment.created", "post.published"}

Event == [post : Posts \union {Absent}, user : Users \union {Absent}, comment : Nat]

(***************************************************************************)
(* A comment: parent is 0 for none.  A notification: `of' is the event it  *)
(* was made from (its metadata name the comment or the post).  History:    *)
(*   posts, users  how many deletions had been published at its INSERT     *)
(*   early         notification-service had no durable of user.deleted yet *)
(***************************************************************************)
Comment == [here : BOOLEAN, post : Posts, author : Users, parent : Nat,
            posts : Nat, users : Nat]

Notice == [here : BOOLEAN, user : Users, read : BOOLEAN,
           of : [subject : Subjects, number : Nat], users : Nat, early : BOOLEAN]

Services == {"comment", "notification"}

\* The durables of a service, in the order in which its index.ts subscribes.
Boot == [comment |-> <<"comment-post-deleted", "comment-user-deleted">>,
         notification |-> <<"notification-comment-created", "notification-post-published",
                            "notification-user-deleted">>]

DurablesOf(v) == {Boot[v][i] : i \in DOMAIN Boot[v]}

Durables == DurablesOf("comment") \union DurablesOf("notification")

SubjectOf == [d \in Durables |->
                CASE d = "comment-post-deleted" -> "post.deleted"
                  [] d \in {"comment-user-deleted", "notification-user-deleted"} -> "user.deleted"
                  [] d = "notification-comment-created" -> "comment.created"
                  [] d = "notification-post-published" -> "post.published"]

\* The process of service v is through `await subscribe...' of durable d.
Consuming(v, d) == \E i \in 1 .. up[v] : Boot[v][i] = d

Listening(v) == up[v] = Len(Boot[v])

(***************************************************************************)
(* A request of comment-service between two awaits: where it is, and the   *)
(* comment it is about (the parent before an INSERT, 0 for none).          *)
(***************************************************************************)
Request == [at : {"idle", "insert", "announce", "delete"},
            post : Posts \union {Absent}, user : Users \union {Absent}, comment : Nat]

Idle == [at |-> "idle", post |-> Absent, user |-> Absent, comment |-> 0]

Init ==
  /\ comment = << >>
  /\ notice = << >>
  /\ stream = [s \in Subjects |-> << >>]
  /\ cons = [d \in Durables |-> NoConsumer]
  /\ up = [v \in Services |-> 0]
  /\ req = [r \in Requests |-> Idle]
  /\ faults = 0

-----------------------------------------------------------------------------
\* The bounds: a request that will publish comment.created counts as it starts.
Creating == {r \in Requests : req[r].at \in {"insert", "announce"}}

Room ==
  Len(stream["post.deleted"]) + Len(stream["user.deleted"]) + Len(stream["comment.created"])
    + Len(stream["post.published"]) + Cardinality(Creating) < MaxEvents

Spare ==
  Len(comment) + Cardinality({r \in Requests : req[r].at = "insert"}) < MaxComments

CanFail == faults < MaxFaults

-----------------------------------------------------------------------------
(* The services' start and end.                                            *)

\* Mutant: a durable added again starts anew.
AttachAnew(v) ==
  LET d == Boot[v][up[v] + 1] IN
  /\ ~ Listening(v)
  /\ cons' = [cons EXCEPT ![d] = SubscribeNew(NoConsumer, stream[SubjectOf[d]])]
  /\ up' = [up EXCEPT ![v] = @ + 1]
  /\ UNCHANGED <<comment, notice, stream, req, faults>>

\* The next subscribe...() of index.ts; its loop starts at once.
Attach(v) ==
  LET d == Boot[v][up[v] + 1] IN
  /\ ~ Listening(v)
  /\ cons' = [cons EXCEPT ![d] = SubscribeNew(@, stream[SubjectOf[d]])]
  /\ up' = [up EXCEPT ![v] = @ + 1]
  /\ UNCHANGED <<comment, notice, stream, req, faults>>

\* What a process that dies may have pulled of durable d.
Pulled(v, d) ==
  IF Consuming(v, d) THEN Prefetch(cons[d], stream[SubjectOf[d]]) ELSE {cons[d].next}

Crash(v) ==
  /\ CanFail
  /\ up[v] # 0
  /\ up' = [up EXCEPT ![v] = 0]
  /\ req' = IF v = "comment" THEN [r \in Requests |-> Idle] ELSE req
  /\ \E pulled \in [DurablesOf(v) -> 0 .. (MaxEvents + 1)] :
        /\ \A d \in DurablesOf(v) : pulled[d] \in Pulled(v, d)
        /\ cons' = [d \in Durables |-> IF d \in DurablesOf(v) THEN Drop(cons[d], pulled[d])
                                                              ELSE cons[d]]
  /\ faults' = faults + 1
  /\ UNCHANGED <<comment, notice, stream>>

-----------------------------------------------------------------------------
(* comment-service's requests.                                             *)

Serving(r) == Listening("comment") /\ req[r].at = "idle"

\* INSERT ... RETURNING, and the request goes on to publish.
Insert(r, p, u, parent) ==
  /\ comment' = Append(comment, [here |-> TRUE, post |-> p, author |-> u, parent |-> parent,
                                 posts |-> Len(stream["post.deleted"]),
                                 users |-> Len(stream["user.deleted"])])
  /\ req' = [req EXCEPT ![r] = [at |-> "announce", post |-> p, user |-> u,
                                comment |-> Len(comment) + 1]]

Present(c) == c \in DOMAIN comment /\ comment[c].here

\* createComment without a parent.
CreateComment(r, p, u) ==
  /\ Serving(r) /\ Room /\ Spare
  /\ Insert(r, p, u, 0)
  /\ UNCHANGED <<notice, stream, cons, up, faults>>

\* Mutant: the parent need not be on the same post.
FindAnyParent(r, p, u, c) ==
  /\ Serving(r) /\ Room /\ Spare
  /\ Present(c)
  /\ req' = [req EXCEPT ![r] = [at |-> "insert", post |-> p, user |-> u, comment |-> c]]
  /\ UNCHANGED <<comment, notice, stream, cons, up, faults>>

\* createComment of a reply: findFirst, 404 unless it is on the same post ...
FindParent(r, p, u, c) ==
  /\ Serving(r) /\ Room /\ Spare
  /\ Present(c)
  /\ comment[c].post = p
  /\ req' = [req EXCEPT ![r] = [at |-> "insert", post |-> p, user |-> u, comment |-> c]]
  /\ UNCHANGED <<comment, notice, stream, cons, up, faults>>

\* ... then the INSERT, whatever has become of the parent.
InsertReply(r) ==
  /\ req[r].at = "insert"
  /\ Insert(r, req[r].post, req[r].user, req[r].comment)
  /\ UNCHANGED <<notice, stream, cons, up, faults>>

\* js.publish of comment.created.
Announce(r) ==
  /\ req[r].at = "announce"
  /\ stream' = [stream EXCEPT !["comment.created"] =
                  Append(@, [post |-> req[r].post, user |-> req[r].user,
                             comment |-> req[r].comment])]
  /\ req' = [req EXCEPT ![r] = Idle]
  /\ UNCHANGED <<comment, notice, cons, up, faults>>

\* deleteComment by its author or an admin: findFirst ...
FindForDelete(r, c) ==
  /\ Serving(r)
  /\ Present(c)
  /\ req' = [req EXCEPT ![r] = [Idle EXCEPT !.at = "delete", !.comment = c]]
  /\ UNCHANGED <<comment, notice, stream, cons, up, faults>>

\* ... then DELETE, of this comment alone, and comment.deleted, which no
\* durable reads.
DeleteComment(r) ==
  /\ req[r].at = "delete"
  /\ comment' = [comment EXCEPT ![req[r].comment].here = FALSE]
  /\ req' = [req EXCEPT ![r] = Idle]
  /\ UNCHANGED <<notice, stream, cons, up, faults>>

\* js.publish throws: 500, and the row stays as it is.
PublicationFails(r) ==
  /\ CanFail
  /\ req[r].at = "announce"
  /\ req' = [req EXCEPT ![r] = Idle]
  /\ faults' = faults + 1
  /\ UNCHANGED <<comment, notice, stream, cons, up>>

-----------------------------------------------------------------------------
(* notification-service's requests, one UPDATE each.                       *)

MarkAsRead(n) ==
  /\ Listening("notification")
  /\ n \in DOMAIN notice /\ notice[n].here
  /\ notice' = [notice EXCEPT ![n].read = TRUE]
  /\ UNCHANGED <<comment, stream, cons, up, req, faults>>

MarkAllAsRead(u) ==
  /\ Listening("notification")
  /\ notice' = [n \in DOMAIN notice |-> IF notice[n].here /\ notice[n].user = u
                                        THEN [notice[n] EXCEPT !.read = TRUE] ELSE notice[n]]
  /\ UNCHANGED <<comment, stream, cons, up, req, faults>>

-----------------------------------------------------------------------------
\* What post-service and user-service publish.
Elsewhere(subject, e) ==
  /\ Room
  /\ stream' = [stream EXCEPT ![subject] = Append(@, e)]
  /\ UNCHANGED <<comment, notice, cons, up, req, faults>>

PostDeleted(p) == Elsewhere("post.deleted", [post |-> p, user |-> Absent, comment |-> 0])

UserDeleted(u) == Elsewhere("user.deleted", [post |-> Absent, user |-> u, comment |-> 0])

PostPublished(p, u) == Elsewhere("post.published", [post |-> p, user |-> u, comment |-> 0])

-----------------------------------------------------------------------------
(* The subscribers.  Each handles one message at a time: receive it, do    *)
(* one statement on the database, then ack.                                *)

Receives(v, d, s) ==
  /\ Consuming(v, d)
  /\ s \in Deliverable(cons[d], stream[SubjectOf[d]])
  /\ cons' = [cons EXCEPT ![d] = Receive(@, s)]

\* A row, marked as deleted if it is one of those the statement deletes.
Without(row, gone) == IF gone THEN [row EXCEPT !.here = FALSE] ELSE row

\* Mutant: replies are left.
TopCommentsOfPost(s) ==
  /\ Receives("comment", "comment-post-deleted", s)
  /\ comment' = [c \in DOMAIN comment |->
                   Without(comment[c], /\ comment[c].parent = 0
                                       /\ comment[c].post = stream["post.deleted"][s].post)]
  /\ UNCHANGED <<notice, stream, up, req, faults>>

\* DELETE FROM comments WHERE post_id.
CommentsOfPost(s) ==
  /\ Receives("comment", "comment-post-deleted", s)
  /\ comment' = [c \in DOMAIN comment |->
                   Without(comment[c], comment[c].post = stream["post.deleted"][s].post)]
  /\ UNCHANGED <<notice, stream, up, req, faults>>

\* DELETE FROM comments WHERE author_id.
CommentsOfUser(s) ==
  /\ Receives("comment", "comment-user-deleted", s)
  /\ comment' = [c \in DOMAIN comment |->
                   Without(comment[c], comment[c].author = stream["user.deleted"][s].user)]
  /\ UNCHANGED <<notice, stream, up, req, faults>>

\* createNotification, which never looks whether there is one already.
Notify(subject, s) ==
  notice' = Append(notice, [here |-> TRUE, user |-> stream[subject][s].user, read |-> FALSE,
                            of |-> [subject |-> subject, number |-> s],
                            users |-> Len(stream["user.deleted"]),
                            early |-> ~ Exists(cons["notification-user-deleted"])])

\* The receipt for the author of a comment.
NoticeOfComment(s) ==
  /\ Receives("notification", "notification-comment-created", s)
  /\ Notify("comment.created", s)
  /\ UNCHANGED <<comment, stream, up, req, faults>>

\* Mutant: the post is taken for its author.
NoticeToPost(s) ==
  /\ Receives("notification", "notification-post-published", s)
  /\ notice' = Append(notice, [here |-> TRUE, user |-> stream["post.published"][s].post,
                               read |-> FALSE, of |-> [subject |-> "post.published", number |-> s],
                               users |-> 0, early |-> FALSE])
  /\ UNCHANGED <<comment, stream, up, req, faults>>

\* The notification of the author of a post.
NoticeOfPost(s) ==
  /\ Receives("notification", "notification-post-published", s)
  /\ Notify("post.published", s)
  /\ UNCHANGED <<comment, stream, up, req, faults>>

\* Mutant: only what has been read is cleaned up.
ReadNoticesOfUser(s) ==
  /\ Receives("notification", "notification-user-deleted", s)
  /\ notice' = [n \in DOMAIN notice |->
                  Without(notice[n], /\ notice[n].user = stream["user.deleted"][s].user
                                     /\ notice[n].read)]
  /\ UNCHANGED <<comment, stream, up, req, faults>>

\* deleteUserNotifications.
NoticesOfUser(s) ==
  /\ Receives("notification", "notification-user-deleted", s)
  /\ notice' = [n \in DOMAIN notice |->
                  Without(notice[n], notice[n].user = stream["user.deleted"][s].user)]
  /\ UNCHANGED <<comment, stream, up, req, faults>>

\* Mutant: nak in place of ack.
NakHandled(d) ==
  /\ cons[d].open # 0
  /\ cons' = [cons EXCEPT ![d] = Return(@)]
  /\ UNCHANGED <<comment, notice, stream, up, req, faults>>

AckHandled(d) ==
  /\ cons[d].open # 0
  /\ cons' = [cons EXCEPT ![d] = Ack(@)]
  /\ UNCHANGED <<comment, notice, stream, up, req, faults>>

\* The ack does not arrive: the message comes again.
AckLost(d) ==
  /\ CanFail
  /\ cons[d].open # 0
  /\ cons' = [cons EXCEPT ![d] = Return(@)]
  /\ faults' = faults + 1
  /\ UNCHANGED <<comment, notice, stream, up, req>>

\* Mutant: the message is acked although the statement failed.
AckUnhandled(v, d, s) ==
  /\ CanFail
  /\ Consuming(v, d)
  /\ s \in Deliverable(cons[d], stream[SubjectOf[d]])
  /\ cons' = [cons EXCEPT ![d] = Ack(Receive(@, s))]
  /\ faults' = faults + 1
  /\ UNCHANGED <<comment, notice, stream, up, req>>

\* A database error stops the statement: nak, nothing written.
NakUnhandled(v, d, s) ==
  /\ CanFail
  /\ Consuming(v, d)
  /\ s \in Deliverable(cons[d], stream[SubjectOf[d]])
  /\ cons' = [cons EXCEPT ![d] = Return(Receive(@, s))]
  /\ faults' = faults + 1
  /\ UNCHANGED <<comment, notice, stream, up, req>>

-----------------------------------------------------------------------------
Step(r) == InsertReply(r) \/ Announce(r) \/ DeleteComment(r)

Numbers == 1 .. MaxEvents

Handler(d) ==
  \E s \in Numbers : \/ d = "comment-post-deleted" /\ CommentsOfPost(s)
                     \/ d = "comment-user-deleted" /\ CommentsOfUser(s)
                     \/ d = "notification-comment-created" /\ NoticeOfComment(s)
                     \/ d = "notification-post-published" /\ NoticeOfPost(s)
                     \/ d = "notification-user-deleted" /\ NoticesOfUser(s)

Next ==
  \/ \E v \in Services :
        \/ Attach(v)
        \/ Crash(v)
        \/ \E d \in DurablesOf(v), s \in Numbers : NakUnhandled(v, d, s)
  \/ \E r \in Requests :
        \/ \E p \in Posts, u \in Users :
              CreateComment(r, p, u) \/ \E c \in DOMAIN comment : FindParent(r, p, u, c)
        \/ \E c \in DOMAIN comment : FindForDelete(r, c)
        \/ Step(r)
        \/ PublicationFails(r)
  \/ \E n \in DOMAIN notice : MarkAsRead(n)
  \/ \E u \in Users : MarkAllAsRead(u) \/ UserDeleted(u)
  \/ \E p \in Existing : PostDeleted(p) \/ \E u \in Users : PostPublished(p, u)
  \/ \E d \in Durables : Handler(d) \/ AckHandled(d) \/ AckLost(d)

Spec == Init /\ [][Next]_vars

(***************************************************************************)
(* The platform restarts a dead service, the event loop resumes an await   *)
(* that is answered, and the stream hands out what is due.                 *)
(***************************************************************************)
Fairness ==
  /\ \A v \in Services : WF_vars(Attach(v))
  /\ \A r \in Requests : WF_vars(Step(r))
  /\ \A d \in Durables : WF_vars(Handler(d)) /\ WF_vars(AckHandled(d))

FairSpec == Spec /\ Fairness

-----------------------------------------------------------------------------
TypeOK ==
  /\ comment \in Seq(Comment)
  /\ notice \in Seq(Notice)
  /\ stream \in [Subjects -> Seq(Event)]
  /\ cons \in [Durables -> Consumer]
  /\ up \in [Services -> 0 .. 3] /\ up["comment"] <= 2
  /\ req \in [Requests -> Request]
  /\ faults \in 0 .. MaxFaults

(***************************************************************************)
(* No comment outlives its post or its author by accident: once            *)
(* comment-service is through with a deletion, the only comments left on   *)
(* that post, or of that user, are those made after the deletion had been  *)
(* published.  Crashes, naks, redelivery, requests in flight and the       *)
(* DeliverPolicy.New of the durables may not let one slip through.         *)
(***************************************************************************)
CommentsGoWithPostAndAuthor ==
  \A c \in DOMAIN comment : comment[c].here =>
     /\ \A s \in DOMAIN stream["post.deleted"] :
           /\ Applied(cons["comment-post-deleted"], s)
           /\ stream["post.deleted"][s].post = comment[c].post
           => s <= comment[c].posts
     /\ \A s \in DOMAIN stream["user.deleted"] :
           /\ Applied(cons["comment-user-deleted"], s)
           /\ stream["user.deleted"][s].user = comment[c].author
           => s <= comment[c].users

(***************************************************************************)
(* Likewise a user's notifications, except those made before the durable   *)
(* of user.deleted exists: notification-service handles comment.created    *)
(* before it subscribes to user.deleted (index.ts), and a user deleted in  *)
(* between keeps what he was sent.                                         *)
(***************************************************************************)
NoticesGoWithUser ==
  \A n \in DOMAIN notice : notice[n].here /\ ~ notice[n].early =>
     \A s \in DOMAIN stream["user.deleted"] :
        /\ Applied(cons["notification-user-deleted"], s)
        /\ stream["user.deleted"][s].user = notice[n].user
        => s <= notice[n].users

(***************************************************************************)
(* The replies to a comment are on its post, although the parent is looked *)
(* up in one statement and the reply inserted in another.                  *)
(***************************************************************************)
RepliesStayOnPost ==
  \A c \in DOMAIN comment : comment[c].parent # 0 =>
     /\ comment[c].parent < c
     /\ comment[comment[c].parent].post = comment[c].post

(***************************************************************************)
(* As long as nothing fails, nobody is told twice: createNotification      *)
(* relies on each event being handled once.                                *)
(***************************************************************************)
OneNoticePerEvent ==
  faults = 0 => \A m, n \in DOMAIN notice : notice[m].of = notice[n].of => m = n

(***************************************************************************)
(* A comment whose post is deleted goes, whatever fails on the way.        *)
(***************************************************************************)
DeletionReachesComments ==
  \A c \in 1 .. MaxComments :
     (/\ Present(c)
      /\ \E s \in DOMAIN stream["post.deleted"] :
            stream["post.deleted"][s].post = comment[c].post /\ s > comment[c].posts)
     ~> ~ Present(c)

(***************************************************************************)
(* Every event that a durable of notifications has yet to see is told,     *)
(* whatever fails on the way.                                              *)
(***************************************************************************)
EventsAreTold ==
  \A d \in {"notification-comment-created", "notification-post-published"}, s \in Numbers :
     (/\ s \in DOMAIN stream[SubjectOf[d]]
      /\ Exists(cons[d])
      /\ ~ Applied(cons[d], s))
     ~> \E n \in DOMAIN notice : notice[n].of = [subject |-> SubjectOf[d], number |-> s]
=============================================================================
