---------------------------- MODULE CascadeProofs ----------------------------
(***************************************************************************)
(* Theorems about Cascade, for every set of posts, users and request slots *)
(* and every bound: its types, that replies stay on their post, that       *)
(* neither comments nor notifications outlive what they depend on, and     *)
(* that nobody is told of an event twice unless something fails.           *)
(***************************************************************************)
EXTENDS Cascade, EventStreamProofs

-----------------------------------------------------------------------------
(* The inductive invariants.                                               *)

\* What a request holds where it is.
RequestsSound ==
  \A r \in Requests :
     /\ req[r].at \in {"insert", "announce"} => req[r].post \in Posts /\ req[r].user \in Users
     /\ req[r].at \in {"insert", "delete"} => req[r].comment \in DOMAIN comment

\* The events that make notifications say whose they are.
EventsSound ==
  \A b \in {"comment.created", "post.published"} :
     \A s \in DOMAIN stream[b] : stream[b][s].user \in Users

DurablesFit == \A d \in Durables : cons[d] \in DurableOf(stream[SubjectOf[d]])

TInv == TypeOK /\ RequestsSound /\ EventsSound /\ DurablesFit

\* A reply that is about to be inserted has seen its parent on its post.
ParentsFound ==
  \A r \in Requests :
     req[r].at = "insert" => comment[req[r].comment].post = req[r].post

\* Nothing is consumed or inserted before the durables that clean up exist.
Heard ==
  /\ \A v \in Services : \A i \in 1 .. up[v] : Exists(cons[Boot[v][i]])
  /\ comment # << >> => /\ Exists(cons["comment-post-deleted"])
                        /\ Exists(cons["comment-user-deleted"])
  /\ \A n \in DOMAIN notice : ~ notice[n].early => Exists(cons["notification-user-deleted"])

-----------------------------------------------------------------------------
(* The tables of durables.                                                 *)
LEMMA Statics ==
  /\ Services = {"comment", "notification"}
  /\ Len(Boot["comment"]) = 2 /\ Len(Boot["notification"]) = 3
  /\ Boot["comment"][1] = "comment-post-deleted"
  /\ Boot["comment"][2] = "comment-user-deleted"
  /\ Boot["notification"][1] = "notification-comment-created"
  /\ Boot["notification"][2] = "notification-post-published"
  /\ Boot["notification"][3] = "notification-user-deleted"
  /\ Durables = {"comment-post-deleted", "comment-user-deleted",
                 "notification-comment-created", "notification-post-published",
                 "notification-user-deleted"}
  /\ \A v \in Services : DurablesOf(v) \subseteq Durables
  /\ SubjectOf \in [Durables -> Subjects]
  /\ SubjectOf["comment-post-deleted"] = "post.deleted"
  /\ SubjectOf["comment-user-deleted"] = "user.deleted"
  /\ SubjectOf["notification-comment-created"] = "comment.created"
  /\ SubjectOf["notification-post-published"] = "post.published"
  /\ SubjectOf["notification-user-deleted"] = "user.deleted"
<1>1. /\ Services = {"comment", "notification"}
      /\ Boot["comment"] = <<"comment-post-deleted", "comment-user-deleted">>
      /\ Boot["notification"] = <<"notification-comment-created",
                                  "notification-post-published", "notification-user-deleted">>
  BY DEF Services, Boot
<1>2. DOMAIN Boot["comment"] = 1 .. 2 /\ DOMAIN Boot["notification"] = 1 .. 3
  BY <1>1
<1>3. DurablesOf("comment") = {"comment-post-deleted", "comment-user-deleted"}
  <2>1. DurablesOf("comment") = {Boot["comment"][i] : i \in 1 .. 2}
    BY <1>2 DEF DurablesOf
  <2>2. 1 .. 2 = {1, 2}
    OBVIOUS
  <2> QED
    BY <1>1, <2>1, <2>2
<1>4. DurablesOf("notification") = {"notification-comment-created",
                           "notification-post-published", "notification-user-deleted"}
  <2>1. DurablesOf("notification") = {Boot["notification"][i] : i \in 1 .. 3}
    BY <1>2 DEF DurablesOf
  <2>2. 1 .. 3 = {1, 2, 3}
    OBVIOUS
  <2> QED
    BY <1>1, <2>1, <2>2
<1>5. Durables = {"comment-post-deleted", "comment-user-deleted",
                  "notification-comment-created", "notification-post-published",
                  "notification-user-deleted"}
  BY <1>3, <1>4 DEF Durables
<1> QED
  BY <1>1, <1>3, <1>4, <1>5 DEF SubjectOf, Subjects

(* A fault is only taken while the budget lasts.                           *)
LEMMA FaultBudget ==
  ASSUME TypeOK, CanFail
  PROVE  faults + 1 \in 0 .. MaxFaults
BY CascadeConstants DEF TypeOK, CanFail

(* The operations on the durables keep their types; what is delivered has  *)
(* been published.                                                         *)
LEMMA DurableSteps ==
  ASSUME TInv, NEW d \in Durables
  PROVE  /\ stream[SubjectOf[d]] \in Seq(Event)
         /\ cons[d] \in DurableOf(stream[SubjectOf[d]])
         /\ SubscribeNew(cons[d], stream[SubjectOf[d]]) \in DurableOf(stream[SubjectOf[d]])
         /\ \A s \in Deliverable(cons[d], stream[SubjectOf[d]]) :
               /\ s \in DOMAIN stream[SubjectOf[d]]
               /\ Receive(cons[d], s) \in DurableOf(stream[SubjectOf[d]])
               /\ Return(Receive(cons[d], s)) \in DurableOf(stream[SubjectOf[d]])
         /\ Ack(cons[d]) \in DurableOf(stream[SubjectOf[d]])
         /\ cons[d].open # 0 => Return(cons[d]) \in DurableOf(stream[SubjectOf[d]])
         /\ \A k \in Prefetch(cons[d], stream[SubjectOf[d]]) :
               Drop(cons[d], k) \in DurableOf(stream[SubjectOf[d]])
<1>1. stream[SubjectOf[d]] \in Seq(Event) /\ cons[d] \in DurableOf(stream[SubjectOf[d]])
  BY Statics DEF TInv, TypeOK, DurablesFit
<1> QED
  BY <1>1, DurableOperations

(* A durable of which nothing was pulled counts as dropped where it is.    *)
LEMMA PulledIsPrefetch ==
  ASSUME TInv, NEW v, NEW d \in Durables
  PROVE  Pulled(v, d) \subseteq Prefetch(cons[d], stream[SubjectOf[d]])
<1>1. cons[d] \in DurableOf(stream[SubjectOf[d]]) /\ Len(stream[SubjectOf[d]]) \in Nat
  BY DurableSteps
<1> QED
  BY <1>1 DEF Pulled, Prefetch, Exists, DurableOf, Consumer

(* Whatever happens to the durables in a step that publishes nothing, they *)
(* remain durables of their subjects.                                      *)
LEMMA DurableMoves ==
  ASSUME TInv, UNCHANGED stream, NEW d \in Durables, NEW c,
         cons' = [cons EXCEPT ![d] = c], c \in DurableOf(stream[SubjectOf[d]])
  PROVE  cons' \in [Durables -> Consumer] /\ DurablesFit'
<1>1. c \in Consumer
  BY DEF DurableOf
<1> QED
  BY <1>1 DEF TInv, TypeOK, DurablesFit

(* A publication leaves every durable one of its subject.                  *)
LEMMA DurablesOutgrown ==
  ASSUME TInv, UNCHANGED cons, NEW b \in Subjects, NEW e \in Event,
         stream' = [stream EXCEPT ![b] = Append(@, e)]
  PROVE  stream' \in [Subjects -> Seq(Event)] /\ DurablesFit'
<1>1. stream \in [Subjects -> Seq(Event)] /\ stream[b] \in Seq(Event)
  BY DEF TInv, TypeOK
<1>2. stream' \in [Subjects -> Seq(Event)]
  BY <1>1
<1>3. ASSUME NEW d \in Durables
      PROVE  cons[d] \in DurableOf(stream'[SubjectOf[d]])
  <2>1. SubjectOf[d] \in Subjects /\ cons[d] \in DurableOf(stream[SubjectOf[d]])
    BY Statics DEF TInv, DurablesFit
  <2>2. CASE SubjectOf[d] = b
    BY <1>1, <2>1, <2>2, DurableAppend
  <2>3. CASE SubjectOf[d] # b
    BY <1>1, <2>1, <2>3
  <2> QED
    BY <2>2, <2>3
<1> QED
  BY <1>2, <1>3 DEF DurablesFit

(* A publication that says whose notification it makes keeps the events    *)
(* sound.                                                                  *)
LEMMA EventsGrow ==
  ASSUME TInv, NEW b \in Subjects, NEW e \in Event,
         b \in {"comment.created", "post.published"} => e.user \in Users,
         stream' = [stream EXCEPT ![b] = Append(@, e)]
  PROVE  EventsSound'
<1>1. stream \in [Subjects -> Seq(Event)] /\ stream[b] \in Seq(Event)
  BY DEF TInv, TypeOK
<1> SUFFICES ASSUME NEW a \in {"comment.created", "post.published"}, NEW s \in DOMAIN stream'[a]
             PROVE  stream'[a][s].user \in Users
  BY DEF EventsSound
<1>2. a \in Subjects
  BY DEF Subjects
<1>3. CASE a = b /\ s = Len(stream[b]) + 1
  BY <1>1, <1>3
<1>4. CASE ~ (a = b /\ s = Len(stream[b]) + 1)
  <2>1. s \in DOMAIN stream[a] /\ stream'[a][s] = stream[a][s]
    BY <1>1, <1>2, <1>4
  <2> QED
    BY <2>1 DEF TInv, EventsSound
<1> QED
  BY <1>3, <1>4

(* Marking rows keeps a table a table of the same length.                  *)
LEMMA MarkedTable ==
  ASSUME NEW S, NEW table \in Seq(S), NEW new, DOMAIN new = DOMAIN table,
         new = [i \in DOMAIN table |-> new[i]],
         \A i \in DOMAIN table : new[i] \in S
  PROVE  new \in Seq(S) /\ Len(new) = Len(table)
<1>1. Len(table) \in Nat /\ DOMAIN table = 1 .. Len(table)
  OBVIOUS
<1>2. new \in [1 .. Len(table) -> S]
  BY <1>1
<1> QED
  BY <1>1, <1>2

-----------------------------------------------------------------------------
(* The initial states are typed.                                           *)
LEMMA TInvInit == Init => TInv
<1> SUFFICES ASSUME Init PROVE TInv
  OBVIOUS
<1>1. TypeOK
  <2>1. Idle \in Request
    BY DEF Idle, Request
  <2>2. NoConsumer \in Consumer
    BY DEF NoConsumer, Consumer
  <2>3. /\ << >> \in Seq(Event)
        /\ << >> \in Seq(Comment)
        /\ << >> \in Seq(Notice)
    OBVIOUS
  <2>4. stream \in [Subjects -> Seq(Event)] /\ comment \in Seq(Comment) /\ notice \in Seq(Notice)
    BY <2>3 DEF Init
  <2>5. cons \in [Durables -> Consumer] /\ req \in [Requests -> Request]
    BY <2>1, <2>2 DEF Init
  <2>6. up \in [Services -> 0 .. 3] /\ up["comment"] <= 2 /\ faults \in 0 .. MaxFaults
    BY CascadeConstants, Statics DEF Init
  <2> QED
    BY <2>4, <2>5, <2>6 DEF TypeOK
<1>2. RequestsSound
  BY DEF Init, Idle, RequestsSound
<1>3. EventsSound
  BY DEF Init, EventsSound, Subjects
<1>4. DurablesFit
  <2> SUFFICES ASSUME NEW d \in Durables PROVE cons[d] \in DurableOf(stream[SubjectOf[d]])
    BY DEF DurablesFit
  <2>1. cons[d] = NoConsumer /\ stream[SubjectOf[d]] \in Seq(Event)
    BY <1>1, Statics DEF Init, TypeOK
  <2> QED
    BY <2>1, DurableInitially
<1> QED
  BY <1>1, <1>2, <1>3, <1>4 DEF TInv

(* The INSERT of a comment appends a typed row and leaves a sound request. *)
LEMMA InsertTyped ==
  ASSUME TInv, NEW r \in Requests, NEW p \in Posts, NEW u \in Users, NEW parent \in Nat,
         Insert(r, p, u, parent), UNCHANGED <<notice, stream, cons, up, faults>>
  PROVE  TInv'
<1> DEFINE row == [here |-> TRUE, post |-> p, author |-> u, parent |-> parent,
                   posts |-> Len(stream["post.deleted"]), users |-> Len(stream["user.deleted"])]
           new == [at |-> "announce", post |-> p, user |-> u, comment |-> Len(comment) + 1]
<1>1. comment \in Seq(Comment) /\ Len(comment) \in Nat
  BY DEF TInv, TypeOK
<1>2. row \in Comment
  BY DEF TInv, TypeOK, Subjects, Comment
<1>3. comment' = Append(comment, row) /\ req' = [req EXCEPT ![r] = new]
  BY DEF Insert
<1>4. comment' \in Seq(Comment) /\ DOMAIN comment \subseteq DOMAIN comment'
  BY <1>1, <1>2, <1>3
<1>5. new \in Request
  BY <1>1 DEF Request
<1>6. req' \in [Requests -> Request]
  BY <1>3, <1>5 DEF TInv, TypeOK
<1>7. RequestsSound'
  <2> SUFFICES ASSUME NEW q \in Requests
               PROVE  /\ req'[q].at \in {"insert", "announce"}
                           => req'[q].post \in Posts /\ req'[q].user \in Users
                      /\ req'[q].at \in {"insert", "delete"} => req'[q].comment \in DOMAIN comment'
    BY DEF RequestsSound
  <2>1. CASE q = r
    BY <1>3, <2>1 DEF TInv, TypeOK
  <2>2. CASE q # r
    BY <1>3, <1>4, <2>2 DEF TInv, TypeOK, RequestsSound
  <2> QED
    BY <2>1, <2>2
<1> QED
  BY <1>4, <1>6, <1>7 DEF TInv, TypeOK, EventsSound, DurablesFit

(* A step that only gives a request something else to do.                  *)
LEMMA BecomeTyped ==
  ASSUME TInv, NEW r \in Requests, NEW new \in Request,
         req' = [req EXCEPT ![r] = new], UNCHANGED <<comment, notice, stream, cons, up>>,
         faults' \in 0 .. MaxFaults,
         new.at \in {"insert", "announce"} => new.post \in Posts /\ new.user \in Users,
         new.at \in {"insert", "delete"} => new.comment \in DOMAIN comment
  PROVE  TInv'
<1>1. req' \in [Requests -> Request]
  BY DEF TInv, TypeOK
<1>2. RequestsSound'
  <2> SUFFICES ASSUME NEW q \in Requests
               PROVE  /\ req'[q].at \in {"insert", "announce"}
                           => req'[q].post \in Posts /\ req'[q].user \in Users
                      /\ req'[q].at \in {"insert", "delete"} => req'[q].comment \in DOMAIN comment'
    BY DEF RequestsSound
  <2>1. CASE q = r
    BY <2>1 DEF TInv, TypeOK
  <2>2. CASE q # r
    BY <2>2 DEF TInv, TypeOK, RequestsSound
  <2> QED
    BY <2>1, <2>2
<1> QED
  BY <1>1, <1>2 DEF TInv, TypeOK, EventsSound, DurablesFit

(* A step that only moves durables.                                        *)
LEMMA MoveTyped ==
  ASSUME TInv, UNCHANGED <<comment, notice, stream, up, req>>, faults' \in 0 .. MaxFaults,
         NEW d \in Durables, NEW c \in DurableOf(stream[SubjectOf[d]]),
         cons' = [cons EXCEPT ![d] = c]
  PROVE  TInv'
<1>1. cons' \in [Durables -> Consumer] /\ DurablesFit'
  BY DurableMoves
<1> QED
  BY <1>1 DEF TInv, TypeOK, EventsSound, RequestsSound

(* The handlers of comment-service leave typed rows.                       *)
LEMMA CommentsMarked ==
  ASSUME TInv, NEW d \in Durables, NEW s, NEW v, Receives(v, d, s),
         comment' = [c \in DOMAIN comment |-> comment'[c]],
         \A c \in DOMAIN comment :
            comment'[c] = comment[c] \/ comment'[c] = [comment[c] EXCEPT !.here = FALSE],
         UNCHANGED <<notice, stream, up, req, faults>>
  PROVE  TInv'
<1>1. comment \in Seq(Comment)
  BY DEF TInv, TypeOK
<1>2. \A c \in DOMAIN comment : comment'[c] \in Comment
  <2> SUFFICES ASSUME NEW c \in DOMAIN comment PROVE comment'[c] \in Comment
    OBVIOUS
  <2>1. comment[c] \in Comment
    BY <1>1
  <2> QED
    BY <2>1 DEF Comment
<1>3. comment' \in Seq(Comment) /\ Len(comment') = Len(comment)
  BY <1>1, <1>2, MarkedTable
<1>4. DOMAIN comment' = DOMAIN comment
  BY <1>1, <1>3
<1>5. cons' \in [Durables -> Consumer] /\ DurablesFit'
  BY DurableSteps, DurableMoves DEF Receives
<1> QED
  BY <1>3, <1>4, <1>5 DEF TInv, TypeOK, EventsSound, RequestsSound

(* A notification is typed if its event says whose it is.                  *)
LEMMA NotifyTyped ==
  ASSUME TInv, NEW d \in {"notification-comment-created", "notification-post-published"},
         NEW s, NEW v, Receives(v, d, s), Notify(SubjectOf[d], s),
         UNCHANGED <<comment, stream, up, req, faults>>
  PROVE  TInv'
<1>1. d \in Durables /\ SubjectOf[d] \in {"comment.created", "post.published"}
  BY Statics
<1>2. s \in DOMAIN stream[SubjectOf[d]]
  BY <1>1, DurableSteps DEF Receives
<1>3. stream[SubjectOf[d]][s].user \in Users /\ s \in Nat
  <2>1. stream[SubjectOf[d]] \in Seq(Event)
    BY <1>1, DurableSteps
  <2> QED
    BY <1>1, <1>2, <2>1 DEF TInv, EventsSound
<1>4. Len(stream["user.deleted"]) \in Nat
  BY DEF TInv, TypeOK, Subjects
<1>5. notice' \in Seq(Notice)
  BY <1>1, <1>3, <1>4 DEF TInv, TypeOK, Notify, Notice, Subjects, Exists
<1>6. cons' \in [Durables -> Consumer] /\ DurablesFit'
  BY <1>1, DurableSteps, DurableMoves DEF Receives
<1> QED
  BY <1>5, <1>6 DEF TInv, TypeOK, EventsSound, RequestsSound

-----------------------------------------------------------------------------
(* Every step keeps the types and shapes.                                  *)
LEMMA TInvStep == TInv /\ [Next]_vars => TInv'
<1> SUFFICES ASSUME TInv, [Next]_vars PROVE TInv'
  OBVIOUS
<1>0. TypeOK /\ RequestsSound /\ EventsSound /\ DurablesFit
  BY DEF TInv
<1>1. ASSUME NEW v \in Services, Attach(v) PROVE TInv'
  <2> DEFINE i == up[v] + 1
             d == Boot[v][i]
  <2>1. i \in 1 .. Len(Boot[v])
    BY <1>0, <1>1, Statics DEF Attach, Listening, TypeOK
  <2>2. d \in Durables
    <3>1. DOMAIN Boot[v] = 1 .. Len(Boot[v])
      BY DEF Boot, Services
    <3> QED
      BY <2>1, <3>1, Statics DEF DurablesOf
  <2>3. cons' = [cons EXCEPT ![d] = SubscribeNew(cons[d], stream[SubjectOf[d]])]
    BY <1>1 DEF Attach
  <2>4. UNCHANGED <<comment, notice, stream, req, faults>> /\ up' = [up EXCEPT ![v] = i]
    BY <1>1 DEF Attach
  <2>5. cons' \in [Durables -> Consumer] /\ DurablesFit'
    BY <2>2, <2>3, <2>4, DurableSteps, DurableMoves
  <2>6. up' \in [Services -> 0 .. 3] /\ up'["comment"] <= 2
    <3>1. i \in 0 .. 3 /\ (v = "comment" => i <= 2)
      <4>1. CASE v = "comment"
        BY <2>1, <4>1, Statics
      <4>2. CASE v = "notification"
        BY <2>1, <4>2, Statics
      <4> QED
        BY <4>1, <4>2, Statics
    <3> QED
      BY <1>0, <2>4, <3>1, Statics DEF TypeOK
  <2> QED
    BY <1>0, <2>4, <2>5, <2>6 DEF TInv, TypeOK, EventsSound, RequestsSound
<1>2. ASSUME NEW v \in Services, Crash(v) PROVE TInv'
  <2>1. PICK pulled \in [DurablesOf(v) -> 0 .. (MaxEvents + 1)] :
          /\ \A d \in DurablesOf(v) : pulled[d] \in Pulled(v, d)
          /\ cons' = [d \in Durables |-> IF d \in DurablesOf(v) THEN Drop(cons[d], pulled[d])
                                                                ELSE cons[d]]
    BY <1>2 DEF Crash
  <2>2. UNCHANGED <<comment, notice, stream>> /\ up' = [up EXCEPT ![v] = 0]
    BY <1>2 DEF Crash
  <2>3. \A d \in Durables : cons'[d] \in DurableOf(stream[SubjectOf[d]])
    <3> SUFFICES ASSUME NEW d \in Durables PROVE cons'[d] \in DurableOf(stream[SubjectOf[d]])
      OBVIOUS
    <3>1. CASE d \in DurablesOf(v)
      <4>1. pulled[d] \in Prefetch(cons[d], stream[SubjectOf[d]])
        BY <2>1, <3>1, PulledIsPrefetch
      <4> QED
        BY <2>1, <3>1, <4>1, DurableSteps
    <3>2. CASE d \notin DurablesOf(v)
      BY <2>1, <3>2, DurableSteps
    <3> QED
      BY <3>1, <3>2
  <2>4. cons' \in [Durables -> Consumer] /\ DurablesFit'
    BY <2>1, <2>2, <2>3 DEF DurablesFit, DurableOf
  <2>5. up' \in [Services -> 0 .. 3] /\ up'["comment"] <= 2
    BY <1>0, <2>2, Statics DEF TypeOK
  <2>6. Idle \in Request
    BY DEF Idle, Request
  <2>7. req' \in [Requests -> Request] /\ RequestsSound'
    <3>1. CASE v = "comment"
      <4>1. req' = [r \in Requests |-> Idle]
        BY <1>2, <3>1 DEF Crash
      <4> QED
        BY <2>6, <4>1 DEF RequestsSound, Idle
    <3>2. CASE v # "comment"
      <4>1. UNCHANGED req
        BY <1>2, <3>2 DEF Crash
      <4> QED
        BY <1>0, <2>2, <4>1 DEF TypeOK, RequestsSound
    <3> QED
      BY <3>1, <3>2
  <2>8. faults' \in 0 .. MaxFaults
    BY <1>0, <1>2, FaultBudget DEF Crash
  <2> QED
    BY <1>0, <2>2, <2>4, <2>5, <2>7, <2>8 DEF TInv, TypeOK, EventsSound
<1>3. ASSUME NEW v \in Services, NEW d \in DurablesOf(v), NEW s, NakUnhandled(v, d, s)
      PROVE  TInv'
  <2>1. d \in Durables
    BY Statics
  <2>2. Return(Receive(cons[d], s)) \in DurableOf(stream[SubjectOf[d]])
    BY <1>3, <2>1, DurableSteps DEF NakUnhandled
  <2>3. faults' \in 0 .. MaxFaults
    BY <1>0, <1>3, FaultBudget DEF NakUnhandled
  <2> QED
    BY <1>3, <2>1, <2>2, <2>3, MoveTyped DEF NakUnhandled
<1>4. ASSUME NEW r \in Requests, NEW p \in Posts, NEW u \in Users, CreateComment(r, p, u)
      PROVE  TInv'
  BY <1>4, InsertTyped DEF CreateComment
<1>5. ASSUME NEW r \in Requests, NEW p \in Posts, NEW u \in Users, NEW c, FindParent(r, p, u, c)
      PROVE  TInv'
  <2> DEFINE new == [at |-> "insert", post |-> p, user |-> u, comment |-> c]
  <2>1. c \in DOMAIN comment /\ c \in Nat
    BY <1>0, <1>5 DEF FindParent, Present, TypeOK
  <2>2. new \in Request
    BY <2>1 DEF Request
  <2>3. /\ req' = [req EXCEPT ![r] = new]
        /\ UNCHANGED <<comment, notice, stream, cons, up, faults>>
    BY <1>5 DEF FindParent
  <2>4. faults' \in 0 .. MaxFaults
    BY <1>0, <2>3 DEF TypeOK
  <2> QED
    BY <2>1, <2>2, <2>3, <2>4, BecomeTyped
<1>6. ASSUME NEW r \in Requests, InsertReply(r) PROVE TInv'
  <2>1. req[r] \in Request /\ req[r].post \in Posts /\ req[r].user \in Users
    BY <1>0, <1>6 DEF InsertReply, RequestsSound, TypeOK
  <2>2. req[r].comment \in Nat
    BY <2>1 DEF Request
  <2> QED
    BY <1>6, <2>1, <2>2, InsertTyped DEF InsertReply
<1>7. ASSUME NEW r \in Requests, Announce(r) PROVE TInv'
  <2> DEFINE e == [post |-> req[r].post, user |-> req[r].user, comment |-> req[r].comment]
  <2>1. e \in Event /\ e.user \in Users /\ "comment.created" \in Subjects
    BY <1>0, <1>7 DEF Announce, RequestsSound, TypeOK, Request, Event, Subjects
  <2>2. /\ stream' = [stream EXCEPT !["comment.created"] = Append(@, e)]
        /\ req' = [req EXCEPT ![r] = Idle]
        /\ UNCHANGED <<comment, notice, cons, up, faults>>
    BY <1>7 DEF Announce
  <2>3. stream' \in [Subjects -> Seq(Event)] /\ DurablesFit' /\ EventsSound'
    BY <2>1, <2>2, DurablesOutgrown, EventsGrow
  <2>4. req' \in [Requests -> Request] /\ RequestsSound'
    BY <1>0, <2>2 DEF TypeOK, RequestsSound, Idle, Request
  <2> QED
    BY <1>0, <2>2, <2>3, <2>4 DEF TInv, TypeOK
<1>8. ASSUME NEW r \in Requests, NEW c, FindForDelete(r, c) PROVE TInv'
  <2> DEFINE new == [Idle EXCEPT !.at = "delete", !.comment = c]
  <2>1. c \in DOMAIN comment /\ c \in Nat
    BY <1>0, <1>8 DEF FindForDelete, Present, TypeOK
  <2>2. new \in Request /\ new.at = "delete" /\ new.comment = c
    BY <2>1 DEF Request, Idle
  <2>3. /\ req' = [req EXCEPT ![r] = new]
        /\ UNCHANGED <<comment, notice, stream, cons, up, faults>>
    BY <1>8 DEF FindForDelete
  <2>4. faults' \in 0 .. MaxFaults
    BY <1>0, <2>3 DEF TypeOK
  <2> QED
    BY <2>1, <2>2, <2>3, <2>4, BecomeTyped
<1>9. ASSUME NEW r \in Requests, DeleteComment(r) PROVE TInv'
  <2>1. comment' = [comment EXCEPT ![req[r].comment].here = FALSE]
    BY <1>9 DEF DeleteComment
  <2>2. comment' \in Seq(Comment) /\ DOMAIN comment' = DOMAIN comment
    <3>1. comment \in Seq(Comment) /\ req[r].comment \in DOMAIN comment
      BY <1>0, <1>9 DEF DeleteComment, RequestsSound, TypeOK
    <3>2. comment[req[r].comment] \in Comment
      BY <3>1
    <3>3. [comment[req[r].comment] EXCEPT !.here = FALSE] \in Comment
      BY <3>2 DEF Comment
    <3> QED
      BY <2>1, <3>1, <3>3
  <2>3. req' = [req EXCEPT ![r] = Idle] /\ UNCHANGED <<notice, stream, cons, up, faults>>
    BY <1>9 DEF DeleteComment
  <2>4. req' \in [Requests -> Request] /\ RequestsSound'
    BY <1>0, <2>2, <2>3 DEF TypeOK, RequestsSound, Idle, Request
  <2> QED
    BY <1>0, <2>2, <2>3, <2>4 DEF TInv, TypeOK, EventsSound, DurablesFit
<1>10. ASSUME NEW r \in Requests, PublicationFails(r) PROVE TInv'
  <2>1. Idle \in Request /\ Idle.at = "idle"
    BY DEF Idle, Request
  <2>2. faults' \in 0 .. MaxFaults
    BY <1>0, <1>10, FaultBudget DEF PublicationFails
  <2> QED
    BY <1>10, <2>1, <2>2, BecomeTyped DEF PublicationFails
<1>11. ASSUME NEW n, MarkAsRead(n) PROVE TInv'
  <2>1. notice \in Seq(Notice) /\ n \in DOMAIN notice
    BY <1>0, <1>11 DEF MarkAsRead, TypeOK
  <2>2. notice[n] \in Notice
    BY <2>1
  <2>3. [notice[n] EXCEPT !.read = TRUE] \in Notice
    BY <2>2 DEF Notice
  <2>4. notice' \in Seq(Notice)
    BY <1>11, <2>1, <2>3 DEF MarkAsRead
  <2> QED
    BY <1>0, <1>11, <2>4 DEF MarkAsRead, TInv, TypeOK, EventsSound, RequestsSound, DurablesFit
<1>12. ASSUME NEW u, MarkAllAsRead(u) PROVE TInv'
  <2>1. notice \in Seq(Notice)
    BY <1>0 DEF TypeOK
  <2>2. \A n \in DOMAIN notice : notice'[n] \in Notice
    <3> SUFFICES ASSUME NEW n \in DOMAIN notice PROVE notice'[n] \in Notice
      OBVIOUS
    <3>1. notice[n] \in Notice
      BY <2>1
    <3> QED
      BY <1>12, <3>1 DEF MarkAllAsRead, Notice
  <2>3. notice' \in Seq(Notice)
    BY <1>12, <2>1, <2>2, MarkedTable DEF MarkAllAsRead
  <2> QED
    BY <1>0, <1>12, <2>3 DEF MarkAllAsRead, TInv, TypeOK, EventsSound, RequestsSound, DurablesFit
<1>13. ASSUME NEW b \in Subjects, NEW e \in Event,
              b \in {"comment.created", "post.published"} => e.user \in Users,
              Elsewhere(b, e)
       PROVE  TInv'
  <2>1. stream' \in [Subjects -> Seq(Event)] /\ DurablesFit' /\ EventsSound'
    BY <1>13, DurablesOutgrown, EventsGrow DEF Elsewhere
  <2> QED
    BY <1>0, <1>13, <2>1 DEF Elsewhere, TInv, TypeOK, RequestsSound
<1>14. ASSUME NEW p \in Existing, PostDeleted(p) PROVE TInv'
  BY <1>13, <1>14, CascadeConstants DEF PostDeleted, Event, Subjects
<1>15. ASSUME NEW u \in Users, UserDeleted(u) PROVE TInv'
  BY <1>13, <1>15 DEF UserDeleted, Event, Subjects
<1>16. ASSUME NEW p \in Existing, NEW u \in Users, PostPublished(p, u) PROVE TInv'
  BY <1>13, <1>16, CascadeConstants DEF PostPublished, Event, Subjects
<1>17. ASSUME NEW s, CommentsOfPost(s) PROVE TInv'
  <2>1. /\ comment' = [c \in DOMAIN comment |-> comment'[c]]
        /\ \A c \in DOMAIN comment :
              comment'[c] = comment[c] \/ comment'[c] = [comment[c] EXCEPT !.here = FALSE]
    BY <1>17 DEF CommentsOfPost, Without
  <2>2. "comment-post-deleted" \in Durables
    BY Statics
  <2> QED
    BY <1>17, <2>1, <2>2, CommentsMarked DEF CommentsOfPost
<1>18. ASSUME NEW s, CommentsOfUser(s) PROVE TInv'
  <2>1. /\ comment' = [c \in DOMAIN comment |-> comment'[c]]
        /\ \A c \in DOMAIN comment :
              comment'[c] = comment[c] \/ comment'[c] = [comment[c] EXCEPT !.here = FALSE]
    BY <1>18 DEF CommentsOfUser, Without
  <2>2. "comment-user-deleted" \in Durables
    BY Statics
  <2> QED
    BY <1>18, <2>1, <2>2, CommentsMarked DEF CommentsOfUser
<1>19. ASSUME NEW s, NoticeOfComment(s) PROVE TInv'
  BY <1>19, NotifyTyped, Statics DEF NoticeOfComment
<1>20. ASSUME NEW s, NoticeOfPost(s) PROVE TInv'
  BY <1>20, NotifyTyped, Statics DEF NoticeOfPost
<1>21. ASSUME NEW s, NoticesOfUser(s) PROVE TInv'
  <2>1. notice \in Seq(Notice)
    BY <1>0 DEF TypeOK
  <2>2. \A n \in DOMAIN notice : notice'[n] \in Notice
    <3> SUFFICES ASSUME NEW n \in DOMAIN notice PROVE notice'[n] \in Notice
      OBVIOUS
    <3>1. notice[n] \in Notice
      BY <2>1
    <3> QED
      BY <1>21, <3>1 DEF NoticesOfUser, Without, Notice
  <2>3. notice' \in Seq(Notice)
    BY <1>21, <2>1, <2>2, MarkedTable DEF NoticesOfUser
  <2>4. "notification-user-deleted" \in Durables
    BY Statics
  <2>5. cons' \in [Durables -> Consumer] /\ DurablesFit'
    BY <1>21, <2>4, DurableSteps, DurableMoves DEF NoticesOfUser, Receives
  <2> QED
    BY <1>0, <1>21, <2>3, <2>5 DEF NoticesOfUser, TInv, TypeOK, EventsSound, RequestsSound
<1>22. ASSUME NEW d \in Durables, AckHandled(d) PROVE TInv'
  <2>1. faults' \in 0 .. MaxFaults
    BY <1>0, <1>22 DEF AckHandled, TypeOK
  <2> QED
    BY <1>22, <2>1, DurableSteps, MoveTyped DEF AckHandled
<1>23. ASSUME NEW d \in Durables, AckLost(d) PROVE TInv'
  <2>1. faults' \in 0 .. MaxFaults
    BY <1>0, <1>23, FaultBudget DEF AckLost
  <2> QED
    BY <1>23, <2>1, DurableSteps, MoveTyped DEF AckLost
<1>24. CASE UNCHANGED vars
  BY <1>0, <1>24 DEF vars, TInv, TypeOK, EventsSound, RequestsSound, DurablesFit
<1>25. CASE \E d \in Durables : Handler(d)
  BY <1>17, <1>18, <1>19, <1>20, <1>21, <1>25 DEF Handler
<1>26. CASE \E r \in Requests : Step(r)
  BY <1>6, <1>7, <1>9, <1>26 DEF Step
<1> QED
  BY <1>1, <1>2, <1>3, <1>4, <1>5, <1>8, <1>10, <1>11, <1>12, <1>14, <1>15, <1>16, <1>22,
     <1>23, <1>24, <1>25, <1>26 DEF Next

(* Types and shapes hold in every reachable state.                         *)
THEOREM TypeInvariant == Spec => []TInv
<1> QED
  BY TInvInit, TInvStep, PTL DEF Spec

(* The type invariant the run checks.                                      *)
THEOREM TypesCorrect == Spec => []TypeOK
<1>1. TInv => TypeOK
  BY DEF TInv
<1> QED
  BY <1>1, TypeInvariant, PTL

-----------------------------------------------------------------------------
(* What a step may do to the durables, the subjects and the tables.        *)

\* The statement of durable d's handler on event s, where it deletes.
Cleans(d, s) ==
  /\ d = "comment-post-deleted" => CommentsOfPost(s)
  /\ d = "comment-user-deleted" => CommentsOfUser(s)
  /\ d = "notification-user-deleted" => NoticesOfUser(s)

\* What a step may do to durable d: it goes on existing, and a number becomes
\* applied only by way of the handler.
Progress(d) ==
  Exists(cons[d]) =>
     /\ Exists(cons'[d])
     /\ \A n \in Nat : Applied(cons'[d], n) => Applied(cons[d], n) \/ Cleans(d, n)

(* A durable that a step leaves alone, returns, drops, acks or adds again. *)
LEMMA HarmlessProgress ==
  ASSUME TInv, NEW d \in Durables,
         \/ cons'[d] = cons[d]
         \/ cons'[d] = SubscribeNew(cons[d], stream[SubjectOf[d]])
         \/ cons'[d] = Ack(cons[d])
         \/ cons'[d] = Return(cons[d])
         \/ \E s \in Deliverable(cons[d], stream[SubjectOf[d]]) :
               cons'[d] = Return(Receive(cons[d], s))
         \/ \E k \in Prefetch(cons[d], stream[SubjectOf[d]]) : cons'[d] = Drop(cons[d], k)
  PROVE  Progress(d)
<1>1. stream[SubjectOf[d]] \in Seq(Event) /\ cons[d] \in DurableOf(stream[SubjectOf[d]])
  BY DurableSteps
<1>2. Exists(cons[d]) => Exists(cons'[d])
  BY <1>1, DurablePersists
<1>3. ASSUME Exists(cons[d]), NEW n \in Nat, Applied(cons'[d], n)
      PROVE  Applied(cons[d], n)
  BY <1>1, <1>3, AppliedNumbers
<1> QED
  BY <1>2, <1>3 DEF Progress

(* A durable whose handler runs.                                           *)
LEMMA HandledProgress ==
  ASSUME TInv, NEW d \in Durables, NEW v, NEW s, Receives(v, d, s), Cleans(d, s)
  PROVE  \A x \in Durables : Progress(x)
<1>1. /\ s \in Deliverable(cons[d], stream[SubjectOf[d]])
      /\ cons' = [cons EXCEPT ![d] = Receive(cons[d], s)]
  BY DEF Receives
<1>2. cons \in [Durables -> Consumer]
  BY DEF TInv, TypeOK
<1>3. stream[SubjectOf[d]] \in Seq(Event) /\ cons[d] \in DurableOf(stream[SubjectOf[d]])
  BY DurableSteps
<1>4. Progress(d)
  <2>1. cons'[d] = Receive(cons[d], s)
    BY <1>1, <1>2
  <2>2. Exists(cons[d]) => Exists(cons'[d])
    BY <1>1, <1>3, <2>1, DurablePersists
  <2>3. ASSUME NEW n \in Nat, Applied(cons'[d], n)
        PROVE  Applied(cons[d], n) \/ n = s
    BY <1>1, <1>3, <2>1, <2>3, AppliedNumbers
  <2> QED
    BY <2>2, <2>3 DEF Progress
<1>5. ASSUME NEW x \in Durables, x # d PROVE Progress(x)
  <2>1. cons'[x] = cons[x]
    BY <1>1, <1>2, <1>5
  <2> QED
    BY <2>1, HarmlessProgress
<1> QED
  BY <1>4, <1>5

(* A step that moves one durable in one of the harmless ways.              *)
LEMMA OneMoved ==
  ASSUME TInv, NEW d \in Durables, NEW c, cons' = [cons EXCEPT ![d] = c], cons'[d] = c => Progress(d)
  PROVE  \A x \in Durables : Progress(x)
<1>1. cons \in [Durables -> Consumer]
  BY DEF TInv, TypeOK
<1>2. Progress(d)
  BY <1>1
<1>3. ASSUME NEW x \in Durables, x # d PROVE Progress(x)
  <2>1. cons'[x] = cons[x]
    BY <1>1, <1>3
  <2> QED
    BY <2>1, HarmlessProgress
<1> QED
  BY <1>2, <1>3

(* Durables never cease to exist, and only handlers apply events.          *)
LEMMA DurablesProgress == TInv /\ [Next]_vars => \A x \in Durables : Progress(x)
<1> SUFFICES ASSUME TInv, [Next]_vars PROVE \A x \in Durables : Progress(x)
  OBVIOUS
<1>1. CASE UNCHANGED cons
  BY <1>1, HarmlessProgress
<1>2. ASSUME NEW v \in Services, Attach(v) PROVE \A x \in Durables : Progress(x)
  <2> DEFINE d == Boot[v][up[v] + 1]
  <2>1. cons' = [cons EXCEPT ![d] = SubscribeNew(cons[d], stream[SubjectOf[d]])]
    BY <1>2 DEF Attach
  <2>2. cons \in [Durables -> Consumer]
    BY DEF TInv, TypeOK
  <2> SUFFICES ASSUME NEW x \in Durables PROVE Progress(x)
    OBVIOUS
  <2>3. cons'[x] = cons[x] \/ cons'[x] = SubscribeNew(cons[x], stream[SubjectOf[x]])
    BY <2>1, <2>2
  <2> QED
    BY <2>3, HarmlessProgress
<1>3. ASSUME NEW v \in Services, Crash(v) PROVE \A x \in Durables : Progress(x)
  <2>1. PICK pulled \in [DurablesOf(v) -> 0 .. (MaxEvents + 1)] :
          /\ \A d \in DurablesOf(v) : pulled[d] \in Pulled(v, d)
          /\ cons' = [d \in Durables |-> IF d \in DurablesOf(v) THEN Drop(cons[d], pulled[d])
                                                                ELSE cons[d]]
    BY <1>3 DEF Crash
  <2> SUFFICES ASSUME NEW x \in Durables PROVE Progress(x)
    OBVIOUS
  <2>2. CASE x \in DurablesOf(v)
    <3>1. pulled[x] \in Prefetch(cons[x], stream[SubjectOf[x]])
      BY <2>1, <2>2, PulledIsPrefetch
    <3>2. cons'[x] = Drop(cons[x], pulled[x])
      BY <2>1, <2>2
    <3> QED
      BY <3>1, <3>2, HarmlessProgress
  <2>3. CASE x \notin DurablesOf(v)
    <3>1. cons'[x] = cons[x]
      BY <2>1, <2>3
    <3> QED
      BY <3>1, HarmlessProgress
  <2> QED
    BY <2>2, <2>3
<1>4. ASSUME NEW v \in Services, NEW d \in DurablesOf(v), NEW s, NakUnhandled(v, d, s)
      PROVE  \A x \in Durables : Progress(x)
  <2>1. d \in Durables
    BY Statics
  <2>2. cons' = [cons EXCEPT ![d] = Return(Receive(cons[d], s))]
    BY <1>4 DEF NakUnhandled
  <2>3. s \in Deliverable(cons[d], stream[SubjectOf[d]])
    BY <1>4 DEF NakUnhandled
  <2>4. cons'[d] = Return(Receive(cons[d], s)) => Progress(d)
    BY <2>1, <2>3, HarmlessProgress
  <2> QED
    BY <2>1, <2>2, <2>4, OneMoved
<1>5. ASSUME NEW d \in Durables, AckHandled(d) PROVE \A x \in Durables : Progress(x)
  <2>1. cons' = [cons EXCEPT ![d] = Ack(cons[d])]
    BY <1>5 DEF AckHandled
  <2>2. cons'[d] = Ack(cons[d]) => Progress(d)
    BY HarmlessProgress
  <2> QED
    BY <2>1, <2>2, OneMoved
<1>6. ASSUME NEW d \in Durables, AckLost(d) PROVE \A x \in Durables : Progress(x)
  <2>1. cons' = [cons EXCEPT ![d] = Return(cons[d])]
    BY <1>6 DEF AckLost
  <2>2. cons'[d] = Return(cons[d]) => Progress(d)
    BY HarmlessProgress
  <2> QED
    BY <2>1, <2>2, OneMoved
<1>7. ASSUME NEW s, CommentsOfPost(s) PROVE \A x \in Durables : Progress(x)
  BY <1>7, HandledProgress, Statics DEF CommentsOfPost, Cleans
<1>8. ASSUME NEW s, CommentsOfUser(s) PROVE \A x \in Durables : Progress(x)
  BY <1>8, HandledProgress, Statics DEF CommentsOfUser, Cleans
<1>9. ASSUME NEW s, NoticeOfComment(s) PROVE \A x \in Durables : Progress(x)
  BY <1>9, HandledProgress, Statics DEF NoticeOfComment, Cleans
<1>10. ASSUME NEW s, NoticeOfPost(s) PROVE \A x \in Durables : Progress(x)
  BY <1>10, HandledProgress, Statics DEF NoticeOfPost, Cleans
<1>11. ASSUME NEW s, NoticesOfUser(s) PROVE \A x \in Durables : Progress(x)
  BY <1>11, HandledProgress, Statics DEF NoticesOfUser, Cleans
<1>12. CASE \E d \in Durables : Handler(d)
  BY <1>7, <1>8, <1>9, <1>10, <1>11, <1>12 DEF Handler
<1>13. CASE \E r \in Requests :
               \/ \E p \in Posts, u \in Users :
                     CreateComment(r, p, u) \/ \E c \in DOMAIN comment : FindParent(r, p, u, c)
               \/ \E c \in DOMAIN comment : FindForDelete(r, c)
               \/ Step(r)
               \/ PublicationFails(r)
  BY <1>1, <1>13 DEF Step, InsertReply, Announce, DeleteComment, PublicationFails,
     FindForDelete, CreateComment, FindParent
<1>14. CASE \/ \E n \in DOMAIN notice : MarkAsRead(n)
            \/ \E u \in Users : MarkAllAsRead(u) \/ UserDeleted(u)
            \/ \E p \in Existing : PostDeleted(p) \/ \E u \in Users : PostPublished(p, u)
  BY <1>1, <1>14 DEF MarkAsRead, MarkAllAsRead, UserDeleted, PostDeleted, PostPublished,
     Elsewhere
<1>15. CASE UNCHANGED vars
  BY <1>1, <1>15 DEF vars
<1>16. CASE \E v \in Services : \/ Attach(v) \/ Crash(v)
                                \/ \E d \in DurablesOf(v), s \in Numbers : NakUnhandled(v, d, s)
  BY <1>2, <1>3, <1>4, <1>16
<1>17. CASE \E d \in Durables : Handler(d) \/ AckHandled(d) \/ AckLost(d)
  BY <1>5, <1>6, <1>12, <1>17
<1>18. CASE Next
  BY <1>13, <1>14, <1>16, <1>17, <1>18 DEF Next
<1> QED
  BY <1>15, <1>18

\* The row says what it said, and does not come back.
SameComment(new, old) ==
  /\ new.post = old.post /\ new.author = old.author /\ new.parent = old.parent
  /\ new.posts = old.posts /\ new.users = old.users
  /\ new.here => old.here

\* A comment inserted now: its parent was found on its post, and both durables
\* that clean up comments exist.
FreshComment(row) ==
  /\ row.posts = Len(stream["post.deleted"]) /\ row.users = Len(stream["user.deleted"])
  /\ row.parent # 0 => row.parent \in DOMAIN comment /\ comment[row.parent].post = row.post
  /\ Exists(cons["comment-post-deleted"]) /\ Exists(cons["comment-user-deleted"])
  /\ UNCHANGED <<stream, cons>>

CommentsMove ==
  \/ /\ DOMAIN comment' = DOMAIN comment
     /\ \A c \in DOMAIN comment : SameComment(comment'[c], comment[c])
  \/ \E row \in Comment : comment' = Append(comment, row) /\ FreshComment(row)

\* Likewise the notifications.
SameNotice(new, old) ==
  /\ new.user = old.user /\ new.users = old.users /\ new.early = old.early
  /\ new.of = old.of
  /\ new.here => old.here

\* The durables whose handlers insert notifications.
Tellers == {"notification-comment-created", "notification-post-published"}

\* A notification inserted now: it is of the event its handler has received.
FreshNotice(row) ==
  /\ \E d \in Tellers : \E s \in Deliverable(cons[d], stream[SubjectOf[d]]) :
        /\ row.of = [subject |-> SubjectOf[d], number |-> s]
        /\ cons'[d] = Receive(cons[d], s)
  /\ row.users = Len(stream["user.deleted"])
  /\ row.early = ~ Exists(cons["notification-user-deleted"])
  /\ UNCHANGED stream
  /\ cons'["notification-user-deleted"] = cons["notification-user-deleted"]

NoticesMove ==
  \/ /\ DOMAIN notice' = DOMAIN notice
     /\ \A n \in DOMAIN notice : SameNotice(notice'[n], notice[n])
  \/ \E row \in Notice : notice' = Append(notice, row) /\ FreshNotice(row)

\* What has been published stays.
StreamGrows ==
  \A b \in Subjects : \A s \in DOMAIN stream[b] :
     s \in DOMAIN stream'[b] /\ stream'[b][s] = stream[b][s]

(* A step that inserts or marks nothing moves nothing.                     *)
LEMMA StillMoves ==
  ASSUME TInv
  PROVE  /\ UNCHANGED comment => CommentsMove
         /\ UNCHANGED notice => NoticesMove
         /\ UNCHANGED stream => StreamGrows
BY DEF CommentsMove, SameComment, NoticesMove, SameNotice, StreamGrows

(* The INSERT of a comment while both durables exist.                      *)
LEMMA InsertMoves ==
  ASSUME TInv, NEW r \in Requests, NEW p \in Posts, NEW u \in Users, NEW parent \in Nat,
         Insert(r, p, u, parent), UNCHANGED <<notice, stream, cons>>,
         Exists(cons["comment-post-deleted"]), Exists(cons["comment-user-deleted"]),
         parent # 0 => parent \in DOMAIN comment /\ comment[parent].post = p
  PROVE  CommentsMove
<1> DEFINE row == [here |-> TRUE, post |-> p, author |-> u, parent |-> parent,
                   posts |-> Len(stream["post.deleted"]), users |-> Len(stream["user.deleted"])]
<1>1. row \in Comment
  BY DEF TInv, TypeOK, Subjects, Comment
<1>2. comment' = Append(comment, row)
  BY DEF Insert
<1>3. FreshComment(row)
  BY DEF FreshComment
<1> QED
  BY <1>1, <1>2, <1>3 DEF CommentsMove

(* Rows of comments are inserted or marked as deleted, never rewritten.    *)
LEMMA CommentStep == TInv /\ Heard /\ ParentsFound /\ [Next]_vars => CommentsMove
<1> SUFFICES ASSUME TInv, Heard, ParentsFound, [Next]_vars PROVE CommentsMove
  OBVIOUS
<1>0. TypeOK /\ RequestsSound
  BY DEF TInv
<1>1. CASE UNCHANGED comment
  BY <1>1, StillMoves
<1>2. ASSUME NEW r \in Requests, NEW p \in Posts, NEW u \in Users, CreateComment(r, p, u)
      PROVE  CommentsMove
  <2>1. up["comment"] = 2
    BY <1>2, Statics DEF CreateComment, Serving, Listening
  <2>2. 1 \in 1 .. up["comment"] /\ 2 \in 1 .. up["comment"] /\ "comment" \in Services
    BY <2>1, Statics
  <2>3. Exists(cons["comment-post-deleted"]) /\ Exists(cons["comment-user-deleted"])
    BY <2>2, Statics DEF Heard
  <2> QED
    BY <1>2, <2>3, InsertMoves DEF CreateComment
<1>3. ASSUME NEW r \in Requests, InsertReply(r) PROVE CommentsMove
  <2>1. /\ req[r] \in Request /\ req[r].post \in Posts /\ req[r].user \in Users
        /\ req[r].comment \in DOMAIN comment
        /\ comment[req[r].comment].post = req[r].post
    BY <1>0, <1>3 DEF InsertReply, RequestsSound, ParentsFound, TypeOK
  <2>2. req[r].comment \in Nat /\ comment # << >>
    BY <2>1 DEF Request
  <2>3. Exists(cons["comment-post-deleted"]) /\ Exists(cons["comment-user-deleted"])
    BY <2>2 DEF Heard
  <2> QED
    BY <1>3, <2>1, <2>2, <2>3, InsertMoves DEF InsertReply
<1>4. ASSUME NEW r \in Requests, DeleteComment(r) PROVE CommentsMove
  <2>1. comment \in Seq(Comment) /\ req[r].comment \in DOMAIN comment
    BY <1>0, <1>4 DEF DeleteComment, RequestsSound, TypeOK
  <2>2. comment' = [comment EXCEPT ![req[r].comment] =
                      [comment[req[r].comment] EXCEPT !.here = FALSE]]
    BY <1>4 DEF DeleteComment
  <2>3. comment[req[r].comment] \in Comment
    BY <2>1
  <2>4. SameComment([comment[req[r].comment] EXCEPT !.here = FALSE], comment[req[r].comment])
    BY <2>3 DEF SameComment, Comment
  <2>5. ASSUME NEW c \in DOMAIN comment PROVE SameComment(comment'[c], comment[c])
    <3>1. CASE c = req[r].comment
      BY <2>2, <2>4, <3>1
    <3>2. CASE c # req[r].comment
      BY <2>2, <3>2 DEF SameComment
    <3> QED
      BY <3>1, <3>2
  <2> QED
    BY <2>2, <2>5 DEF CommentsMove
<1>5. ASSUME NEW s, CommentsOfPost(s) \/ CommentsOfUser(s) PROVE CommentsMove
  <2>1. /\ DOMAIN comment' = DOMAIN comment
        /\ \A c \in DOMAIN comment :
              comment'[c] = comment[c] \/ comment'[c] = [comment[c] EXCEPT !.here = FALSE]
    BY <1>5 DEF CommentsOfPost, CommentsOfUser, Without
  <2>2. ASSUME NEW c \in DOMAIN comment PROVE SameComment(comment'[c], comment[c])
    <3>1. comment[c] \in Comment
      BY <1>0 DEF TypeOK
    <3> QED
      BY <2>1, <3>1 DEF SameComment, Comment
  <2> QED
    BY <2>1, <2>2 DEF CommentsMove
<1>6. CASE \E d \in Durables : Handler(d) \/ AckHandled(d) \/ AckLost(d)
  BY <1>1, <1>5, <1>6 DEF Handler, NoticeOfComment, NoticeOfPost, NoticesOfUser, AckHandled, AckLost
<1>7. CASE \E v \in Services : \/ Attach(v) \/ Crash(v)
                               \/ \E d \in DurablesOf(v), s \in Numbers : NakUnhandled(v, d, s)
  BY <1>1, <1>7 DEF Attach, Crash, NakUnhandled
<1>8. CASE \E r \in Requests :
              \/ \E p \in Posts, u \in Users :
                    CreateComment(r, p, u) \/ \E c \in DOMAIN comment : FindParent(r, p, u, c)
              \/ \E c \in DOMAIN comment : FindForDelete(r, c)
              \/ Step(r)
              \/ PublicationFails(r)
  BY <1>1, <1>2, <1>3, <1>4, <1>8 DEF Step, Announce, PublicationFails, FindForDelete, FindParent
<1>9. CASE \/ \E n \in DOMAIN notice : MarkAsRead(n)
           \/ \E u \in Users : MarkAllAsRead(u) \/ UserDeleted(u)
           \/ \E p \in Existing : PostDeleted(p) \/ \E u \in Users : PostPublished(p, u)
  BY <1>1, <1>9 DEF MarkAsRead, MarkAllAsRead, UserDeleted, PostDeleted, PostPublished, Elsewhere
<1>10. CASE UNCHANGED vars
  BY <1>1, <1>10 DEF vars
<1>11. CASE Next
  BY <1>6, <1>7, <1>8, <1>9, <1>11 DEF Next
<1> QED
  BY <1>10, <1>11

(* Rows of notifications are inserted, marked as read or as deleted.       *)
LEMMA NoticeStep == TInv /\ [Next]_vars => NoticesMove
<1> SUFFICES ASSUME TInv, [Next]_vars PROVE NoticesMove
  OBVIOUS
<1>0. notice \in Seq(Notice) /\ cons \in [Durables -> Consumer]
  BY DEF TInv, TypeOK
<1>1. CASE UNCHANGED notice
  BY <1>1, StillMoves
<1>2. ASSUME NEW n, MarkAsRead(n) PROVE NoticesMove
  <2>1. notice' = [notice EXCEPT ![n] = [notice[n] EXCEPT !.read = TRUE]] /\ n \in DOMAIN notice
    BY <1>2 DEF MarkAsRead
  <2>2. notice[n] \in Notice
    BY <1>0, <2>1
  <2>3. SameNotice([notice[n] EXCEPT !.read = TRUE], notice[n])
    BY <2>2 DEF SameNotice, Notice
  <2>4. ASSUME NEW m \in DOMAIN notice PROVE SameNotice(notice'[m], notice[m])
    <3>1. CASE m = n
      BY <2>1, <2>3, <3>1
    <3>2. CASE m # n
      BY <2>1, <3>2 DEF SameNotice
    <3> QED
      BY <3>1, <3>2
  <2> QED
    BY <2>1, <2>4 DEF NoticesMove
<1>3. ASSUME NEW u, MarkAllAsRead(u) PROVE NoticesMove
  <2>1. DOMAIN notice' = DOMAIN notice
    BY <1>3 DEF MarkAllAsRead
  <2>2. ASSUME NEW n \in DOMAIN notice PROVE SameNotice(notice'[n], notice[n])
    <3>1. notice[n] \in Notice
      BY <1>0
    <3>2. notice'[n] = notice[n] \/ notice'[n] = [notice[n] EXCEPT !.read = TRUE]
      BY <1>3 DEF MarkAllAsRead
    <3> QED
      BY <3>1, <3>2 DEF SameNotice, Notice
  <2> QED
    BY <2>1, <2>2 DEF NoticesMove
<1>4. ASSUME NEW s, NoticesOfUser(s) PROVE NoticesMove
  <2>1. DOMAIN notice' = DOMAIN notice
    BY <1>4 DEF NoticesOfUser
  <2>2. ASSUME NEW n \in DOMAIN notice PROVE SameNotice(notice'[n], notice[n])
    <3>1. notice[n] \in Notice
      BY <1>0
    <3>2. notice'[n] = notice[n] \/ notice'[n] = [notice[n] EXCEPT !.here = FALSE]
      BY <1>4 DEF NoticesOfUser, Without
    <3> QED
      BY <3>1, <3>2 DEF SameNotice, Notice
  <2> QED
    BY <2>1, <2>2 DEF NoticesMove
<1>5. ASSUME NEW d \in Tellers, NEW s, NEW v, Receives(v, d, s), Notify(SubjectOf[d], s), UNCHANGED stream, TInv'
      PROVE  NoticesMove
  <2> DEFINE b == SubjectOf[d]
             row == [here |-> TRUE, user |-> stream[b][s].user, read |-> FALSE,
                     of |-> [subject |-> b, number |-> s],
                     users |-> Len(stream["user.deleted"]),
                     early |-> ~ Exists(cons["notification-user-deleted"])]
  <2>1. notice' = Append(notice, row)
    BY <1>5 DEF Notify
  <2>2. row \in Notice
    <3>1. notice' \in Seq(Notice) /\ Len(notice') = Len(notice) + 1
      BY <1>0, <1>5, <2>1 DEF TInv, TypeOK
    <3>2. notice'[Len(notice) + 1] = row
      BY <1>0, <2>1
    <3> QED
      BY <1>0, <3>1, <3>2
  <2>3. d \in Durables /\ d # "notification-user-deleted"
    BY Statics DEF Tellers
  <2>4. /\ s \in Deliverable(cons[d], stream[SubjectOf[d]])
        /\ cons'[d] = Receive(cons[d], s)
        /\ cons'["notification-user-deleted"] = cons["notification-user-deleted"]
    BY <1>0, <1>5, <2>3, Statics DEF Receives
  <2>5. FreshNotice(row)
    BY <1>5, <2>4 DEF FreshNotice
  <2> QED
    BY <2>1, <2>2, <2>5 DEF NoticesMove
<1>6. TInv'
  BY TInvStep
<1>7. ASSUME NEW s, NoticeOfComment(s) \/ NoticeOfPost(s) PROVE NoticesMove
  BY <1>5, <1>6, <1>7, Statics DEF NoticeOfComment, NoticeOfPost, Tellers
<1>8. CASE \E d \in Durables : Handler(d) \/ AckHandled(d) \/ AckLost(d)
  BY <1>1, <1>4, <1>7, <1>8 DEF Handler, CommentsOfPost, CommentsOfUser, AckHandled, AckLost
<1>9. CASE \E v \in Services : \/ Attach(v) \/ Crash(v)
                               \/ \E d \in DurablesOf(v), s \in Numbers : NakUnhandled(v, d, s)
  BY <1>1, <1>9 DEF Attach, Crash, NakUnhandled
<1>10. CASE \E r \in Requests :
              \/ \E p \in Posts, u \in Users :
                    CreateComment(r, p, u) \/ \E c \in DOMAIN comment : FindParent(r, p, u, c)
              \/ \E c \in DOMAIN comment : FindForDelete(r, c)
              \/ Step(r)
              \/ PublicationFails(r)
  BY <1>1, <1>10 DEF Step, InsertReply, Announce, DeleteComment, PublicationFails,
     FindForDelete, CreateComment, FindParent
<1>11. CASE \/ \E n \in DOMAIN notice : MarkAsRead(n)
            \/ \E u \in Users : MarkAllAsRead(u) \/ UserDeleted(u)
            \/ \E p \in Existing : PostDeleted(p) \/ \E u \in Users : PostPublished(p, u)
  BY <1>1, <1>2, <1>3, <1>11 DEF UserDeleted, PostDeleted, PostPublished, Elsewhere
<1>12. CASE UNCHANGED vars
  BY <1>1, <1>12 DEF vars
<1>13. CASE Next
  BY <1>8, <1>9, <1>10, <1>11, <1>13 DEF Next
<1> QED
  BY <1>12, <1>13

(* Subjects are appended to, and nothing else.                             *)
LEMMA StreamStep == TInv /\ [Next]_vars => StreamGrows
<1> SUFFICES ASSUME TInv, [Next]_vars PROVE StreamGrows
  OBVIOUS
<1>0. stream \in [Subjects -> Seq(Event)]
  BY DEF TInv, TypeOK
<1>1. CASE UNCHANGED stream
  BY <1>1, StillMoves
<1>2. ASSUME NEW b \in Subjects, NEW e, stream' = [stream EXCEPT ![b] = Append(stream[b], e)]
      PROVE  StreamGrows
  BY <1>0, <1>2 DEF StreamGrows
<1>3. ASSUME NEW r \in Requests, Announce(r) PROVE StreamGrows
  BY <1>2, <1>3 DEF Announce, Subjects
<1>4. CASE \/ \E n \in DOMAIN notice : MarkAsRead(n)
           \/ \E u \in Users : MarkAllAsRead(u) \/ UserDeleted(u)
           \/ \E p \in Existing : PostDeleted(p) \/ \E u \in Users : PostPublished(p, u)
  BY <1>1, <1>2, <1>4 DEF MarkAsRead, MarkAllAsRead, UserDeleted, PostDeleted, PostPublished,
     Elsewhere, Subjects
<1>5. CASE \E r \in Requests :
              \/ \E p \in Posts, u \in Users :
                    CreateComment(r, p, u) \/ \E c \in DOMAIN comment : FindParent(r, p, u, c)
              \/ \E c \in DOMAIN comment : FindForDelete(r, c)
              \/ Step(r)
              \/ PublicationFails(r)
  BY <1>1, <1>3, <1>5 DEF Step, InsertReply, DeleteComment, PublicationFails,
     FindForDelete, CreateComment, FindParent
<1>6. CASE \E v \in Services : \/ Attach(v) \/ Crash(v)
                               \/ \E d \in DurablesOf(v), s \in Numbers : NakUnhandled(v, d, s)
  BY <1>1, <1>6 DEF Attach, Crash, NakUnhandled
<1>7. CASE \E d \in Durables : Handler(d) \/ AckHandled(d) \/ AckLost(d)
  BY <1>1, <1>7 DEF Handler, CommentsOfPost, CommentsOfUser, NoticeOfComment, NoticeOfPost,
     NoticesOfUser, AckHandled, AckLost
<1>8. CASE UNCHANGED vars
  BY <1>1, <1>8 DEF vars
<1>9. CASE Next
  BY <1>4, <1>5, <1>6, <1>7, <1>9 DEF Next
<1> QED
  BY <1>8, <1>9

(* What a request about to insert a reply has seen goes on being so.       *)
LEMMA ParentsStep == TInv /\ Heard /\ ParentsFound /\ [Next]_vars => ParentsFound'
<1> SUFFICES ASSUME TInv, Heard, ParentsFound, [Next]_vars, NEW r \in Requests,
                    req'[r].at = "insert"
             PROVE  comment'[req'[r].comment].post = req'[r].post
  BY DEF ParentsFound
<1>0. req \in [Requests -> Request] /\ comment \in Seq(Comment)
  BY DEF TInv, TypeOK
<1>1. CommentsMove
  BY CommentStep
<1>2. CASE req'[r] = req[r]
  <2>1. req[r].comment \in DOMAIN comment /\ comment[req[r].comment].post = req[r].post
    BY <1>2 DEF TInv, RequestsSound, ParentsFound
  <2>2. comment'[req[r].comment].post = comment[req[r].comment].post
    <3>1. CASE \E row \in Comment : comment' = Append(comment, row)
      BY <1>0, <2>1, <3>1
    <3>2. CASE \A c \in DOMAIN comment : SameComment(comment'[c], comment[c])
      BY <2>1, <3>2 DEF SameComment
    <3> QED
      BY <1>1, <3>1, <3>2 DEF CommentsMove
  <2> QED
    BY <1>2, <2>1, <2>2
<1>3. ASSUME NEW q \in Requests, NEW new, req' = [req EXCEPT ![q] = new], new.at # "insert"
      PROVE  req'[r] = req[r]
  BY <1>0, <1>3
<1>4. ASSUME NEW q \in Requests, NEW p \in Posts, NEW u \in Users, NEW c, FindParent(q, p, u, c)
      PROVE  comment'[req'[r].comment].post = req'[r].post
  <2>1. CASE q = r
    BY <1>0, <1>4, <2>1 DEF FindParent
  <2>2. CASE q # r
    BY <1>0, <1>2, <1>4, <2>2 DEF FindParent
  <2> QED
    BY <2>1, <2>2
<1>5. ASSUME NEW q \in Requests, NEW p, NEW u, NEW parent, Insert(q, p, u, parent)
      PROVE  req'[r] = req[r]
  BY <1>3, <1>5 DEF Insert
<1>6. ASSUME NEW q \in Requests, Step(q) \/ PublicationFails(q) PROVE req'[r] = req[r]
  BY <1>3, <1>5, <1>6 DEF Step, InsertReply, Announce, DeleteComment, PublicationFails, Idle
<1>7. ASSUME NEW q \in Requests, NEW c, FindForDelete(q, c) PROVE req'[r] = req[r]
  <2> DEFINE new == [Idle EXCEPT !.at = "delete", !.comment = c]
  <2>1. req' = [req EXCEPT ![q] = new]
    BY <1>7 DEF FindForDelete
  <2>2. new.at # "insert"
    BY DEF Idle
  <2> QED
    BY <1>3, <2>1, <2>2
<1>8. CASE \E q \in Requests :
              \/ \E p \in Posts, u \in Users :
                    CreateComment(q, p, u) \/ \E c \in DOMAIN comment : FindParent(q, p, u, c)
              \/ \E c \in DOMAIN comment : FindForDelete(q, c)
              \/ Step(q)
              \/ PublicationFails(q)
  BY <1>2, <1>4, <1>5, <1>6, <1>7, <1>8 DEF CreateComment
<1>9. CASE \/ \E n \in DOMAIN notice : MarkAsRead(n)
           \/ \E u \in Users : MarkAllAsRead(u) \/ UserDeleted(u)
           \/ \E p \in Existing : PostDeleted(p) \/ \E u \in Users : PostPublished(p, u)
  BY <1>2, <1>9 DEF MarkAsRead, MarkAllAsRead, UserDeleted, PostDeleted, PostPublished, Elsewhere
<1>10. CASE \E v \in Services : \/ Attach(v) \/ Crash(v)
                                \/ \E d \in DurablesOf(v), s \in Numbers : NakUnhandled(v, d, s)
  BY <1>2, <1>10 DEF Attach, Crash, NakUnhandled, Idle
<1>11. CASE \E d \in Durables : Handler(d) \/ AckHandled(d) \/ AckLost(d)
  BY <1>2, <1>11 DEF Handler, CommentsOfPost, CommentsOfUser, NoticeOfComment, NoticeOfPost,
     NoticesOfUser, AckHandled, AckLost
<1>12. CASE UNCHANGED vars
  BY <1>2, <1>12 DEF vars
<1>13. CASE Next
  BY <1>8, <1>9, <1>10, <1>11, <1>13 DEF Next
<1> QED
  BY <1>12, <1>13

(* A process consumes one more durable only after adding it.               *)
LEMMA UpStep ==
  ASSUME TInv, [Next]_vars, NEW v \in Services, NEW i \in 1 .. up'[v], i \notin 1 .. up[v]
  PROVE  Exists(cons'[Boot[v][i]])
<1>0. up \in [Services -> 0 .. 3] /\ cons \in [Durables -> Consumer]
  BY DEF TInv, TypeOK
<1>1. ~ UNCHANGED up
  OBVIOUS
<1>2. ASSUME NEW w \in Services, Attach(w) PROVE Exists(cons'[Boot[v][i]])
  <2>1. w = v /\ i = up[v] + 1
    BY <1>0, <1>2 DEF Attach
  <2> DEFINE d == Boot[v][i]
  <2>2. d \in Durables
    <3>1. i \in 1 .. Len(Boot[v])
      <4>1. CASE v = "comment"
        BY <1>0, <1>2, <2>1, <4>1, Statics DEF Attach, Listening, TInv, TypeOK
      <4>2. CASE v = "notification"
        BY <1>0, <1>2, <2>1, <4>2, Statics DEF Attach, Listening, TInv, TypeOK
      <4> QED
        BY <4>1, <4>2, Statics
    <3>2. DOMAIN Boot[v] = 1 .. Len(Boot[v])
      BY DEF Boot, Services
    <3> QED
      BY <3>1, <3>2, Statics DEF DurablesOf
  <2>3. cons'[d] = SubscribeNew(cons[d], stream[SubjectOf[d]])
    BY <1>0, <1>2, <2>1, <2>2 DEF Attach
  <2>4. stream[SubjectOf[d]] \in Seq(Event) /\ cons[d] \in DurableOf(stream[SubjectOf[d]])
    BY <2>2, DurableSteps
  <2> QED
    BY <2>3, <2>4, DurablePersists
<1>3. ASSUME NEW w \in Services, Crash(w) PROVE FALSE
  BY <1>0, <1>3 DEF Crash
<1>4. CASE \E w \in Services : \/ Attach(w) \/ Crash(w)
                               \/ \E d \in DurablesOf(w), s \in Numbers : NakUnhandled(w, d, s)
  BY <1>1, <1>2, <1>3, <1>4 DEF NakUnhandled
<1>5. CASE \E r \in Requests :
              \/ \E p \in Posts, u \in Users :
                    CreateComment(r, p, u) \/ \E c \in DOMAIN comment : FindParent(r, p, u, c)
              \/ \E c \in DOMAIN comment : FindForDelete(r, c)
              \/ Step(r)
              \/ PublicationFails(r)
  BY <1>1, <1>5 DEF Step, InsertReply, Announce, DeleteComment, PublicationFails,
     FindForDelete, CreateComment, FindParent
<1>6. CASE \/ \E n \in DOMAIN notice : MarkAsRead(n)
           \/ \E u \in Users : MarkAllAsRead(u) \/ UserDeleted(u)
           \/ \E p \in Existing : PostDeleted(p) \/ \E u \in Users : PostPublished(p, u)
  BY <1>1, <1>6 DEF MarkAsRead, MarkAllAsRead, UserDeleted, PostDeleted, PostPublished, Elsewhere
<1>7. CASE \E d \in Durables : Handler(d) \/ AckHandled(d) \/ AckLost(d)
  BY <1>1, <1>7 DEF Handler, CommentsOfPost, CommentsOfUser, NoticeOfComment, NoticeOfPost,
     NoticesOfUser, AckHandled, AckLost
<1>8. CASE UNCHANGED vars
  BY <1>1, <1>8 DEF vars
<1>9. CASE Next
  BY <1>4, <1>5, <1>6, <1>7, <1>9 DEF Next
<1> QED
  BY <1>8, <1>9

(* The durables that clean up exist before there is anything to clean up.  *)
LEMMA HeardStep == TInv /\ Heard /\ ParentsFound /\ [Next]_vars => Heard'
<1> SUFFICES ASSUME TInv, Heard, ParentsFound, [Next]_vars PROVE Heard'
  OBVIOUS
<1>0. comment \in Seq(Comment) /\ notice \in Seq(Notice) /\ up \in [Services -> 0 .. 3]
  BY DEF TInv, TypeOK
<1>1. \A x \in Durables : Exists(cons[x]) => Exists(cons'[x])
  BY DurablesProgress DEF Progress
<1>2. /\ "comment-post-deleted" \in Durables /\ "comment-user-deleted" \in Durables
      /\ "notification-user-deleted" \in Durables
  BY Statics
<1>3. ASSUME NEW v \in Services, NEW i \in 1 .. up'[v] PROVE Exists(cons'[Boot[v][i]])
  <2>1. CASE i \in 1 .. up[v]
    <3>1. Exists(cons[Boot[v][i]])
      BY <2>1 DEF Heard
    <3>2. Boot[v][i] \in Durables
      <4>1. i \in {1, 2, 3} /\ (v = "comment" => i \in {1, 2})
        BY <1>0, <2>1, Statics DEF TInv, TypeOK
      <4> QED
        BY <4>1, Statics
    <3> QED
      BY <1>1, <3>1, <3>2
  <2>2. CASE i \notin 1 .. up[v]
    BY <2>2, UpStep
  <2> QED
    BY <2>1, <2>2
<1>4. ASSUME comment' # << >>
      PROVE  Exists(cons'["comment-post-deleted"]) /\ Exists(cons'["comment-user-deleted"])
  <2>1. CommentsMove
    BY CommentStep
  <2>2. CASE comment # << >>
    BY <1>1, <1>2, <2>2 DEF Heard
  <2>3. CASE comment = << >>
    <3>1. PICK row \in Comment : FreshComment(row)
      <4>1. CASE DOMAIN comment' = DOMAIN comment
        <5>1. comment' \in Seq(Comment)
          BY TInvStep DEF TInv, TypeOK
        <5> QED
          BY <1>4, <2>3, <4>1, <5>1
      <4> QED
        BY <2>1, <4>1 DEF CommentsMove
    <3> QED
      BY <1>1, <1>2, <3>1 DEF FreshComment
  <2> QED
    BY <2>2, <2>3
<1>5. ASSUME NEW n \in DOMAIN notice', ~ notice'[n].early
      PROVE  Exists(cons'["notification-user-deleted"])
  <2>1. NoticesMove
    BY NoticeStep
  <2>2. CASE /\ DOMAIN notice' = DOMAIN notice
             /\ \A m \in DOMAIN notice : SameNotice(notice'[m], notice[m])
    BY <1>1, <1>2, <1>5, <2>2 DEF Heard, SameNotice
  <2>3. ASSUME NEW row \in Notice, notice' = Append(notice, row), FreshNotice(row)
        PROVE  Exists(cons'["notification-user-deleted"])
    <3>1. CASE n \in DOMAIN notice
      BY <1>0, <1>1, <1>2, <1>5, <2>3, <3>1 DEF Heard
    <3>2. CASE n \notin DOMAIN notice
      <4>1. notice'[n] = row
        BY <1>0, <1>5, <2>3, <3>2
      <4> QED
        BY <1>1, <1>2, <1>5, <2>3, <4>1 DEF FreshNotice
    <3> QED
      BY <3>1, <3>2
  <2> QED
    BY <2>1, <2>2, <2>3 DEF NoticesMove
<1> QED
  BY <1>3, <1>4, <1>5 DEF Heard

-----------------------------------------------------------------------------
(* The safety properties.                                                  *)

CInv == Heard /\ ParentsFound /\ RepliesStayOnPost
          /\ CommentsGoWithPostAndAuthor /\ NoticesGoWithUser

(* An event that is applied has been published before.                     *)
LEMMA AppliedIsPublished ==
  ASSUME TInv, NEW d \in Durables, NEW s \in Nat \ {0}, Applied(cons[d], s)
  PROVE  s \in DOMAIN stream[SubjectOf[d]]
<1>1. cons[d] \in DurableOf(stream[SubjectOf[d]]) /\ stream[SubjectOf[d]] \in Seq(Event)
  BY DurableSteps
<1> QED
  BY <1>1 DEF DurableOf, Consumer, Applied

(* An event that a step makes applied for a durable that existed was there *)
(* before the step, and if it was not applied yet, the handler ran on it.  *)
LEMMA NewlyApplied ==
  ASSUME TInv, [Next]_vars, NEW d \in Durables, Exists(cons[d]),
         NEW s \in DOMAIN stream'[SubjectOf[d]], Applied(cons'[d], s),
         d \in {"comment-post-deleted", "comment-user-deleted", "notification-user-deleted"}
  PROVE  /\ s \in DOMAIN stream[SubjectOf[d]]
         /\ stream'[SubjectOf[d]][s] = stream[SubjectOf[d]][s]
         /\ Applied(cons[d], s) \/ Cleans(d, s)
<1>0. TInv' /\ StreamGrows
  BY TInvStep, StreamStep
<1>1. s \in Nat \ {0} /\ SubjectOf[d] \in Subjects
  BY <1>0, Statics DEF TInv, TypeOK
<1>2. Applied(cons[d], s) \/ Cleans(d, s)
  BY <1>1, DurablesProgress DEF Progress
<1>3. s \in DOMAIN stream[SubjectOf[d]]
  <2>1. CASE Applied(cons[d], s)
    BY <1>1, <2>1, AppliedIsPublished
  <2>2. CASE Cleans(d, s)
    <3>1. UNCHANGED stream
      BY <2>2 DEF Cleans, CommentsOfPost, CommentsOfUser, NoticesOfUser
    <3> QED
      BY <3>1
  <2> QED
    BY <1>2, <2>1, <2>2
<1> QED
  BY <1>0, <1>1, <1>2, <1>3 DEF StreamGrows

(* Replies stay on their post.                                             *)
LEMMA RepliesStep == TInv /\ CInv /\ [Next]_vars => RepliesStayOnPost'
<1> SUFFICES ASSUME TInv, CInv, [Next]_vars, NEW c \in DOMAIN comment', comment'[c].parent # 0
             PROVE  /\ comment'[c].parent < c
                    /\ comment'[comment'[c].parent].post = comment'[c].post
  BY DEF RepliesStayOnPost
<1>0. comment \in Seq(Comment) /\ CommentsMove
  BY CommentStep DEF TInv, TypeOK, CInv
<1>1. ASSUME NEW x \in DOMAIN comment, comment[x].parent # 0
      PROVE  /\ comment[x].parent < x /\ comment[x].parent \in DOMAIN comment
             /\ comment[comment[x].parent].post = comment[x].post
  <2>1. comment[x] \in Comment
    BY <1>0
  <2>2. comment[x].parent \in Nat
    BY <2>1 DEF Comment
  <2>3. comment[x].parent < x /\ comment[comment[x].parent].post = comment[x].post
    BY <1>1 DEF CInv, RepliesStayOnPost
  <2> QED
    BY <1>0, <1>1, <2>2, <2>3
<1>2. CASE /\ DOMAIN comment' = DOMAIN comment
           /\ \A x \in DOMAIN comment : SameComment(comment'[x], comment[x])
  BY <1>1, <1>2 DEF SameComment
<1>3. ASSUME NEW row \in Comment, comment' = Append(comment, row), FreshComment(row)
      PROVE  /\ comment'[c].parent < c
             /\ comment'[comment'[c].parent].post = comment'[c].post
  <2>1. \A x \in DOMAIN comment : comment'[x] = comment[x]
    BY <1>0, <1>3
  <2>2. CASE c \in DOMAIN comment
    BY <1>1, <2>1, <2>2
  <2>3. CASE c \notin DOMAIN comment
    <3>1. c = Len(comment) + 1 /\ comment'[c] = row
      BY <1>0, <1>3, <2>3
    <3>2. row.parent \in DOMAIN comment /\ comment[row.parent].post = row.post
      BY <1>3, <3>1 DEF FreshComment
    <3>3. row.parent < c
      BY <1>0, <3>1, <3>2
    <3> QED
      BY <2>1, <3>1, <3>2, <3>3
  <2> QED
    BY <2>2, <2>3
<1> QED
  BY <1>0, <1>2, <1>3 DEF CommentsMove

(* A comment goes when a deletion is handled, and one inserted later knows *)
(* of every deletion handled so far.                                       *)
LEMMA CommentsStep == TInv /\ CInv /\ [Next]_vars => CommentsGoWithPostAndAuthor'
<1> SUFFICES ASSUME TInv, CInv, [Next]_vars, NEW c \in DOMAIN comment', comment'[c].here
             PROVE  /\ \A s \in DOMAIN stream'["post.deleted"] :
                          /\ Applied(cons'["comment-post-deleted"], s)
                          /\ stream'["post.deleted"][s].post = comment'[c].post
                          => s <= comment'[c].posts
                    /\ \A s \in DOMAIN stream'["user.deleted"] :
                          /\ Applied(cons'["comment-user-deleted"], s)
                          /\ stream'["user.deleted"][s].user = comment'[c].author
                          => s <= comment'[c].users
  BY DEF CommentsGoWithPostAndAuthor
<1>0. comment \in Seq(Comment) /\ CommentsMove /\ Heard /\ CommentsGoWithPostAndAuthor
  BY CommentStep DEF TInv, TypeOK, CInv
<1>1. CASE c \in DOMAIN comment
  <2>1. SameComment(comment'[c], comment[c])
    <3>1. ASSUME NEW row, comment' = Append(comment, row) PROVE comment'[c] = comment[c]
      BY <1>0, <1>1, <3>1
    <3> QED
      BY <1>0, <1>1, <3>1 DEF CommentsMove, SameComment
  <2>2. comment[c].here /\ comment # << >>
    BY <1>1, <2>1 DEF SameComment
  <2>3. ASSUME NEW s \in DOMAIN stream'["post.deleted"],
               Applied(cons'["comment-post-deleted"], s),
               stream'["post.deleted"][s].post = comment'[c].post
        PROVE  s <= comment'[c].posts
    <3> DEFINE d == "comment-post-deleted"
    <3>1. d \in Durables /\ SubjectOf[d] = "post.deleted" /\ Exists(cons[d])
      BY <1>0, <2>2, Statics DEF Heard
    <3>2. /\ s \in DOMAIN stream["post.deleted"]
          /\ stream'["post.deleted"][s] = stream["post.deleted"][s]
          /\ Applied(cons[d], s) \/ CommentsOfPost(s)
      BY <2>3, <3>1, NewlyApplied DEF Cleans
    <3>3. CASE Applied(cons[d], s)
      BY <1>0, <1>1, <2>1, <2>2, <2>3, <3>2, <3>3 DEF CommentsGoWithPostAndAuthor, SameComment
    <3>4. CASE CommentsOfPost(s)
      <4>1. comment'[c] = Without(comment[c], TRUE)
        BY <1>1, <2>1, <2>3, <3>2, <3>4 DEF CommentsOfPost, SameComment
      <4>2. comment[c] \in Comment
        BY <1>0, <1>1
      <4> QED
        BY <4>1, <4>2 DEF Without, Comment
    <3> QED
      BY <3>2, <3>3, <3>4
  <2>4. ASSUME NEW s \in DOMAIN stream'["user.deleted"],
               Applied(cons'["comment-user-deleted"], s),
               stream'["user.deleted"][s].user = comment'[c].author
        PROVE  s <= comment'[c].users
    <3> DEFINE d == "comment-user-deleted"
    <3>1. d \in Durables /\ SubjectOf[d] = "user.deleted" /\ Exists(cons[d])
      BY <1>0, <2>2, Statics DEF Heard
    <3>2. /\ s \in DOMAIN stream["user.deleted"]
          /\ stream'["user.deleted"][s] = stream["user.deleted"][s]
          /\ Applied(cons[d], s) \/ CommentsOfUser(s)
      BY <2>4, <3>1, NewlyApplied DEF Cleans
    <3>3. CASE Applied(cons[d], s)
      BY <1>0, <1>1, <2>1, <2>2, <2>4, <3>2, <3>3 DEF CommentsGoWithPostAndAuthor, SameComment
    <3>4. CASE CommentsOfUser(s)
      <4>1. comment'[c] = Without(comment[c], TRUE)
        BY <1>1, <2>1, <2>4, <3>2, <3>4 DEF CommentsOfUser, SameComment
      <4>2. comment[c] \in Comment
        BY <1>0, <1>1
      <4> QED
        BY <4>1, <4>2 DEF Without, Comment
    <3> QED
      BY <3>2, <3>3, <3>4
  <2> QED
    BY <2>3, <2>4
<1>2. CASE c \notin DOMAIN comment
  <2>1. PICK row \in Comment : comment' = Append(comment, row) /\ FreshComment(row)
    BY <1>0, <1>2 DEF CommentsMove
  <2>2. comment'[c] = row
    BY <1>0, <1>2, <2>1
  <2>3. stream["post.deleted"] \in Seq(Event) /\ stream["user.deleted"] \in Seq(Event)
    BY DEF TInv, TypeOK, Subjects
  <2> QED
    BY <2>1, <2>2, <2>3 DEF FreshComment
<1> QED
  BY <1>1, <1>2

(* Likewise the notifications.                                             *)
LEMMA NoticesStep == TInv /\ CInv /\ [Next]_vars => NoticesGoWithUser'
<1> DEFINE d == "notification-user-deleted"
<1> SUFFICES ASSUME TInv, CInv, [Next]_vars, NEW n \in DOMAIN notice',
                    notice'[n].here, ~ notice'[n].early,
                    NEW s \in DOMAIN stream'["user.deleted"], Applied(cons'[d], s),
                    stream'["user.deleted"][s].user = notice'[n].user
             PROVE  s <= notice'[n].users
  BY DEF NoticesGoWithUser
<1>0. notice \in Seq(Notice) /\ NoticesMove /\ Heard /\ NoticesGoWithUser
  BY NoticeStep DEF TInv, TypeOK, CInv
<1>1. CASE n \in DOMAIN notice
  <2>1. SameNotice(notice'[n], notice[n])
    <3>1. ASSUME NEW row, notice' = Append(notice, row) PROVE notice'[n] = notice[n]
      BY <1>0, <1>1, <3>1
    <3> QED
      BY <1>0, <1>1, <3>1 DEF NoticesMove, SameNotice
  <2>2. notice[n].here /\ ~ notice[n].early
    BY <2>1 DEF SameNotice
  <2>3. d \in Durables /\ SubjectOf[d] = "user.deleted" /\ Exists(cons[d])
    BY <1>0, <1>1, <2>2, Statics DEF Heard
  <2>4. /\ s \in DOMAIN stream["user.deleted"]
        /\ stream'["user.deleted"][s] = stream["user.deleted"][s]
        /\ Applied(cons[d], s) \/ NoticesOfUser(s)
    BY <2>3, NewlyApplied DEF Cleans
  <2>5. CASE Applied(cons[d], s)
    BY <1>0, <1>1, <2>1, <2>2, <2>4, <2>5 DEF NoticesGoWithUser, SameNotice
  <2>6. CASE NoticesOfUser(s)
    <3>1. notice'[n] = Without(notice[n], TRUE)
      BY <1>1, <2>1, <2>4, <2>6 DEF NoticesOfUser, SameNotice
    <3>2. notice[n] \in Notice
      BY <1>0, <1>1
    <3> QED
      BY <3>1, <3>2 DEF Without, Notice
  <2> QED
    BY <2>4, <2>5, <2>6
<1>2. CASE n \notin DOMAIN notice
  <2>1. PICK row \in Notice : notice' = Append(notice, row) /\ FreshNotice(row)
    BY <1>0, <1>2 DEF NoticesMove
  <2>2. notice'[n] = row
    BY <1>0, <1>2, <2>1
  <2>3. stream["user.deleted"] \in Seq(Event)
    BY DEF TInv, TypeOK, Subjects
  <2> QED
    BY <2>1, <2>2, <2>3 DEF FreshNotice
<1> QED
  BY <1>1, <1>2

(* At first there is nothing to promise anything about.                    *)
LEMMA CInvInit == Init => CInv
<1> SUFFICES ASSUME Init PROVE CInv
  OBVIOUS
<1>1. ParentsFound
  BY DEF Init, Idle, ParentsFound
<1>2. Heard
  <2>1. \A v \in Services : 1 .. up[v] = {}
    BY DEF Init
  <2> QED
    BY <2>1 DEF Init, Heard
<1>3. RepliesStayOnPost /\ CommentsGoWithPostAndAuthor /\ NoticesGoWithUser
  BY DEF Init, RepliesStayOnPost, CommentsGoWithPostAndAuthor, NoticesGoWithUser
<1> QED
  BY <1>1, <1>2, <1>3 DEF CInv

(* The conjunction is inductive.                                           *)
LEMMA CInvStep == TInv /\ CInv /\ [Next]_vars => CInv'
<1>1. CInv => Heard /\ ParentsFound
  BY DEF CInv
<1> QED
  BY <1>1, HeardStep, ParentsStep, RepliesStep, CommentsStep, NoticesStep DEF CInv

(* The inductive invariant holds in every reachable state.                 *)
THEOREM CascadeInvariant == Spec => []CInv
<1> QED
  BY TInvInit, TInvStep, CInvInit, CInvStep, PTL DEF Spec

(* No comment outlives its post or its author by accident.                 *)
THEOREM CommentsGo == Spec => []CommentsGoWithPostAndAuthor
<1>1. CInv => CommentsGoWithPostAndAuthor
  BY DEF CInv
<1> QED
  BY <1>1, CascadeInvariant, PTL

(* Nor does a notification its user, once the durable exists.              *)
THEOREM NoticesGo == Spec => []NoticesGoWithUser
<1>1. CInv => NoticesGoWithUser
  BY DEF CInv
<1> QED
  BY <1>1, CascadeInvariant, PTL

(* A reply is on the post of its parent.                                   *)
THEOREM ThreadsAreSound == Spec => []RepliesStayOnPost
<1>1. CInv => RepliesStayOnPost
  BY DEF CInv
<1> QED
  BY <1>1, CascadeInvariant, PTL

-----------------------------------------------------------------------------
(* As long as nothing fails.                                               *)

\* The strengthening of OneNoticePerEvent: nothing waits to come again, and
\* whatever has been told is behind the durable that told it.
Told ==
  faults = 0 =>
     /\ \A d \in Durables : cons[d].again = {}
     /\ \A n \in DOMAIN notice : \E d \in Tellers :
           /\ notice[n].of.subject = SubjectOf[d]
           /\ notice[n].of.number < cons[d].next

\* What happens to durable d when nothing fails.
Gentle(d) ==
  \/ cons'[d] = cons[d]
  \/ cons'[d] = SubscribeNew(cons[d], stream[SubjectOf[d]])
  \/ cons'[d] = Ack(cons[d])
  \/ \E s \in Deliverable(cons[d], stream[SubjectOf[d]]) : cons'[d] = Receive(cons[d], s)

(* The handlers of all durables receive gently.                            *)
LEMMA ReceivesGently ==
  ASSUME TInv, NEW d \in Durables, NEW c, cons' = [cons EXCEPT ![d] = c],
         \/ c = SubscribeNew(cons[d], stream[SubjectOf[d]])
         \/ c = Ack(cons[d])
         \/ \E s \in Deliverable(cons[d], stream[SubjectOf[d]]) : c = Receive(cons[d], s)
  PROVE  \A x \in Durables : Gentle(x)
<1>1. cons \in [Durables -> Consumer]
  BY DEF TInv, TypeOK
<1> SUFFICES ASSUME NEW x \in Durables PROVE Gentle(x)
  OBVIOUS
<1>2. CASE x = d
  <2>1. cons'[x] = c
    BY <1>1, <1>2
  <2> QED
    BY <1>2, <2>1 DEF Gentle
<1>3. CASE x # d
  BY <1>1, <1>3 DEF Gentle
<1> QED
  BY <1>2, <1>3

(* A step is gentle with every durable, or it is counted as a fault.       *)
LEMMA GentleStep ==
  ASSUME TInv, [Next]_vars
  PROVE  \/ faults' = faults /\ \A x \in Durables : Gentle(x)
         \/ faults' = faults + 1
<1> DEFINE Calm == faults' = faults /\ \A x \in Durables : Gentle(x)
<1>1. CASE UNCHANGED <<cons, faults>>
  BY <1>1 DEF Gentle
<1>2. ASSUME NEW v \in Services, Attach(v) PROVE Calm
  <2> DEFINE d == Boot[v][up[v] + 1]
  <2>1. /\ cons' = [cons EXCEPT ![d] = SubscribeNew(cons[d], stream[SubjectOf[d]])]
        /\ faults' = faults
    BY <1>2 DEF Attach
  <2>2. cons \in [Durables -> Consumer]
    BY DEF TInv, TypeOK
  <2>3. ASSUME NEW x \in Durables PROVE Gentle(x)
    <3>1. cons'[x] = cons[x] \/ cons'[x] = SubscribeNew(cons[x], stream[SubjectOf[x]])
      BY <2>1, <2>2
    <3> QED
      BY <3>1 DEF Gentle
  <2> QED
    BY <2>1, <2>3
<1>3. ASSUME NEW d \in Durables, NEW v, NEW s, Receives(v, d, s), faults' = faults PROVE Calm
  BY <1>3, ReceivesGently DEF Receives
<1>4. CASE \E d \in Durables : Handler(d)
  BY <1>3, <1>4, Statics DEF Handler, CommentsOfPost, CommentsOfUser, NoticeOfComment,
     NoticeOfPost, NoticesOfUser
<1>5. ASSUME NEW d \in Durables, AckHandled(d) PROVE Calm
  <2>1. cons' = [cons EXCEPT ![d] = Ack(cons[d])] /\ faults' = faults
    BY <1>5 DEF AckHandled
  <2> QED
    BY <2>1, ReceivesGently
<1>6. CASE \E d \in Durables : Handler(d) \/ AckHandled(d) \/ AckLost(d)
  BY <1>4, <1>5, <1>6 DEF AckLost
<1>7. CASE \E v \in Services : \/ Attach(v) \/ Crash(v)
                               \/ \E d \in DurablesOf(v), s \in Numbers : NakUnhandled(v, d, s)
  BY <1>2, <1>7 DEF Crash, NakUnhandled
<1>8. CASE \E r \in Requests :
              \/ \E p \in Posts, u \in Users :
                    CreateComment(r, p, u) \/ \E c \in DOMAIN comment : FindParent(r, p, u, c)
              \/ \E c \in DOMAIN comment : FindForDelete(r, c)
              \/ Step(r)
              \/ PublicationFails(r)
  BY <1>1, <1>8 DEF Step, InsertReply, Announce, DeleteComment, PublicationFails,
     FindForDelete, CreateComment, FindParent
<1>9. CASE \/ \E n \in DOMAIN notice : MarkAsRead(n)
           \/ \E u \in Users : MarkAllAsRead(u) \/ UserDeleted(u)
           \/ \E p \in Existing : PostDeleted(p) \/ \E u \in Users : PostPublished(p, u)
  BY <1>1, <1>9 DEF MarkAsRead, MarkAllAsRead, UserDeleted, PostDeleted, PostPublished, Elsewhere
<1>10. CASE UNCHANGED vars
  BY <1>1, <1>10 DEF vars
<1>11. CASE Next
  BY <1>6, <1>7, <1>8, <1>9, <1>11 DEF Next
<1> QED
  BY <1>10, <1>11

(* A gentle step puts nothing back and moves no durable backwards; a       *)
(* number it delivers is passed for good.                                  *)
LEMMA GentleForward ==
  ASSUME TInv, NEW d \in Durables, Gentle(d), cons[d].again = {}
  PROVE  /\ cons'[d].again = {}
         /\ cons'[d].next >= cons[d].next
         /\ \A s \in Deliverable(cons[d], stream[SubjectOf[d]]) :
               /\ s = cons[d].next
               /\ cons'[d] = Receive(cons[d], s) => s < cons'[d].next
<1>1. /\ cons[d] \in Consumer /\ cons[d].next \in Nat
      /\ Len(stream[SubjectOf[d]]) \in Nat
  <2>1. cons[d] \in DurableOf(stream[SubjectOf[d]]) /\ stream[SubjectOf[d]] \in Seq(Event)
    BY DurableSteps
  <2> QED
    BY <2>1 DEF DurableOf, Consumer
<1>2. ASSUME NEW s \in Deliverable(cons[d], stream[SubjectOf[d]])
      PROVE  /\ s = cons[d].next
             /\ Receive(cons[d], s).next = cons[d].next + 1
             /\ Receive(cons[d], s).again = {}
  BY <1>1 DEF Deliverable, Receive
<1>3. /\ SubscribeNew(cons[d], stream[SubjectOf[d]]).again = {}
      /\ SubscribeNew(cons[d], stream[SubjectOf[d]]).next >= cons[d].next
      /\ Ack(cons[d]).again = {} /\ Ack(cons[d]).next = cons[d].next
  BY <1>1 DEF SubscribeNew, Exists, Ack, Consumer
<1> QED
  BY <1>1, <1>2, <1>3 DEF Gentle

(* OneNoticePerEvent and its strengthening hold through every step.        *)
LEMMA ToldStep == TInv /\ Told /\ OneNoticePerEvent /\ [Next]_vars => Told' /\ OneNoticePerEvent'
<1> SUFFICES ASSUME TInv, Told, OneNoticePerEvent, [Next]_vars, faults' = 0
             PROVE  /\ \A d \in Durables : cons'[d].again = {}
                    /\ \A n \in DOMAIN notice' : \E d \in Tellers :
                          /\ notice'[n].of.subject = SubjectOf[d]
                          /\ notice'[n].of.number < cons'[d].next
                    /\ \A m, n \in DOMAIN notice' : notice'[m].of = notice'[n].of => m = n
  BY DEF Told, OneNoticePerEvent
<1>1. faults = 0 /\ \A d \in Durables : Gentle(d)
  <2>1. faults \in Nat
    BY CascadeConstants DEF TInv, TypeOK
  <2> QED
    BY <2>1, GentleStep
<1>2. \A d \in Durables : cons[d].again = {}
  BY <1>1 DEF Told
<1>3. \A d \in Durables : cons'[d].again = {}
  BY <1>1, <1>2, GentleForward
<1>4. Tellers \subseteq Durables
  BY Statics DEF Tellers
<1>5. notice \in Seq(Notice) /\ cons \in [Durables -> Consumer] /\ cons' \in [Durables -> Consumer]
  <2>1. TInv'
    BY TInvStep
  <2> QED
    BY <2>1 DEF TInv, TypeOK
<1>6. \A n \in DOMAIN notice : \E d \in Tellers : /\ notice[n].of.subject = SubjectOf[d]
                                                 /\ notice[n].of.number < cons[d].next
  BY <1>1 DEF Told
<1>7. \A n \in DOMAIN notice : \E d \in Tellers : /\ notice[n].of.subject = SubjectOf[d]
                                                 /\ notice[n].of.number < cons'[d].next
  <2> SUFFICES ASSUME NEW n \in DOMAIN notice, NEW d \in Tellers,
                      notice[n].of.subject = SubjectOf[d], notice[n].of.number < cons[d].next
               PROVE  notice[n].of.number < cons'[d].next
    BY <1>6
  <2>1. d \in Durables
    BY <1>4
  <2>2. cons'[d].next >= cons[d].next
    BY <1>1, <1>2, <2>1, GentleForward
  <2>3. cons[d].next \in Nat /\ cons'[d].next \in Nat
    BY <1>5, <2>1 DEF Consumer
  <2>4. notice[n].of.number \in Nat
    <3>1. notice[n] \in Notice
      BY <1>5
    <3>2. notice[n].of \in [subject : Subjects, number : Nat]
      BY <3>1 DEF Notice
    <3> QED
      BY <3>2
  <2> QED
    BY <2>2, <2>3, <2>4
<1>8. \A m, n \in DOMAIN notice : notice[m].of = notice[n].of => m = n
  BY <1>1 DEF OneNoticePerEvent
<1>9. CASE /\ DOMAIN notice' = DOMAIN notice
           /\ \A n \in DOMAIN notice : notice'[n].of = notice[n].of
  BY <1>3, <1>7, <1>8, <1>9
<1>10. ASSUME NEW row \in Notice, notice' = Append(notice, row), FreshNotice(row)
       PROVE  /\ \A n \in DOMAIN notice' : \E d \in Tellers :
                    /\ notice'[n].of.subject = SubjectOf[d]
                    /\ notice'[n].of.number < cons'[d].next
              /\ \A m, n \in DOMAIN notice' : notice'[m].of = notice'[n].of => m = n
  <2> SUFFICES ASSUME NEW d \in Tellers, NEW s \in Deliverable(cons[d], stream[SubjectOf[d]]),
                      row.of = [subject |-> SubjectOf[d], number |-> s],
                      cons'[d] = Receive(cons[d], s)
               PROVE  /\ \A n \in DOMAIN notice' : \E e \in Tellers :
                            /\ notice'[n].of.subject = SubjectOf[e]
                            /\ notice'[n].of.number < cons'[e].next
                      /\ \A m, n \in DOMAIN notice' : notice'[m].of = notice'[n].of => m = n
    BY <1>10 DEF FreshNotice
  <2>2. d \in Durables
    BY <1>4
  <2>3. s = cons[d].next /\ s < cons'[d].next
    BY <1>1, <1>2, <2>2, GentleForward
  <2>4. row.of.subject = SubjectOf[d] /\ row.of.number = s
    OBVIOUS
  <2>5. \A n \in DOMAIN notice : notice[n].of # row.of
    <3> SUFFICES ASSUME NEW n \in DOMAIN notice, notice[n].of = row.of PROVE FALSE
      OBVIOUS
    <3>1. PICK e \in Tellers : notice[n].of.subject = SubjectOf[e] /\ notice[n].of.number < cons[e].next
      BY <1>6
    <3>2. e = d
      BY <2>4, <3>1, Statics DEF Tellers
    <3>3. cons[d].next \in Nat
      BY <1>5, <2>2 DEF Consumer
    <3> QED
      BY <2>3, <2>4, <3>1, <3>2, <3>3
  <2>6. /\ DOMAIN notice' = DOMAIN notice \union {Len(notice) + 1}
        /\ \A n \in DOMAIN notice : notice'[n] = notice[n]
        /\ notice'[Len(notice) + 1] = row
    BY <1>5, <1>10
  <2>7. ASSUME NEW n \in DOMAIN notice'
        PROVE  \E e \in Tellers : /\ notice'[n].of.subject = SubjectOf[e]
                                  /\ notice'[n].of.number < cons'[e].next
    BY <1>7, <2>3, <2>4, <2>6
  <2>8. ASSUME NEW m \in DOMAIN notice', NEW n \in DOMAIN notice', notice'[m].of = notice'[n].of
        PROVE  m = n
    BY <1>8, <2>5, <2>6, <2>8
  <2> QED
    BY <2>7, <2>8
<1> QED
  <2>1. NoticesMove
    BY NoticeStep
  <2> QED
    BY <1>3, <1>9, <1>10, <2>1 DEF NoticesMove, SameNotice

(* As long as nothing fails, nobody is told twice of one event, although   *)
(* createNotification never looks whether there is a notification already: *)
(* the durables hand every event out once, in both subjects.               *)
THEOREM NobodyToldTwice == Spec => []OneNoticePerEvent
<1>1. Init => Told /\ OneNoticePerEvent
  BY DEF Init, Told, OneNoticePerEvent, NoConsumer
<1>2. TInv /\ Told /\ OneNoticePerEvent /\ [Next]_vars => Told' /\ OneNoticePerEvent'
  BY ToldStep
<1> QED
  BY <1>1, <1>2, TypeInvariant, PTL DEF Spec
=============================================================================
