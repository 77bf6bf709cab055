--------------------------- MODULE AccountsProofs ---------------------------
(***************************************************************************)
(* Theorems about Accounts, for every set of ids, names, roles and request *)
(* slots and every bound.                                                  *)
(*    Whatever fails: types; a deleted credential stays deleted; the       *)
(*    credentials keep the lifecycle of their ids; a name is one account's *)
(*    and user.created names no id twice; roles have an origin; a deleted  *)
(*    profile takes a second delivery to come back.                        *)
(*    Up to the first fault: profiles keep the lifecycle of their ids; and *)
(*    if role changes of an account take turns, roles agree at rest.       *)
(***************************************************************************)
EXTENDS Accounts, EventStreamProofs

-----------------------------------------------------------------------------
(* The inductive invariants.                                               *)

\* An event says whose account it is about, and user.created the whole row.
Whole(subject, e) ==
  /\ e.id \in Users
  /\ subject = "created" => e.name \in Names /\ e.role \in Roles

EventsWhole ==
  /\ \A b \in Subjects : \A s \in DOMAIN stream[b] : Whole(b, stream[b][s])
  /\ \A r \in Requests :
        /\ req[r].at \in {"delete", "publish"} => Whole(req[r].subject, req[r].event)
        /\ req[r].at = "insert" => req[r].subject = "created" /\ req[r].event.name \in Names
        /\ req[r].at = "delete" => req[r].subject = "deleted"

DurablesFit == \A d \in Durables : cons[d] \in DurableOf(stream[SubjectOf[d]])

TInv == TypeOK /\ EventsWhole /\ DurablesFit

\* Every id a row, an event or a request names has been generated.
IdsIssued ==
  /\ \A u \in Users : cred[u] # Absent \/ profile[u] # Absent => u \in issued
  /\ \A b \in Subjects : \A s \in DOMAIN stream[b] : stream[b][s].id \in issued
  /\ \A r \in Requests : req[r].at \in {"delete", "publish"} => req[r].event.id \in issued

\* Nobody can delete an account before auth-service listens for deletions:
\* that takes an access token, and auth-service hands out none till then.
DeletionsHeard ==
  /\ phase["auth"] = "listening" => Exists(cons["auth-deleted"])
  /\ bearer => Exists(cons["auth-deleted"])
  /\ ~ bearer => /\ stream["deleted"] = << >>
                 /\ \A r \in Requests : req[r].subject # "deleted"

IInv == IdsIssued /\ DeletionsHeard /\ CredentialDeletionFinal

-----------------------------------------------------------------------------
(* The tables of durables.                                                 *)
LEMMA Statics ==
  /\ SubjectOf \in [Durables -> Subjects]
  /\ ReaderOf \in [Durables -> Services]
  /\ SubjectOf["user-created"] = "created" /\ ReaderOf["user-created"] = "user"
  /\ SubjectOf["auth-updated"] = "updated" /\ ReaderOf["auth-updated"] = "auth"
  /\ SubjectOf["auth-deleted"] = "deleted" /\ ReaderOf["auth-deleted"] = "auth"
BY DEF SubjectOf, ReaderOf, Durables, Subjects, Services

(* A fault is only taken while the budget lasts.                           *)
LEMMA FaultBudget ==
  ASSUME TypeOK, CanFail
  PROVE  faults + 1 \in 0 .. MaxFaults
BY AccountConstants DEF TypeOK, CanFail

(* A patched row is a row: fields an event lacks keep their values.        *)
LEMMA PatchedRow ==
  ASSUME NEW row \in Row, NEW e \in Event
  PROVE  Patched(row, e) \in Row
BY DEF Row, Event, Patched

(* The operations on the durables keep their types; what is delivered has  *)
(* been published.                                                         *)
LEMMA DurableSteps ==
  ASSUME TInv, NEW d \in Durables
  PROVE  /\ stream[SubjectOf[d]] \in Seq(Event)
         /\ cons[d] \in DurableOf(stream[SubjectOf[d]])
         /\ SubscribeNew(cons[d], stream[SubjectOf[d]]) \in DurableOf(stream[SubjectOf[d]])
         /\ \A s \in Deliverable(cons[d], stream[SubjectOf[d]]) :
               /\ s \in DOMAIN stream[SubjectOf[d]]
               /\ Receive(cons[d], s) \in DurableOf(stream[SubjectOf[d]])
               /\ Return(Receive(cons[d], s)) \in DurableOf(stream[SubjectOf[d]])
         /\ Ack(cons[d]) \in DurableOf(stream[SubjectOf[d]])
         /\ cons[d].open # 0 => Return(cons[d]) \in DurableOf(stream[SubjectOf[d]])
         /\ \A k \in Pulled(d) : Drop(cons[d], k) \in DurableOf(stream[SubjectOf[d]])
<1>1. stream[SubjectOf[d]] \in Seq(Event) /\ cons[d] \in DurableOf(stream[SubjectOf[d]])
  BY Statics DEF TInv, TypeOK, DurablesFit
<1> QED
  BY <1>1, DurableOperations DEF Pulled

(* A step that replaces durables by durables of the same subjects keeps    *)
(* them typed.                                                             *)
LEMMA DurablesStay ==
  ASSUME cons' = [d \in Durables |-> cons'[d]],
         UNCHANGED stream,
         \A d \in Durables : cons'[d] \in DurableOf(stream[SubjectOf[d]])
  PROVE  DurablesFit' /\ cons' \in [Durables -> Consumer]
BY DEF DurablesFit, DurableOf

-----------------------------------------------------------------------------
(* The initial states are typed.                                           *)
LEMMA TInvInit == Init => TInv
<1> SUFFICES ASSUME Init PROVE TInv
  OBVIOUS
<1>1. TypeOK
  <2>1. Idle \in Request
    BY DEF Idle, Request, Nothing, Event, Subjects
  <2>2. NoConsumer \in Consumer
    BY DEF NoConsumer, Consumer
  <2>3. << >> \in Seq(Event)
    OBVIOUS
  <2>4. bearer \in BOOLEAN
    BY Zenon DEF Init
  <2>9. issued \in SUBSET Users /\ faults \in 0 .. MaxFaults
    BY AccountConstants DEF Init
  <2>5. phase \in [Services -> Phases]
    BY DEF Init, Phases
  <2>6. stream \in [Subjects -> Seq(Event)]
    BY <2>3 DEF Init
  <2>7. cons \in [Durables -> Consumer] /\ req \in [Requests -> Request]
    BY <2>1, <2>2 DEF Init
  <2>8. /\ cred \in [Users -> Row \union {Absent}]
        /\ profile \in [Users -> Row \union {Absent}]
    BY DEF Init
  <2> QED
    BY <2>4, <2>5, <2>6, <2>7, <2>8, <2>9 DEF TypeOK
<1>2. EventsWhole
  BY DEF Init, EventsWhole, Idle
<1>3. DurablesFit
  <2>1. << >> \in Seq(Event)
    OBVIOUS
  <2> QED
    BY <2>1, Statics, DurableInitially DEF Init, DurablesFit
<1> QED
  BY <1>1, <1>2, <1>3 DEF TInv

(* Publishing a whole event keeps the subjects whole and the durables      *)
(* fitting them.                                                           *)
LEMMA Published ==
  ASSUME TInv, NEW b \in Subjects, NEW e \in Event, Whole(b, e),
         stream' = [stream EXCEPT ![b] = Append(@, e)],
         UNCHANGED cons
  PROVE  /\ stream' \in [Subjects -> Seq(Event)]
         /\ \A c \in Subjects : \A s \in DOMAIN stream'[c] : Whole(c, stream'[c][s])
         /\ DurablesFit'
<1>1. stream \in [Subjects -> Seq(Event)] /\ stream[b] \in Seq(Event)
  BY DEF TInv, TypeOK
<1>2. stream' \in [Subjects -> Seq(Event)]
  BY <1>1
<1>3. ASSUME NEW c \in Subjects, NEW s \in DOMAIN stream'[c]
      PROVE  Whole(c, stream'[c][s])
  <2>1. CASE c = b /\ s = Len(stream[b]) + 1
    BY <1>1, <2>1
  <2>2. CASE ~ (c = b /\ s = Len(stream[b]) + 1)
    <3>1. s \in DOMAIN stream[c] /\ stream'[c][s] = stream[c][s]
      BY <1>1, <2>2
    <3> QED
      BY <3>1 DEF TInv, EventsWhole
  <2> QED
    BY <2>1, <2>2
<1>4. ASSUME NEW d \in Durables
      PROVE  cons[d] \in DurableOf(stream'[SubjectOf[d]])
  <2>1. SubjectOf[d] \in Subjects /\ cons[d] \in DurableOf(stream[SubjectOf[d]])
    BY Statics DEF TInv, DurablesFit
  <2>2. CASE SubjectOf[d] = b
    BY <1>1, <2>1, <2>2, DurableAppend
  <2>3. CASE SubjectOf[d] # b
    BY <1>1, <2>1, <2>3
  <2> QED
    BY <2>2, <2>3
<1> QED
  BY <1>2, <1>3, <1>4 DEF DurablesFit

(* A request moves on without touching rows' types, stream or durables.    *)
LEMMA RequestMoves ==
  ASSUME TInv, NEW r \in Requests, NEW q \in Request,
         req' = [req EXCEPT ![r] = q],
         q.at \in {"delete", "publish"} => Whole(q.subject, q.event),
         q.at = "insert" => q.subject = "created" /\ q.event.name \in Names,
         q.at = "delete" => q.subject = "deleted"
  PROVE  /\ req' \in [Requests -> Request]
         /\ \A p \in Requests :
              /\ req'[p].at \in {"delete", "publish"} => Whole(req'[p].subject, req'[p].event)
              /\ req'[p].at = "insert" => /\ req'[p].subject = "created"
                                         /\ req'[p].event.name \in Names
              /\ req'[p].at = "delete" => req'[p].subject = "deleted"
BY DEF TInv, TypeOK, EventsWhole

(* A durable's step that leaves the stream alone.                          *)
LEMMA DurableMoves ==
  ASSUME TInv, NEW d \in Durables, NEW c \in DurableOf(stream[SubjectOf[d]]),
         cons' = [cons EXCEPT ![d] = c],
         UNCHANGED stream
  PROVE  cons' \in [Durables -> Consumer] /\ DurablesFit'
BY DEF TInv, TypeOK, DurablesFit, DurableOf

(* Every step keeps the types.                                             *)
LEMMA TInvStep == TInv /\ [Next]_vars => TInv'
<1> SUFFICES ASSUME TInv, [Next]_vars PROVE TInv'
  OBVIOUS
<1>0. TypeOK /\ EventsWhole /\ DurablesFit
  BY DEF TInv
<1>1. CASE StartAuth
  <2>1. cred' \in [Users -> Row \union {Absent}]
    BY <1>0, <1>1, AccountConstants DEF StartAuth, TypeOK, Row
  <2> QED
    BY <1>0, <1>1, <2>1 DEF StartAuth, TInv, TypeOK, EventsWhole, DurablesFit, Phases, Whole
<1>2. CASE StartAuthSeeding
  <2>1. [name |-> AdminName, role |-> "admin"] \in Row
    BY AccountConstants DEF Row
  <2>2. cred' \in [Users -> Row \union {Absent}] /\ issued' \in SUBSET Users
    BY <1>0, <1>2, <2>1 DEF StartAuthSeeding, TypeOK
  <2>3. phase' \in [Services -> Phases]
    BY <1>0, <1>2 DEF StartAuthSeeding, TypeOK, Phases
  <2> QED
    BY <1>0, <1>2, <2>2, <2>3
    DEF StartAuthSeeding, TInv, TypeOK, EventsWhole, DurablesFit, Whole
<1>3. CASE AnnounceAdmin
  <2>1. PICK u \in Users :
          /\ cred[u] # Absent
          /\ stream' = [stream EXCEPT !["created"] =
                 Append(@, [id |-> u, name |-> AdminName, role |-> cred[u].role])]
    BY <1>3 DEF AnnounceAdmin
  <2> DEFINE e == [id |-> u, name |-> AdminName, role |-> cred[u].role]
  <2>2. e \in Event /\ Whole("created", e)
    BY <1>0, <2>1, AccountConstants DEF TypeOK, Row, Event, Whole
  <2> HIDE DEF e
  <2>3. stream' = [stream EXCEPT !["created"] = Append(@, e)] /\ UNCHANGED cons
    BY <1>3, <2>1 DEF e, AnnounceAdmin
  <2>4. /\ stream' \in [Subjects -> Seq(Event)]
        /\ \A c \in Subjects : \A s \in DOMAIN stream'[c] : Whole(c, stream'[c][s])
        /\ DurablesFit'
    BY <2>2, <2>3, Published DEF Subjects
  <2> QED
    BY <1>0, <1>3, <2>4 DEF AnnounceAdmin, TInv, TypeOK, EventsWhole, Phases, Whole
<1>4. CASE ListenAuth
  <2>1. \A d \in Durables : cons'[d] \in DurableOf(stream[SubjectOf[d]])
    BY <1>4, DurableSteps DEF ListenAuth
  <2>2. DurablesFit' /\ cons' \in [Durables -> Consumer]
    BY <1>4, <2>1 DEF ListenAuth, DurablesFit, DurableOf
  <2> QED
    BY <1>0, <1>4, <2>2 DEF ListenAuth, TInv, TypeOK, EventsWhole, Phases, Whole
<1>5. CASE StartUser
  <2>1. DurablesFit' /\ cons' \in [Durables -> Consumer]
    BY <1>5, DurableSteps, DurableMoves, Statics DEF StartUser, Durables
  <2> QED
    BY <1>0, <1>5, <2>1 DEF StartUser, TInv, TypeOK, EventsWhole, Phases, Whole
<1>6. ASSUME NEW v \in Services, Crash(v) PROVE TInv'
  <2>1. \A d \in Durables : cons'[d] \in DurableOf(stream[SubjectOf[d]])
    BY <1>6, DurableSteps DEF Crash
  <2>2. DurablesFit' /\ cons' \in [Durables -> Consumer]
    BY <1>6, <2>1 DEF Crash, DurablesFit, DurableOf
  <2>3. req' \in [Requests -> Request]
    BY <1>0, <1>6 DEF Crash, TypeOK, Idle, Request, Nothing, Event, Subjects
  <2>4. EventsWhole'
    BY <1>0, <1>6 DEF Crash, EventsWhole, Whole, Idle
  <2>5. faults' \in 0 .. MaxFaults
    BY <1>0, <1>6, FaultBudget DEF Crash
  <2> QED
    BY <1>0, <1>6, <2>2, <2>3, <2>4, <2>5 DEF Crash, TInv, TypeOK, Phases
<1>7. CASE SignIn
  BY <1>0, <1>7 DEF SignIn, TInv, TypeOK, EventsWhole, DurablesFit, Whole
<1>8. ASSUME NEW r \in Requests, NEW n \in Names, Register(r, n) PROVE TInv'
  <2> DEFINE q == [at |-> "insert", subject |-> "created",
                   event |-> [Nothing EXCEPT !.name = n]]
  <2>1. q \in Request /\ q.at = "insert" /\ q.subject = "created" /\ q.event.name = n
    BY DEF Request, Nothing, Event, Subjects
  <2>2. req' = [req EXCEPT ![r] = q]
    BY <1>8 DEF Register
  <2> HIDE DEF q
  <2>3. req' \in [Requests -> Request] /\ EventsWhole'
    BY <1>0, <1>8, <2>1, <2>2, RequestMoves DEF Register, EventsWhole, Whole
  <2> QED
    BY <1>0, <1>8, <2>3 DEF Register, TInv, TypeOK, DurablesFit
<1>9. ASSUME NEW r \in Requests, InsertCredential(r) PROVE TInv'
  <2> DEFINE n == req[r].event.name
  <2>1. PICK u \in Users \ issued :
          /\ issued' = issued \union {u}
          /\ cred' = [cred EXCEPT ![u] = [name |-> n, role |-> "user"]]
          /\ req' = [req EXCEPT ![r] = [at |-> "publish", subject |-> "created",
                                        event |-> [id |-> u, name |-> n, role |-> "user"]]]
    BY <1>9 DEF InsertCredential
  <2>2. n \in Names /\ req[r] \in Request /\ req[r].subject = "created" /\ "user" \in Roles
    BY <1>0, <1>9, AccountConstants DEF InsertCredential, TypeOK, EventsWhole
  <2> DEFINE q == [at |-> "publish", subject |-> "created",
                   event |-> [id |-> u, name |-> n, role |-> "user"]]
  <2>3. q \in Request /\ Whole(q.subject, q.event) /\ q.at = "publish"
    BY <2>2 DEF Request, Event, Subjects, Whole
  <2>4. req' = [req EXCEPT ![r] = q]
    BY <2>1
  <2>5. [name |-> n, role |-> "user"] \in Row
    BY <2>2 DEF Row
  <2> HIDE DEF q
  <2>6. req' \in [Requests -> Request] /\ EventsWhole'
    BY <1>0, <1>9, <2>3, <2>4, RequestMoves DEF InsertCredential, EventsWhole, Whole
  <2>7. cred' \in [Users -> Row \union {Absent}] /\ issued' \in SUBSET Users
    BY <1>0, <2>1, <2>5 DEF TypeOK
  <2> QED
    BY <1>0, <1>9, <2>6, <2>7 DEF InsertCredential, TInv, TypeOK, DurablesFit
<1>10. Idle \in Request /\ Idle.at = "idle"
  BY DEF Idle, Request, Nothing, Event, Subjects
<1>11. ASSUME NEW r \in Requests, InsertRefused(r) PROVE TInv'
  <2>1. req' \in [Requests -> Request] /\ EventsWhole'
    BY <1>0, <1>10, <1>11, RequestMoves DEF InsertRefused, EventsWhole, Whole
  <2> QED
    BY <1>0, <1>11, <2>1 DEF InsertRefused, TInv, TypeOK, DurablesFit
<1>12. ASSUME NEW r \in Requests, NEW u \in Users, NEW e \in Event, e.id = u, Update(r, u, e)
       PROVE  TInv'
  <2> DEFINE q == [at |-> "publish", subject |-> "updated", event |-> e]
  <2>1. q \in Request /\ q.at = "publish" /\ Whole(q.subject, q.event)
    BY <1>12 DEF Request, Subjects, Whole
  <2>2. req' = [req EXCEPT ![r] = q]
    BY <1>12 DEF Update
  <2> HIDE DEF q
  <2>3. req' \in [Requests -> Request] /\ EventsWhole'
    BY <1>0, <1>12, <2>1, <2>2, RequestMoves DEF Update, EventsWhole, Whole
  <2>4. profile' \in [Users -> Row \union {Absent}]
    <3>1. profile[u] \in Row /\ profile' = [profile EXCEPT ![u] = Patched(profile[u], e)]
      BY <1>0, <1>12 DEF Update, TypeOK
    <3> QED
      BY <1>0, <3>1, PatchedRow DEF TypeOK
  <2>5. UNCHANGED <<cred, issued, stream, cons, phase, bearer, faults>>
    BY <1>12 DEF Update
  <2> QED
    BY <1>0, <2>3, <2>4, <2>5 DEF TInv, TypeOK, DurablesFit
<1>13. ASSUME NEW r \in Requests, NEW u \in Users, FindForDelete(r, u) PROVE TInv'
  <2> DEFINE q == [at |-> "delete", subject |-> "deleted",
                   event |-> [Nothing EXCEPT !.id = u]]
  <2>1. q \in Request /\ q.at = "delete" /\ q.subject = "deleted" /\ Whole(q.subject, q.event)
    BY DEF Request, Nothing, Event, Subjects, Whole
  <2>2. req' = [req EXCEPT ![r] = q]
    BY <1>13 DEF FindForDelete
  <2> HIDE DEF q
  <2>3. req' \in [Requests -> Request] /\ EventsWhole'
    BY <1>0, <1>13, <2>1, <2>2, RequestMoves DEF FindForDelete, EventsWhole, Whole
  <2> QED
    BY <1>0, <1>13, <2>3 DEF FindForDelete, TInv, TypeOK, DurablesFit
<1>14. ASSUME NEW r \in Requests, DeleteProfile(r) PROVE TInv'
  <2>1. req[r] \in Request /\ Whole(req[r].subject, req[r].event)
    BY <1>0, <1>14 DEF DeleteProfile, TypeOK, EventsWhole
  <2> DEFINE q == [at |-> "publish", subject |-> req[r].subject, event |-> req[r].event]
  <2>2. q \in Request /\ q.at = "publish" /\ Whole(q.subject, q.event)
    BY <2>1 DEF Request
  <2>3. req' = [req EXCEPT ![r] = q]
    <3>1. [req[r] EXCEPT !.at = "publish"] = q
      BY <2>1 DEF Request
    <3> QED
      BY <1>14, <3>1 DEF DeleteProfile
  <2> HIDE DEF q
  <2>4. req' \in [Requests -> Request] /\ EventsWhole'
    BY <1>0, <1>14, <2>2, <2>3, RequestMoves DEF DeleteProfile, EventsWhole, Whole
  <2> QED
    BY <1>0, <1>14, <2>4 DEF DeleteProfile, TInv, TypeOK, DurablesFit
<1>15. ASSUME NEW r \in Requests, Publish(r) PROVE TInv'
  <2> DEFINE b == req[r].subject
             e == req[r].event
  <2>1. b \in Subjects /\ e \in Event /\ Whole(b, e)
    BY <1>0, <1>15 DEF Publish, TypeOK, EventsWhole, Request
  <2>2. stream' = [stream EXCEPT ![b] = Append(@, e)] /\ UNCHANGED cons
    BY <1>15 DEF Publish
  <2> HIDE DEF b, e
  <2>3. /\ stream' \in [Subjects -> Seq(Event)]
        /\ \A c \in Subjects : \A s \in DOMAIN stream'[c] : Whole(c, stream'[c][s])
        /\ DurablesFit'
    BY <2>1, <2>2, Published
  <2>4. req' \in [Requests -> Request] /\ EventsWhole'
    BY <1>10, <1>15, <2>3, RequestMoves DEF Publish, EventsWhole, Whole
  <2> QED
    BY <1>0, <1>15, <2>3, <2>4 DEF Publish, TInv, TypeOK
<1>16. ASSUME NEW r \in Requests, PublishFails(r) PROVE TInv'
  <2>1. req' \in [Requests -> Request] /\ EventsWhole'
    BY <1>0, <1>10, <1>16, RequestMoves DEF PublishFails, EventsWhole, Whole
  <2>2. faults' \in 0 .. MaxFaults
    BY <1>0, <1>16, FaultBudget DEF PublishFails
  <2>3. UNCHANGED <<cred, profile, issued, stream, cons, phase, bearer>>
    BY <1>16 DEF PublishFails
  <2> QED
    BY <1>0, <2>1, <2>2, <2>3 DEF TInv, TypeOK, DurablesFit
<1>17. ASSUME NEW s, HandleUserCreated(s) PROVE TInv'
  <2> DEFINE e == stream["created"][s]
  <2>1. "user-created" \in Durables
    BY DEF Durables
  <2>2. /\ s \in DOMAIN stream["created"]
        /\ Receive(cons["user-created"], s) \in DurableOf(stream["created"])
    BY <1>17, <2>1, DurableSteps, Statics DEF HandleUserCreated, Receives
  <2>3. Whole("created", e) /\ e \in Event
    BY <1>0, <2>2 DEF EventsWhole, TypeOK, Subjects
  <2>4. [name |-> e.name, role |-> e.role] \in Row
    BY <2>3 DEF Whole, Row
  <2>5. profile' \in [Users -> Row \union {Absent}]
    BY <1>0, <1>17, <2>4 DEF HandleUserCreated, TypeOK
  <2>6. cons' = [cons EXCEPT !["user-created"] = Receive(cons["user-created"], s)]
    BY <1>17 DEF HandleUserCreated, Receives
  <2>7. UNCHANGED <<cred, issued, stream, phase, req, bearer, faults>>
    BY <1>17 DEF HandleUserCreated
  <2>8. cons' \in [Durables -> Consumer] /\ DurablesFit'
    BY <2>1, <2>2, <2>6, <2>7, DurableMoves, Statics
  <2> QED
    BY <1>0, <2>5, <2>7, <2>8 DEF TInv, TypeOK, EventsWhole, Whole
<1>18. ASSUME NEW s, HandleUserUpdated(s) PROVE TInv'
  <2> DEFINE e == stream["updated"][s]
  <2>1. "auth-updated" \in Durables
    BY DEF Durables
  <2>2. /\ s \in DOMAIN stream["updated"]
        /\ Receive(cons["auth-updated"], s) \in DurableOf(stream["updated"])
    BY <1>18, <2>1, DurableSteps, Statics DEF HandleUserUpdated, Receives
  <2>3. Whole("updated", e) /\ e \in Event
    BY <1>0, <2>2 DEF EventsWhole, TypeOK, Subjects
  <2>4. cred' \in [Users -> Row \union {Absent}]
    <3>1. CASE cred[e.id] = Absent
      BY <1>0, <1>18, <3>1 DEF HandleUserUpdated, TypeOK
    <3>2. CASE cred[e.id] # Absent
      <4>1. cred[e.id] \in Row
        BY <1>0, <2>3, <3>2 DEF TypeOK, Whole
      <4>2. cred' = [cred EXCEPT ![e.id] = Patched(cred[e.id], e)]
        BY <1>18, <3>2 DEF HandleUserUpdated
      <4> QED
        BY <1>0, <2>3, <4>1, <4>2, PatchedRow DEF TypeOK
    <3> QED
      BY <3>1, <3>2
  <2>5. cons' = [cons EXCEPT !["auth-updated"] = Receive(cons["auth-updated"], s)]
    BY <1>18 DEF HandleUserUpdated, Receives
  <2>6. UNCHANGED <<profile, issued, stream, phase, req, bearer, faults>>
    BY <1>18 DEF HandleUserUpdated
  <2>7. cons' \in [Durables -> Consumer] /\ DurablesFit'
    BY <2>1, <2>2, <2>5, <2>6, DurableMoves, Statics
  <2> QED
    BY <1>0, <2>4, <2>6, <2>7 DEF TInv, TypeOK, EventsWhole, Whole
<1>19. ASSUME NEW s, RefuseUserUpdated(s) PROVE TInv'
  <2>1. "auth-updated" \in Durables
    BY DEF Durables
  <2>2. Return(Receive(cons["auth-updated"], s)) \in DurableOf(stream["updated"])
    BY <1>19, <2>1, DurableSteps, Statics DEF RefuseUserUpdated
  <2>3. cons' = [cons EXCEPT !["auth-updated"] = Return(Receive(cons["auth-updated"], s))]
    BY <1>19 DEF RefuseUserUpdated
  <2>4. UNCHANGED <<cred, profile, issued, stream, phase, req, bearer, faults>>
    BY <1>19 DEF RefuseUserUpdated
  <2>5. cons' \in [Durables -> Consumer] /\ DurablesFit'
    BY <2>1, <2>2, <2>3, <2>4, DurableMoves, Statics
  <2> QED
    BY <1>0, <2>4, <2>5 DEF TInv, TypeOK, EventsWhole, Whole
<1>20. ASSUME NEW s, HandleUserDeleted(s) PROVE TInv'
  <2>1. "auth-deleted" \in Durables
    BY DEF Durables
  <2>2. Receive(cons["auth-deleted"], s) \in DurableOf(stream["deleted"])
    BY <1>20, <2>1, DurableSteps, Statics DEF HandleUserDeleted, Receives
  <2>3. cons' = [cons EXCEPT !["auth-deleted"] = Receive(cons["auth-deleted"], s)]
    BY <1>20 DEF HandleUserDeleted, Receives
  <2>4. cred' \in [Users -> Row \union {Absent}]
    BY <1>0, <1>20 DEF HandleUserDeleted, TypeOK
  <2>5. UNCHANGED <<profile, issued, stream, phase, req, bearer, faults>>
    BY <1>20 DEF HandleUserDeleted
  <2>6. cons' \in [Durables -> Consumer] /\ DurablesFit'
    BY <2>1, <2>2, <2>3, <2>5, DurableMoves, Statics
  <2> QED
    BY <1>0, <2>4, <2>5, <2>6 DEF TInv, TypeOK, EventsWhole, Whole
<1>21. ASSUME NEW d \in Durables, AckHandled(d) PROVE TInv'
  <2>1. UNCHANGED <<cred, profile, issued, stream, phase, req, bearer, faults>>
    BY <1>21 DEF AckHandled
  <2>2. cons' \in [Durables -> Consumer] /\ DurablesFit'
    BY <1>21, <2>1, DurableSteps, DurableMoves DEF AckHandled
  <2> QED
    BY <1>0, <2>1, <2>2 DEF TInv, TypeOK, EventsWhole, Whole
<1>22. ASSUME NEW d \in Durables, AckLost(d) PROVE TInv'
  <2>1. UNCHANGED <<cred, profile, issued, stream, phase, req, bearer>>
    BY <1>22 DEF AckLost
  <2>2. cons' \in [Durables -> Consumer] /\ DurablesFit'
    BY <1>22, <2>1, DurableSteps, DurableMoves DEF AckLost
  <2>3. faults' \in 0 .. MaxFaults
    BY <1>0, <1>22, FaultBudget DEF AckLost
  <2> QED
    BY <1>0, <2>1, <2>2, <2>3 DEF TInv, TypeOK, EventsWhole, Whole
<1>23. ASSUME NEW d \in Durables, NEW s, NakUnhandled(d, s) PROVE TInv'
  <2>1. UNCHANGED <<cred, profile, issued, stream, phase, req, bearer>>
    BY <1>23 DEF NakUnhandled
  <2>2. cons' \in [Durables -> Consumer] /\ DurablesFit'
    BY <1>23, <2>1, DurableSteps, DurableMoves DEF NakUnhandled
  <2>3. faults' \in 0 .. MaxFaults
    BY <1>0, <1>23, FaultBudget DEF NakUnhandled
  <2> QED
    BY <1>0, <2>1, <2>2, <2>3 DEF TInv, TypeOK, EventsWhole, Whole
<1>24. CASE UNCHANGED vars
  BY <1>0, <1>24 DEF vars, TInv, TypeOK, EventsWhole, DurablesFit, Whole
<1>25. ASSUME NEW r \in Requests, NEW u \in Users, NEW role \in Roles, UpdateUserRole(r, u, role)
       PROVE  TInv'
  BY <1>12, <1>25 DEF UpdateUserRole, Event
<1>26. ASSUME NEW r \in Requests, NEW u \in Users, NEW n \in Names, UpdateUser(r, u, n)
       PROVE  TInv'
  BY <1>12, <1>26 DEF UpdateUser, Event
<1>27. CASE \E d \in Durables : Handler(d)
  BY <1>17, <1>18, <1>19, <1>20, <1>27 DEF Handler
<1>28. CASE \E r \in Requests : Step(r)
  BY <1>9, <1>11, <1>14, <1>15, <1>28 DEF Step
<1> QED
  BY <1>1, <1>2, <1>3, <1>4, <1>5, <1>6, <1>7, <1>8, <1>13, <1>16, <1>21, <1>22, <1>23,
     <1>24, <1>25, <1>26, <1>27, <1>28 DEF Next, BootAuth

-----------------------------------------------------------------------------
(* Types and shapes hold in every reachable state.                         *)
THEOREM TypeInvariant == Spec => []TInv
<1> QED
  BY TInvInit, TInvStep, PTL DEF Spec

(* The type invariant the runs check.                                      *)
THEOREM TypesCorrect == Spec => []TypeOK
<1>1. TInv => TypeOK
  BY DEF TInv
<1> QED
  BY <1>1, TypeInvariant, PTL

-----------------------------------------------------------------------------
(* Deletion.                                                               *)

(* A new event keeps every published id generated if its own is.           *)
LEMMA PublishedIds ==
  ASSUME TypeOK, IdsIssued, NEW b \in Subjects, NEW e \in Event, e.id \in issued,
         stream' = [stream EXCEPT ![b] = Append(@, e)]
  PROVE  \A c \in Subjects : \A s \in DOMAIN stream'[c] : stream'[c][s].id \in issued
<1> SUFFICES ASSUME NEW c \in Subjects, NEW s \in DOMAIN stream'[c]
             PROVE  stream'[c][s].id \in issued
  OBVIOUS
<1>1. stream \in [Subjects -> Seq(Event)] /\ stream[b] \in Seq(Event)
  BY DEF TypeOK
<1>2. CASE c = b /\ s = Len(stream[b]) + 1
  BY <1>1, <1>2
<1>3. CASE ~ (c = b /\ s = Len(stream[b]) + 1)
  <2>1. s \in DOMAIN stream[c] /\ stream'[c][s] = stream[c][s]
    BY <1>1, <1>3
  <2> QED
    BY <2>1 DEF IdsIssued
<1> QED
  BY <1>2, <1>3

(* Ids are generated by an INSERT before anything names them.              *)
LEMMA IdsIssuedStep == TInv /\ IdsIssued /\ [Next]_vars => IdsIssued'
<1> SUFFICES ASSUME TInv, IdsIssued, [Next]_vars PROVE IdsIssued'
  OBVIOUS
<1>0. TypeOK /\ EventsWhole /\ DurablesFit
  BY DEF TInv
<1>1. CASE StartAuth
  BY <1>0, <1>1 DEF StartAuth, IdsIssued, TypeOK
<1>2. CASE StartAuthSeeding
  BY <1>0, <1>2 DEF StartAuthSeeding, IdsIssued, TypeOK
<1>3. CASE AnnounceAdmin
  <2>1. PICK u \in Users :
          /\ cred[u] # Absent
          /\ stream' = [stream EXCEPT !["created"] =
                 Append(@, [id |-> u, name |-> AdminName, role |-> cred[u].role])]
    BY <1>3 DEF AnnounceAdmin
  <2> DEFINE e == [id |-> u, name |-> AdminName, role |-> cred[u].role]
  <2>2. e \in Event /\ e.id \in issued /\ "created" \in Subjects
    BY <1>0, <2>1, AccountConstants DEF TypeOK, Row, Event, IdsIssued, Subjects
  <2>3. \A c \in Subjects : \A s \in DOMAIN stream'[c] : stream'[c][s].id \in issued
    BY <1>0, <2>1, <2>2, PublishedIds
  <2> QED
    BY <1>3, <2>3 DEF AnnounceAdmin, IdsIssued
<1>4. CASE ListenAuth \/ StartUser \/ SignIn \/ UNCHANGED vars
  BY <1>4 DEF ListenAuth, StartUser, SignIn, vars, IdsIssued
<1>5. ASSUME NEW v \in Services, Crash(v) PROVE IdsIssued'
  BY <1>5 DEF Crash, IdsIssued, Idle
<1>6. ASSUME NEW r \in Requests, NEW n \in Names, Register(r, n) PROVE IdsIssued'
  BY <1>0, <1>6 DEF Register, IdsIssued, TypeOK
<1>7. ASSUME NEW r \in Requests, InsertCredential(r) PROVE IdsIssued'
  <2>1. PICK u \in Users \ issued :
          /\ issued' = issued \union {u}
          /\ cred' = [cred EXCEPT ![u] = [name |-> req[r].event.name, role |-> "user"]]
          /\ req' = [req EXCEPT ![r] = [at |-> "publish", subject |-> "created",
                        event |-> [id |-> u, name |-> req[r].event.name, role |-> "user"]]]
    BY <1>7 DEF InsertCredential
  <2>2. UNCHANGED <<profile, stream>>
    BY <1>7 DEF InsertCredential
  <2> QED
    BY <1>0, <2>1, <2>2 DEF IdsIssued, TypeOK
<1>8. ASSUME NEW r \in Requests, InsertRefused(r) \/ PublishFails(r) PROVE IdsIssued'
  <2>1. req' = [req EXCEPT ![r] = Idle] /\ UNCHANGED <<cred, profile, issued, stream>>
    BY <1>8 DEF InsertRefused, PublishFails
  <2> QED
    BY <1>0, <2>1 DEF IdsIssued, TypeOK, Idle
<1>9. ASSUME NEW r \in Requests, NEW u \in Users, NEW e, e.id = u, Update(r, u, e)
      PROVE  IdsIssued'
  <2>1. u \in issued
    BY <1>9 DEF Update, IdsIssued
  <2>2. \A v \in Users : profile'[v] # Absent => v \in issued
    BY <1>0, <1>9, <2>1 DEF Update, IdsIssued, TypeOK
  <2>3. \A q \in Requests : req'[q].at \in {"delete", "publish"} => req'[q].event.id \in issued
    BY <1>0, <1>9, <2>1 DEF Update, IdsIssued, TypeOK
  <2> QED
    BY <1>9, <2>2, <2>3 DEF Update, IdsIssued
<1>10. ASSUME NEW r \in Requests, NEW u \in Users, FindForDelete(r, u) PROVE IdsIssued'
  <2>1. \A q \in Requests : req'[q].at \in {"delete", "publish"} => req'[q].event.id \in issued
    BY <1>0, <1>10 DEF FindForDelete, IdsIssued, TypeOK, Nothing
  <2> QED
    BY <1>10, <2>1 DEF FindForDelete, IdsIssued
<1>11. ASSUME NEW r \in Requests, DeleteProfile(r) PROVE IdsIssued'
  <2>1. req[r] \in Request /\ req[r].event.id \in issued
    BY <1>0, <1>11 DEF DeleteProfile, IdsIssued, TypeOK
  <2>2. \A q \in Requests : req'[q].at \in {"delete", "publish"} => req'[q].event.id \in issued
    BY <1>0, <1>11, <2>1 DEF DeleteProfile, IdsIssued, TypeOK, Request
  <2>3. \A v \in Users : profile'[v] # Absent => v \in issued
    BY <1>0, <1>11 DEF DeleteProfile, IdsIssued, TypeOK
  <2> QED
    BY <1>11, <2>2, <2>3 DEF DeleteProfile, IdsIssued
<1>12. ASSUME NEW r \in Requests, Publish(r) PROVE IdsIssued'
  <2> DEFINE b == req[r].subject
             e == req[r].event
  <2>1. b \in Subjects /\ e \in Event /\ e.id \in issued
    BY <1>0, <1>12 DEF Publish, TypeOK, Request, IdsIssued
  <2>2. \A c \in Subjects : \A s \in DOMAIN stream'[c] : stream'[c][s].id \in issued
    BY <1>0, <1>12, <2>1, PublishedIds DEF Publish
  <2> QED
    BY <1>0, <1>12, <2>2 DEF Publish, IdsIssued, TypeOK, Idle
<1>13. ASSUME NEW s, HandleUserCreated(s) PROVE IdsIssued'
  <2>1. s \in DOMAIN stream["created"] /\ "created" \in Subjects
    BY <1>13, DurableSteps, Statics DEF HandleUserCreated, Receives, Durables, Subjects
  <2>2. stream["created"][s].id \in issued
    BY <2>1 DEF IdsIssued
  <2> QED
    BY <1>0, <1>13, <2>2 DEF HandleUserCreated, IdsIssued, TypeOK
<1>14. ASSUME NEW s, HandleUserUpdated(s) PROVE IdsIssued'
  BY <1>0, <1>14 DEF HandleUserUpdated, IdsIssued, TypeOK
<1>15. ASSUME NEW s, HandleUserDeleted(s) PROVE IdsIssued'
  BY <1>0, <1>15 DEF HandleUserDeleted, IdsIssued, TypeOK
<1>16. ASSUME NEW d, NEW s, RefuseUserUpdated(s) \/ AckHandled(d) \/ AckLost(d) \/ NakUnhandled(d, s)
       PROVE  IdsIssued'
  BY <1>16 DEF RefuseUserUpdated, AckHandled, AckLost, NakUnhandled, IdsIssued
<1>17. ASSUME NEW r \in Requests, NEW u \in Users, NEW role \in Roles, UpdateUserRole(r, u, role)
       PROVE  IdsIssued'
  BY <1>9, <1>17 DEF UpdateUserRole
<1>18. ASSUME NEW r \in Requests, NEW u \in Users, NEW n \in Names, UpdateUser(r, u, n)
       PROVE  IdsIssued'
  BY <1>9, <1>18 DEF UpdateUser
<1>19. CASE \E d \in Durables : Handler(d)
  BY <1>13, <1>14, <1>15, <1>16, <1>19 DEF Handler
<1>20. CASE \E r \in Requests : Step(r)
  BY <1>7, <1>8, <1>11, <1>12, <1>20 DEF Step
<1> QED
  BY <1>1, <1>2, <1>3, <1>4, <1>5, <1>6, <1>8, <1>10, <1>16, <1>17, <1>18, <1>19, <1>20
  DEF Next, BootAuth

(* Only AnnounceAdmin and Publish add events.                              *)
LEMMA StreamGrows ==
  ASSUME [Next]_vars
  PROVE  AnnounceAdmin \/ (\E r \in Requests : Publish(r)) \/ UNCHANGED stream
BY DEF Next, BootAuth, StartAuth, StartAuthSeeding, ListenAuth, StartUser, SignIn, Crash,
   Register, Step, InsertCredential, InsertRefused, DeleteProfile, PublishFails,
   UpdateUserRole, UpdateUser, Update, FindForDelete, Handler, HandleUserCreated,
   HandleUserUpdated, RefuseUserUpdated, HandleUserDeleted, AckHandled, AckLost,
   NakUnhandled, vars

(* What a step may do to auth-service's durable for user.deleted: it goes  *)
(* on existing, and unless HandleUserDeleted received it no number becomes *)
(* applied.                                                                *)
LEMMA DeletedDurable ==
  ASSUME TInv, [Next]_vars, NEW n \in Nat
  PROVE  LET c == cons["auth-deleted"]  c2 == cons'["auth-deleted"] IN
         /\ Exists(c) => Exists(c2)
         /\ Exists(c) /\ Applied(c2, n) => Applied(c, n) \/ HandleUserDeleted(n)
<1> DEFINE d == "auth-deleted"
           c == cons[d]
           log == stream["deleted"]
<1>1. d \in Durables /\ SubjectOf[d] = "deleted" /\ ReaderOf[d] = "auth"
  BY Statics DEF Durables
<1>2. log \in Seq(Event) /\ c \in DurableOf(log)
  BY <1>1, DurableSteps
<1>3. cons \in [Durables -> Consumer]
  BY DEF TInv, TypeOK
<1> DEFINE P(c2) == /\ Exists(c) => Exists(c2)
                    /\ Exists(c) /\ Applied(c2, n) => Applied(c, n)
<1>4. /\ P(c) /\ P(Ack(c)) /\ P(Return(c)) /\ P(SubscribeNew(c, log))
      /\ \A s \in Deliverable(c, log) : P(Return(Receive(c, s)))
      /\ \A k \in Prefetch(c, log) : P(Drop(c, k))
  BY <1>2, DurablePersists, AppliedNumbers
<1>5. \A s \in Deliverable(c, log) :
        /\ Exists(c) => Exists(Receive(c, s))
        /\ Applied(Receive(c, s), n) => Applied(c, n) \/ n = s
  BY <1>2, DurablePersists, AppliedNumbers
<1> SUFFICES P(cons'[d]) \/ (\E s \in Deliverable(c, log) :
                               HandleUserDeleted(s) /\ cons'[d] = Receive(c, s))
  BY <1>5
<1>6. CASE UNCHANGED cons
  BY <1>4, <1>6
<1>7. CASE ListenAuth \/ StartUser
  BY <1>1, <1>3, <1>4, <1>7 DEF ListenAuth, StartUser
<1>8. ASSUME NEW v \in Services, Crash(v) PROVE P(cons'[d])
  <2>1. cons'[d] = c \/ \E k \in Prefetch(c, log) : cons'[d] = Drop(c, k)
    <3>1. PICK pulled \in [{e \in Durables : ReaderOf[e] = v} -> UNION {Pulled(e) : e \in Durables}] :
            /\ \A e \in DOMAIN pulled : pulled[e] \in Pulled(e)
            /\ cons' = [e \in Durables |-> IF ReaderOf[e] = v THEN Drop(cons[e], pulled[e])
                                                              ELSE cons[e]]
      BY <1>8 DEF Crash
    <3>2. CASE ReaderOf[d] = v
      <4>1. d \in DOMAIN pulled
        BY <1>1, <3>1, <3>2
      <4> QED
        BY <1>1, <3>1, <3>2, <4>1 DEF Pulled
    <3>3. CASE ReaderOf[d] # v
      BY <1>1, <3>1, <3>3
    <3> QED
      BY <3>2, <3>3
  <2> QED
    BY <1>4, <2>1
<1>9. ASSUME NEW e \in Durables, NEW s, NakUnhandled(e, s) PROVE P(cons'[d])
  BY <1>1, <1>3, <1>4, <1>9 DEF NakUnhandled
<1>10. ASSUME NEW e \in Durables, AckHandled(e) \/ AckLost(e) PROVE P(cons'[d])
  BY <1>1, <1>3, <1>4, <1>10 DEF AckHandled, AckLost
<1>11. ASSUME NEW s, HandleUserCreated(s) \/ HandleUserUpdated(s) \/ RefuseUserUpdated(s)
       PROVE  P(cons'[d])
  <2>1. CASE HandleUserCreated(s)
    <3>1. cons' = [cons EXCEPT !["user-created"] = Receive(cons["user-created"], s)]
      BY <2>1 DEF HandleUserCreated, Receives
    <3> QED
      BY <1>3, <1>4, <3>1
  <2>2. CASE HandleUserUpdated(s)
    <3>1. cons' = [cons EXCEPT !["auth-updated"] = Receive(cons["auth-updated"], s)]
      BY <2>2 DEF HandleUserUpdated, Receives
    <3> QED
      BY <1>3, <1>4, <3>1
  <2>3. CASE RefuseUserUpdated(s)
    <3>1. cons' = [cons EXCEPT !["auth-updated"] = Return(Receive(cons["auth-updated"], s))]
      BY <2>3 DEF RefuseUserUpdated
    <3> QED
      BY <1>3, <1>4, <3>1
  <2> QED
    BY <1>11, <2>1, <2>2, <2>3
<1>12. ASSUME NEW s, HandleUserDeleted(s)
       PROVE  s \in Deliverable(c, log) /\ cons'[d] = Receive(c, s)
  BY <1>1, <1>3, <1>12 DEF HandleUserDeleted, Receives
<1>13. CASE \E e \in Durables : Handler(e)
  BY <1>11, <1>12, <1>13 DEF Handler
<1>14. CASE \/ StartAuth \/ StartAuthSeeding \/ AnnounceAdmin \/ SignIn \/ UNCHANGED vars
            \/ \E r \in Requests :
                  \/ \E m \in Names : Register(r, m)
                  \/ Step(r)
                  \/ PublishFails(r)
                  \/ \E u \in Users :
                        \/ \E role \in Roles : UpdateUserRole(r, u, role)
                        \/ \E m \in Names : UpdateUser(r, u, m)
                        \/ FindForDelete(r, u)
  BY <1>6, <1>14 DEF StartAuth, StartAuthSeeding, AnnounceAdmin, SignIn, vars, Register,
     Step, InsertCredential, InsertRefused, DeleteProfile, Publish, PublishFails,
     UpdateUserRole, UpdateUser, Update, FindForDelete
<1> QED
  BY <1>7, <1>8, <1>9, <1>10, <1>13, <1>14 DEF Next, BootAuth

(* The hearing of deletions survives every step.                           *)
LEMMA DeletionsHeardStep == TInv /\ DeletionsHeard /\ [Next]_vars => DeletionsHeard'
<1> SUFFICES ASSUME TInv, DeletionsHeard, [Next]_vars PROVE DeletionsHeard'
  OBVIOUS
<1> DEFINE d == "auth-deleted"
<1>0. TypeOK /\ EventsWhole /\ DurablesFit
  BY DEF TInv
<1>1. d \in Durables /\ SubjectOf[d] = "deleted" /\ ReaderOf[d] = "auth"
  BY Statics DEF Durables
<1>2. Exists(cons[d]) => Exists(cons'[d])
  BY DeletedDurable
<1>3. CASE ListenAuth
  <2>1. Exists(cons'[d])
    BY <1>1, <1>3, DurableSteps, DurablePersists DEF ListenAuth
  <2> QED
    BY <1>3, <2>1 DEF ListenAuth, DeletionsHeard
<1>4. CASE StartAuth \/ StartAuthSeeding \/ StartUser \/ UNCHANGED vars
  BY <1>0, <1>2, <1>4
  DEF StartAuth, StartAuthSeeding, StartUser, vars, DeletionsHeard, TypeOK, Services
<1>5. CASE AnnounceAdmin
  <2>1. stream'["deleted"] = stream["deleted"] /\ phase'["auth"] # "listening"
    BY <1>0, <1>5 DEF AnnounceAdmin, TypeOK, Services, Subjects
  <2> QED
    BY <1>2, <1>5, <2>1 DEF AnnounceAdmin, DeletionsHeard
<1>6. CASE SignIn
  BY <1>6 DEF SignIn, DeletionsHeard
<1>7. ASSUME NEW v \in Services, Crash(v) PROVE DeletionsHeard'
  <2>1. phase'["auth"] = "listening" => phase["auth"] = "listening"
    BY <1>0, <1>7 DEF Crash, TypeOK, Services
  <2>2. ~ bearer => \A r \in Requests : req'[r].subject # "deleted"
    BY <1>7 DEF Crash, DeletionsHeard, Idle
  <2> QED
    BY <1>2, <1>7, <2>1, <2>2 DEF Crash, DeletionsHeard
<1>8. ASSUME NEW r \in Requests, NEW n \in Names,
             Register(r, n) \/ InsertCredential(r) \/ InsertRefused(r) \/ PublishFails(r)
      PROVE  DeletionsHeard'
  <2>1. UNCHANGED <<stream, cons, phase, bearer>>
    BY <1>8 DEF Register, InsertCredential, InsertRefused, PublishFails
  <2>2. req'[r].subject = "created" /\ \A q \in Requests : q # r => req'[q] = req[q]
    BY <1>0, <1>8 DEF Register, InsertCredential, InsertRefused, PublishFails, TypeOK, Idle
  <2> QED
    BY <2>1, <2>2 DEF DeletionsHeard
<1>9. ASSUME NEW r \in Requests, NEW u, NEW e, Update(r, u, e) \/ FindForDelete(r, u)
      PROVE  DeletionsHeard'
  BY <1>9 DEF Update, FindForDelete, Serving, DeletionsHeard
<1>10. ASSUME NEW r \in Requests, DeleteProfile(r) PROVE DeletionsHeard'
  <2>1. \A q \in Requests : req'[q].subject = req[q].subject
    BY <1>0, <1>10 DEF DeleteProfile, TypeOK, Request
  <2> QED
    BY <1>10, <2>1 DEF DeleteProfile, DeletionsHeard
<1>11. ASSUME NEW r \in Requests, Publish(r) PROVE DeletionsHeard'
  <2>1. ~ bearer => stream'["deleted"] = stream["deleted"]
    BY <1>0, <1>11 DEF Publish, DeletionsHeard, TypeOK, Subjects
  <2>2. ~ bearer => \A q \in Requests : req'[q].subject # "deleted"
    BY <1>0, <1>11 DEF Publish, DeletionsHeard, TypeOK, Idle
  <2> QED
    BY <1>11, <2>1, <2>2 DEF Publish, DeletionsHeard
<1>12. ASSUME NEW e, NEW s,
              AckHandled(e) \/ AckLost(e) \/ NakUnhandled(e, s) \/ HandleUserCreated(s)
                \/ HandleUserUpdated(s) \/ RefuseUserUpdated(s) \/ HandleUserDeleted(s)
       PROVE  DeletionsHeard'
  <2>1. UNCHANGED <<stream, phase, req, bearer>>
    BY <1>12 DEF AckHandled, AckLost, NakUnhandled, HandleUserCreated, HandleUserUpdated,
       RefuseUserUpdated, HandleUserDeleted
  <2> QED
    BY <1>2, <2>1 DEF DeletionsHeard
<1>13. CASE \E e \in Durables : Handler(e)
  BY <1>12, <1>13 DEF Handler
<1>14. ASSUME NEW r \in Requests, NEW u \in Users,
              \/ \E role \in Roles : UpdateUserRole(r, u, role)
              \/ \E n \in Names : UpdateUser(r, u, n)
              \/ FindForDelete(r, u)
       PROVE  DeletionsHeard'
  BY <1>9, <1>14 DEF UpdateUserRole, UpdateUser
<1>15. ASSUME NEW r \in Requests, Step(r) \/ PublishFails(r) PROVE DeletionsHeard'
  BY <1>8, <1>10, <1>11, <1>15, AccountConstants DEF Step
<1> QED
  BY <1>3, <1>4, <1>5, <1>6, <1>7, <1>8, <1>12, <1>13, <1>14, <1>15 DEF Next, BootAuth

(* A credential whose deletion has been applied does not come back.        *)
LEMMA DeletionFinalStep ==
  TInv /\ IInv /\ TInv' /\ [Next]_vars => CredentialDeletionFinal'
<1> SUFFICES ASSUME TInv, IInv, TInv', [Next]_vars,
                    NEW s \in DOMAIN stream'["deleted"],
                    Applied(cons'["auth-deleted"], s)
             PROVE  cred'[stream'["deleted"][s].id] = Absent
  BY DEF CredentialDeletionFinal
<1> DEFINE d == "auth-deleted"
           log == stream["deleted"]
<1>0. TypeOK /\ EventsWhole /\ DurablesFit /\ TypeOK'
  BY DEF TInv
<1>1. /\ d \in Durables /\ SubjectOf[d] = "deleted"
      /\ log \in Seq(Event) /\ stream'["deleted"] \in Seq(Event) /\ s \in Nat
      /\ cons[d] \in DurableOf(log)
  BY <1>0, Statics, DurableSteps DEF Durables, TypeOK, Subjects
\* A message applied is one that had been published before this step.
<1>2. Exists(cons[d])
  <2>1. CASE bearer
    BY <2>1 DEF IInv, DeletionsHeard
  <2>2. CASE ~ bearer
    <3>1. log = << >> /\ \A r \in Requests : req[r].subject # "deleted"
      BY <2>2 DEF IInv, DeletionsHeard
    <3>2. stream'["deleted"] = log
      <4>1. CASE AnnounceAdmin
        BY <1>0, <4>1 DEF AnnounceAdmin, TypeOK, Subjects
      <4>2. CASE \E r \in Requests : Publish(r)
        BY <1>0, <3>1, <4>2 DEF Publish, TypeOK, Subjects
      <4> QED
        BY <4>1, <4>2, StreamGrows
    <3> QED
      BY <3>1, <3>2
  <2> QED
    BY <2>1, <2>2
<1>3. Applied(cons[d], s) \/ HandleUserDeleted(s)
  BY <1>1, <1>2, DeletedDurable
<1>4. CASE HandleUserDeleted(s)
  <2>1. cred' = [cred EXCEPT ![log[s].id] = Absent] /\ UNCHANGED stream
    BY <1>4 DEF HandleUserDeleted
  <2>2. log[s].id \in Users
    BY <1>0, <1>1, <2>1 DEF EventsWhole, Whole, Subjects
  <2> QED
    BY <1>0, <2>1, <2>2 DEF TypeOK
<1>5. CASE Applied(cons[d], s)
  <2>1. s \in DOMAIN log
    BY <1>1, <1>5 DEF DurableOf, Consumer, Applied
  <2> DEFINE u == log[s].id
  <2>2. u \in Users /\ u \in issued /\ cred[u] = Absent
    BY <1>0, <1>5, <2>1 DEF EventsWhole, Whole, IInv, IdsIssued, CredentialDeletionFinal, Subjects
  <2> HIDE DEF u
  <2>3. stream'["deleted"][s].id = u
    <3>1. stream'["deleted"] = log \/ \E e \in Event : stream'["deleted"] = Append(log, e)
      <4>1. CASE AnnounceAdmin
        BY <1>0, <4>1 DEF AnnounceAdmin, TypeOK, Subjects
      <4>2. CASE \E r \in Requests : Publish(r)
        BY <1>0, <4>2 DEF Publish, TypeOK, Subjects, Request
      <4> QED
        BY <4>1, <4>2, StreamGrows
    <3> QED
      BY <1>1, <2>1, <3>1 DEF u
  <2>4. cred'[u] = Absent
    <3>1. CASE StartAuth
      BY <2>2, <3>1 DEF StartAuth
    <3>2. CASE StartAuthSeeding
      BY <1>0, <2>2, <3>2 DEF StartAuthSeeding, TypeOK
    <3>3. CASE \E r \in Requests : InsertCredential(r)
      BY <1>0, <2>2, <3>3 DEF InsertCredential, TypeOK
    <3>4. CASE \E n \in Numbers : HandleUserUpdated(n)
      BY <1>0, <2>2, <3>4 DEF HandleUserUpdated, TypeOK
    <3>5. CASE \E n \in Numbers : HandleUserDeleted(n)
      BY <1>0, <2>2, <3>5 DEF HandleUserDeleted, TypeOK
    <3>6. CASE UNCHANGED cred
      BY <2>2, <3>6
    <3> QED
      BY <3>1, <3>2, <3>3, <3>4, <3>5, <3>6 DEF Next, BootAuth, AnnounceAdmin, ListenAuth,
         StartUser, SignIn, Crash, Register, Step, InsertRefused, DeleteProfile, Publish,
         PublishFails, UpdateUserRole, UpdateUser, Update, FindForDelete, Handler,
         HandleUserCreated, RefuseUserUpdated, AckHandled, AckLost, NakUnhandled, vars
  <2> QED
    BY <2>3, <2>4
<1> QED
  BY <1>3, <1>4, <1>5

(* The initial states satisfy the invariant.                               *)
LEMMA IInvInit == Init => IInv
<1> SUFFICES ASSUME Init PROVE IInv
  OBVIOUS
<1>1. \A b \in Subjects : stream[b] = << >> /\ DOMAIN stream[b] = {}
  BY DEF Init
<1>2. IdsIssued
  BY <1>1 DEF Init, IdsIssued, Idle
<1>3. DeletionsHeard
  BY <1>1 DEF Init, DeletionsHeard, Idle, Services, Subjects
<1>4. CredentialDeletionFinal
  BY <1>1 DEF CredentialDeletionFinal, Subjects
<1> QED
  BY <1>2, <1>3, <1>4 DEF IInv

(* A deleted account can never be signed into again: CredentialDeletionFinal *)
(* in every reachable state, for every number of accounts, requests, events  *)
(* and faults.                                                               *)
THEOREM DeletionIsFinal == Spec => []CredentialDeletionFinal
<1>1. TInv /\ TInv' /\ IInv /\ [Next]_vars => IInv'
  BY IdsIssuedStep, DeletionsHeardStep, DeletionFinalStep DEF IInv
<1>2. IInv => CredentialDeletionFinal
  BY DEF IInv
<1> QED
  BY <1>1, <1>2, IInvInit, TypeInvariant, PTL DEF Spec

(* Every id named anywhere has been generated.                             *)
THEOREM IdsAreIssued == Spec => []IdsIssued
<1>1. Init => IdsIssued
  BY IInvInit DEF IInv
<1> QED
  BY <1>1, IdsIssuedStep, TypeInvariant, PTL DEF Spec

-----------------------------------------------------------------------------
(* Refinement.                                                             *)

(* An INSERT opens a fresh id.                                             *)
LEMMA InsertOpens ==
  ASSUME TInv, IdsIssued, NEW u \in Users \ issued, NEW row \in Row,
         cred' = [cred EXCEPT ![u] = row], issued' = issued \union {u}
  PROVE  Credentials!Open(u)
<1>1. cred \in [Users -> Row \union {Absent}] /\ row # Absent
  BY AbsentIsNoRow DEF TInv, TypeOK, Row
<1>2. cred[u] = Absent
  BY DEF IdsIssued
<1> QED
  BY <1>1, <1>2 DEF Credentials!Open, CredentialPhase

(* Every step of the services is a step of the lifecycle, or none.         *)
LEMMA LifecycleStep ==
  TInv /\ IdsIssued /\ TInv' /\ [Next]_vars => [Credentials!Next]_CredentialPhase
<1> SUFFICES ASSUME TInv, IdsIssued, TInv', [Next]_vars
             PROVE  Credentials!Next \/ CredentialPhase' = CredentialPhase
  OBVIOUS
<1>0. TypeOK /\ TypeOK' /\ Absent \notin Row
  BY AbsentIsNoRow DEF TInv, Row
<1>1. CASE StartAuth
  <2>1. \A u \in Users : cred'[u] # Absent <=> cred[u] # Absent
    <3> SUFFICES ASSUME NEW u \in Users, cred[u] # Absent, cred[u].name = AdminName
                 PROVE  [cred[u] EXCEPT !.role = "admin"] \in Row
      BY <1>0, <1>1 DEF StartAuth
    <3>1. cred[u] \in [name : Names, role : Roles] /\ "admin" \in Roles
      BY <1>0, AccountConstants DEF TypeOK, Row
    <3> QED
      BY <3>1 DEF Row
  <2> QED
    BY <1>1, <2>1 DEF StartAuth, CredentialPhase
<1>2. CASE StartAuthSeeding
  <2>1. [name |-> AdminName, role |-> "admin"] \in Row
    BY AccountConstants DEF Row
  <2> QED
    BY <1>2, <2>1, InsertOpens DEF StartAuthSeeding, Credentials!Next
<1>3. ASSUME NEW r \in Requests, InsertCredential(r)
      PROVE  Credentials!Next
  <2>1. [name |-> req[r].event.name, role |-> "user"] \in Row
    BY <1>3, AccountConstants DEF InsertCredential, TInv, EventsWhole, Row
  <2> QED
    BY <1>3, <2>1, InsertOpens DEF InsertCredential, Credentials!Next
<1>4. ASSUME NEW s, HandleUserUpdated(s)
      PROVE  CredentialPhase' = CredentialPhase
  <2>1. UNCHANGED issued
    BY <1>4 DEF HandleUserUpdated
  <2>2. \A u \in Users : cred'[u] # Absent <=> cred[u] # Absent
    <3> DEFINE e == stream["updated"][s]
    <3>1. CASE cred[e.id] = Absent
      BY <1>4, <3>1 DEF HandleUserUpdated
    <3>2. CASE cred[e.id] # Absent
      <4>1. cred' = [cred EXCEPT ![e.id] = Patched(cred[e.id], e)]
        BY <1>4, <3>2 DEF HandleUserUpdated
      <4>2. e.id \in Users => cred'[e.id] # Absent
        <5> SUFFICES ASSUME e.id \in Users PROVE cred'[e.id] \in Row
          BY <1>0
        <5>1. e \in Event
          <6>1. s \in DOMAIN stream["updated"]
            BY <1>4, DurableSteps, Statics DEF HandleUserUpdated, Receives, Durables
          <6> QED
            BY <1>0, <6>1 DEF TypeOK, Subjects
        <5> QED
          BY <1>0, <3>2, <4>1, <5>1, PatchedRow DEF TypeOK
      <4> QED
        BY <1>0, <3>2, <4>1, <4>2 DEF TypeOK
    <3> QED
      BY <3>1, <3>2
  <2> QED
    BY <2>1, <2>2 DEF CredentialPhase
<1>5. ASSUME NEW s, HandleUserDeleted(s)
      PROVE  Credentials!Next \/ CredentialPhase' = CredentialPhase
  <2> DEFINE u == stream["deleted"][s].id
  <2>1. cred' = [cred EXCEPT ![u] = Absent] /\ UNCHANGED issued
    BY <1>5 DEF HandleUserDeleted
  <2>2. CASE u \in Users /\ cred[u] # Absent
    <3>1. Credentials!Close(u)
      BY <1>0, <2>1, <2>2 DEF Credentials!Close, CredentialPhase, TypeOK, IdsIssued
    <3> QED
      BY <2>2, <3>1 DEF Credentials!Next
  <2>3. CASE ~ (u \in Users /\ cred[u] # Absent)
    BY <1>0, <2>1, <2>3 DEF CredentialPhase, TypeOK
  <2> QED
    BY <2>2, <2>3
<1>6. CASE UNCHANGED <<cred, issued>>
  BY <1>6 DEF CredentialPhase
<1> QED
  BY <1>1, <1>2, <1>3, <1>4, <1>5, <1>6 DEF Next, BootAuth, AnnounceAdmin, ListenAuth,
     StartUser, SignIn, Crash, Register, Step, InsertRefused, DeleteProfile, Publish,
     PublishFails, UpdateUserRole, UpdateUser, Update, FindForDelete, Handler,
     HandleUserCreated, RefuseUserUpdated, AckHandled, AckLost, NakUnhandled, vars

(* auth-service's table implements the lifecycle of account ids: whatever  *)
(* crashes, redeliveries and stale updates happen, an id is used for one   *)
(* account and never again.                                                *)
THEOREM CredentialsKeepLifecycle == Spec => CredentialLifecycle
<1>1. Init => Credentials!Init
  BY DEF Init, Credentials!Init, CredentialPhase
<1> QED
  BY <1>1, LifecycleStep, TypeInvariant, IdsAreIssued, PTL
  DEF Spec, CredentialLifecycle, Credentials!Spec

-----------------------------------------------------------------------------
(* Roles.                                                                  *)

\* What has been published stays.
EventsStay ==
  \A b \in Subjects : \A s \in DOMAIN stream[b] :
     s \in DOMAIN stream'[b] /\ stream'[b][s] = stream[b][s]

(* Subjects are appended to, and nothing else.                             *)
LEMMA EventsStayStep == TInv /\ [Next]_vars => EventsStay
<1> SUFFICES ASSUME TInv, [Next]_vars PROVE EventsStay
  OBVIOUS
<1>1. stream \in [Subjects -> Seq(Event)]
  BY DEF TInv, TypeOK
<1>2. ASSUME NEW b, NEW e, stream' = [stream EXCEPT ![b] = Append(stream[b], e)]
      PROVE  EventsStay
  BY <1>1, <1>2 DEF EventsStay
<1>3. CASE AnnounceAdmin
  BY <1>2, <1>3 DEF AnnounceAdmin
<1>4. CASE \E r \in Requests : Publish(r)
  BY <1>2, <1>4 DEF Publish
<1>5. CASE UNCHANGED stream
  BY <1>5 DEF EventsStay
<1> QED
  BY <1>3, <1>4, <1>5, StreamGrows

\* Where the row that id u has after a step comes from.
RowComesFrom(u) ==
  \/ cred[u] # Absent /\ cred'[u] = cred[u]
  \/ cred'[u].role = "user"
  \/ cred'[u].role = "admin" /\ cred'[u].name = AdminName
  \/ /\ cred[u] # Absent
     /\ \E s \in DOMAIN stream["updated"] :
           /\ stream["updated"][s].id = u
           /\ cred'[u] = Patched(cred[u], stream["updated"][s])

(* A row of credentials is kept, inserted, promoted at start, or patched   *)
(* with an event about its id.                                             *)
LEMMA CredentialStep ==
  TInv /\ [Next]_vars => \A u \in Users : cred'[u] # Absent => RowComesFrom(u)
<1> SUFFICES ASSUME TInv, [Next]_vars, NEW u \in Users, cred'[u] # Absent
             PROVE  RowComesFrom(u)
  OBVIOUS
<1>0. cred \in [Users -> Row \union {Absent}]
  BY DEF TInv, TypeOK
<1>1. CASE StartAuth
  <2>1. CASE cred[u] # Absent /\ cred[u].name = AdminName
    <3>1. cred'[u] = [cred[u] EXCEPT !.role = "admin"] /\ cred[u] \in [name : Names, role : Roles]
      BY <1>0, <1>1, <2>1 DEF StartAuth, Row
    <3> QED
      BY <2>1, <3>1 DEF RowComesFrom
  <2>2. CASE ~ (cred[u] # Absent /\ cred[u].name = AdminName)
    BY <1>1, <2>2 DEF StartAuth, RowComesFrom
  <2> QED
    BY <2>1, <2>2
<1>2. CASE StartAuthSeeding
  BY <1>0, <1>2 DEF StartAuthSeeding, RowComesFrom
<1>3. ASSUME NEW r \in Requests, InsertCredential(r) PROVE RowComesFrom(u)
  BY <1>0, <1>3 DEF InsertCredential, RowComesFrom
<1>4. ASSUME NEW s, HandleUserUpdated(s) PROVE RowComesFrom(u)
  <2> DEFINE e == stream["updated"][s]
  <2>1. s \in DOMAIN stream["updated"]
    BY <1>4, DurableSteps, Statics DEF HandleUserUpdated, Receives, Durables
  <2>2. CASE e.id = u /\ cred[u] # Absent
    <3>1. cred'[u] = Patched(cred[u], e)
      BY <1>0, <1>4, <2>2 DEF HandleUserUpdated
    <3> QED
      BY <2>1, <2>2, <3>1 DEF RowComesFrom
  <2>3. CASE ~ (e.id = u /\ cred[u] # Absent)
    <3>1. cred'[u] = cred[u]
      BY <1>0, <1>4, <2>3 DEF HandleUserUpdated
    <3> QED
      BY <3>1 DEF RowComesFrom
  <2> QED
    BY <2>2, <2>3
<1>5. ASSUME NEW s, HandleUserDeleted(s) PROVE RowComesFrom(u)
  BY <1>0, <1>5 DEF HandleUserDeleted, RowComesFrom
<1>6. CASE UNCHANGED cred
  BY <1>6 DEF RowComesFrom
<1> QED
  BY <1>1, <1>2, <1>3, <1>4, <1>5, <1>6 DEF Next, BootAuth, AnnounceAdmin, ListenAuth,
     StartUser, SignIn, Crash, Register, Step, InsertRefused, DeleteProfile, Publish,
     PublishFails, UpdateUserRole, UpdateUser, Update, FindForDelete, Handler,
     HandleUserCreated, RefuseUserUpdated, AckHandled, AckLost, NakUnhandled, vars

\* One id's part of RoleHasOrigin.
Origin(u) ==
  \/ cred[u].role = "user"
  \/ \E s \in DOMAIN stream["updated"] :
       stream["updated"][s].id = u /\ stream["updated"][s].role = cred[u].role
  \/ cred[u].role = "admin" /\ Renamed(u, AdminName)

(* A role that has an origin keeps it as long as the row stays what it is. *)
LEMMA OriginStays ==
  ASSUME EventsStay, NEW u \in Users, cred'[u] = cred[u], Origin(u)
  PROVE  Origin(u)'
BY DEF EventsStay, Origin, Renamed, Subjects

(* A patch gives a row the role of its event, or leaves the role and takes *)
(* the name away at most.                                                  *)
LEMMA OriginPatched ==
  ASSUME EventsStay, NEW u \in Users, Origin(u),
         NEW s \in DOMAIN stream["updated"], stream["updated"][s].id = u,
         cred'[u] = Patched(cred[u], stream["updated"][s])
  PROVE  Origin(u)'
<1> DEFINE e == stream["updated"][s]
<1>1. \A t \in DOMAIN stream["updated"] :
        t \in DOMAIN stream'["updated"] /\ stream'["updated"][t] = stream["updated"][t]
  BY DEF EventsStay, Subjects
<1>2. CASE e.role # Absent
  <2>1. cred'[u].role = e.role
    BY <1>2 DEF Patched
  <2> QED
    BY <1>1, <2>1 DEF Origin
<1>3. CASE e.role = Absent
  <2>1. cred'[u].role = cred[u].role
    BY <1>3 DEF Patched
  <2>2. cred'[u].name = IF e.name = Absent THEN cred[u].name ELSE e.name
    BY DEF Patched
  <2>3. Renamed(u, AdminName) => Renamed(u, AdminName)'
    BY <1>1, <2>2 DEF Renamed
  <2> QED
    BY <1>1, <2>1, <2>3 DEF Origin
<1> QED
  BY <1>2, <1>3

(* No credential's role comes from nowhere, in every reachable state: not  *)
(* from a partial event, a redelivery, a restart or another account.       *)
THEOREM RolesHaveOrigins == Spec => []RoleHasOrigin
<1>1. Init => RoleHasOrigin
  BY DEF Init, RoleHasOrigin
<1>2. TInv /\ RoleHasOrigin /\ [Next]_vars => RoleHasOrigin'
  <2> SUFFICES ASSUME TInv, RoleHasOrigin, [Next]_vars, NEW u \in Users, cred'[u] # Absent
               PROVE  Origin(u)'
    BY DEF RoleHasOrigin, Origin
  <2>1. EventsStay
    BY EventsStayStep
  <2>2. RowComesFrom(u)
    BY CredentialStep
  <2>3. cred[u] # Absent => Origin(u)
    BY DEF RoleHasOrigin, Origin
  <2>4. CASE cred[u] # Absent /\ cred'[u] = cred[u]
    BY <2>1, <2>3, <2>4, OriginStays
  <2>5. CASE cred'[u].role = "user"
    BY <2>5 DEF Origin
  <2>6. CASE cred'[u].role = "admin" /\ cred'[u].name = AdminName
    BY <2>6 DEF Origin, Renamed
  <2>7. ASSUME cred[u] # Absent, NEW s \in DOMAIN stream["updated"],
               stream["updated"][s].id = u, cred'[u] = Patched(cred[u], stream["updated"][s])
        PROVE  Origin(u)'
    BY <2>1, <2>3, <2>7, OriginPatched
  <2> QED
    BY <2>2, <2>4, <2>5, <2>6, <2>7 DEF RowComesFrom
<1> QED
  BY <1>1, <1>2, TypeInvariant, PTL DEF Spec

-----------------------------------------------------------------------------
(* Profiles.                                                               *)

\* What happens to durable d when nothing comes back ...
Gently(d) ==
  \/ cons'[d] = cons[d]
  \/ cons'[d] = SubscribeNew(cons[d], stream[SubjectOf[d]])
  \/ cons'[d] = Ack(cons[d])
  \/ \E s \in Deliverable(cons[d], stream[SubjectOf[d]]) : cons'[d] = Receive(cons[d], s)

\* ... and when something does.
Roughly(d) ==
  \/ cons'[d] = Return(cons[d])
  \/ \E s \in Deliverable(cons[d], stream[SubjectOf[d]]) : cons'[d] = Return(Receive(cons[d], s))
  \/ \E k \in Pulled(d) : cons'[d] = Drop(cons[d], k)

\* Something comes back by a fault, or because the UNIQUE constraint refuses
\* a user.updated.
DurablesMove ==
  \A d \in Durables : \/ Gently(d)
                      \/ Roughly(d) /\ (faults' = faults + 1 \/ d = "auth-updated")

(* A step that moves one durable.                                          *)
LEMMA OneMoves ==
  ASSUME TInv, NEW d \in Durables, NEW c, cons' = [cons EXCEPT ![d] = c],
         cons'[d] = c => \/ Gently(d)
                         \/ Roughly(d) /\ (faults' = faults + 1 \/ d = "auth-updated")
  PROVE  DurablesMove
<1>1. cons \in [Durables -> Consumer]
  BY DEF TInv, TypeOK
<1> SUFFICES ASSUME NEW x \in Durables, x # d PROVE Gently(x)
  BY <1>1 DEF DurablesMove
<1> QED
  BY <1>1 DEF Gently

(* What every step does to the durables.                                   *)
LEMMA DurablesMoveStep == TInv /\ [Next]_vars => DurablesMove
<1> SUFFICES ASSUME TInv, [Next]_vars PROVE DurablesMove
  OBVIOUS
<1>0. cons \in [Durables -> Consumer]
  BY DEF TInv, TypeOK
<1>1. CASE UNCHANGED cons
  BY <1>1 DEF DurablesMove, Gently
<1>2. CASE ListenAuth
  BY <1>2 DEF ListenAuth, DurablesMove, Gently
<1>3. CASE StartUser
  <2>1. "user-created" \in Durables
    BY DEF Durables
  <2>2. cons' = [cons EXCEPT !["user-created"] =
                   SubscribeNew(cons["user-created"], stream[SubjectOf["user-created"]])]
    BY <1>3, Statics DEF StartUser
  <2> QED
    BY <2>1, <2>2, OneMoves DEF Gently
<1>4. ASSUME NEW v \in Services, Crash(v) PROVE DurablesMove
  <2>1. PICK pulled \in [{d \in Durables : ReaderOf[d] = v} -> UNION {Pulled(d) : d \in Durables}] :
          /\ \A d \in DOMAIN pulled : pulled[d] \in Pulled(d)
          /\ cons' = [d \in Durables |-> IF ReaderOf[d] = v THEN Drop(cons[d], pulled[d])
                                                            ELSE cons[d]]
    BY <1>4 DEF Crash
  <2>2. faults' = faults + 1
    BY <1>4 DEF Crash
  <2> SUFFICES ASSUME NEW x \in Durables
               PROVE  Gently(x) \/ Roughly(x)
    BY <2>2 DEF DurablesMove
  <2>3. CASE ReaderOf[x] = v
    BY <2>1, <2>3 DEF Roughly
  <2>4. CASE ReaderOf[x] # v
    BY <2>1, <2>4 DEF Gently
  <2> QED
    BY <2>3, <2>4
<1>5. ASSUME NEW d \in Durables, NEW s, Receives(d, s) PROVE DurablesMove
  BY <1>5, OneMoves DEF Receives, Gently
<1>6. ASSUME NEW s, RefuseUserUpdated(s) PROVE DurablesMove
  <2> DEFINE d == "auth-updated"
  <2>1. d \in Durables /\ SubjectOf[d] = "updated"
    BY Statics DEF Durables
  <2>2. /\ s \in Deliverable(cons[d], stream["updated"])
        /\ cons' = [cons EXCEPT ![d] = Return(Receive(cons[d], s))]
    BY <1>6 DEF RefuseUserUpdated
  <2> QED
    BY <2>1, <2>2, OneMoves DEF Roughly
<1>7. ASSUME NEW d \in Durables, AckHandled(d) PROVE DurablesMove
  BY <1>7, OneMoves DEF AckHandled, Gently
<1>8. ASSUME NEW d \in Durables, AckLost(d) PROVE DurablesMove
  BY <1>8, OneMoves DEF AckLost, Roughly
<1>9. ASSUME NEW d \in Durables, NEW s, NakUnhandled(d, s) PROVE DurablesMove
  <2>1. /\ s \in Deliverable(cons[d], stream[SubjectOf[d]])
        /\ cons' = [cons EXCEPT ![d] = Return(Receive(cons[d], s))] /\ faults' = faults + 1
    BY <1>9 DEF NakUnhandled
  <2> QED
    BY <2>1, OneMoves DEF Roughly
<1>10. CASE \E d \in Durables : Handler(d)
  BY <1>5, <1>6, <1>10 DEF Handler, HandleUserCreated, HandleUserUpdated, HandleUserDeleted
<1>11. CASE \E r \in Requests :
               \/ \E n \in Names : Register(r, n)
               \/ Step(r)
               \/ PublishFails(r)
               \/ \E u \in Users :
                     \/ \E role \in Roles : UpdateUserRole(r, u, role)
                     \/ \E n \in Names : UpdateUser(r, u, n)
                     \/ FindForDelete(r, u)
  BY <1>1, <1>11 DEF Register, Step, InsertCredential, InsertRefused, DeleteProfile, Publish,
     PublishFails, UpdateUserRole, UpdateUser, Update, FindForDelete
<1>12. CASE StartAuth \/ StartAuthSeeding \/ AnnounceAdmin \/ SignIn \/ UNCHANGED vars
  BY <1>1, <1>12 DEF StartAuth, StartAuthSeeding, AnnounceAdmin, SignIn, vars
<1> QED
  BY <1>2, <1>3, <1>4, <1>7, <1>8, <1>9, <1>10, <1>11, <1>12 DEF Next, BootAuth

(* No step moves a durable backwards.                                      *)
LEMMA DurablesForward ==
  ASSUME TInv, [Next]_vars, NEW d \in Durables
  PROVE  cons[d].next \in Nat /\ cons[d].next <= cons'[d].next
<1>1. stream[SubjectOf[d]] \in Seq(Event) /\ cons[d] \in DurableOf(stream[SubjectOf[d]])
  BY DurableSteps
<1>2. Gently(d) \/ Roughly(d)
  BY DurablesMoveStep DEF DurablesMove
<1>3. cons[d].next \in Nat
  BY <1>1, DurableForward
<1>4. CASE Gently(d)
  BY <1>1, <1>3, <1>4, DurableForward DEF Gently
<1>5. CASE Roughly(d)
  BY <1>1, <1>3, <1>5, DurableForward DEF Roughly, Pulled
<1> QED
  BY <1>2, <1>3, <1>4, <1>5

\* A name belongs to one credential.
NamesUnique ==
  \A u, v \in Users :
     cred[u] # Absent /\ cred[v] # Absent /\ cred[u].name = cred[v].name => u = v

\* auth-service has no request before it listens.
AuthQuiet ==
  phase["auth"] # "listening" =>
     \A r \in Requests : req[r].subject = "created" => req[r].at = "idle"

\* The admin whose creation is about to be announced has not been announced.
AdminUntold ==
  phase["auth"] = "announce" =>
     \E u \in Users : /\ cred[u] # Absent /\ cred[u].name = AdminName
                      /\ \A s \in DOMAIN stream["created"] : stream["created"][s].id # u

\* The request is about to publish user.created.
Announcing(r) == req[r].at = "publish" /\ req[r].subject = "created"

\* No id is announced twice.
CreatedOnce ==
  /\ \A s, t \in DOMAIN stream["created"] :
        stream["created"][s].id = stream["created"][t].id => s = t
  /\ \A r \in Requests : Announcing(r) =>
        /\ \A s \in DOMAIN stream["created"] : stream["created"][s].id # req[r].event.id
        /\ \A q \in Requests : Announcing(q) /\ req[q].event.id = req[r].event.id => q = r

\* Id u has a profile, had one, or is about to lose it.
HasProfile(u) ==
  \/ profile[u] # Absent
  \/ u \in DeletedIds
  \/ \E r \in Requests : req[r].at = "delete" /\ req[r].event.id = u

\* A profile was made from an event that its durable has passed.
ProfilesTold ==
  \A u \in Users : HasProfile(u) =>
     \E s \in DOMAIN stream["created"] :
        stream["created"][s].id = u /\ s < cons["user-created"].next

(* Only these steps touch the credentials.                                 *)
LEMMA CredentialWriters ==
  ASSUME [Next]_vars
  PROVE  \/ StartAuth \/ StartAuthSeeding
         \/ \E r \in Requests : InsertCredential(r)
         \/ \E s \in Numbers : HandleUserUpdated(s) \/ HandleUserDeleted(s)
         \/ UNCHANGED cred
BY DEF Next, BootAuth, AnnounceAdmin, ListenAuth, StartUser, SignIn, Crash, Register, Step,
   InsertRefused, DeleteProfile, Publish, PublishFails, UpdateUserRole, UpdateUser, Update,
   FindForDelete, Handler, HandleUserCreated, RefuseUserUpdated, AckHandled, AckLost,
   NakUnhandled, vars

(* The UNIQUE name of credentials.                                         *)
LEMMA NamesUniqueStep == TInv /\ NamesUnique /\ [Next]_vars => NamesUnique'
<1> SUFFICES ASSUME TInv, NamesUnique, [Next]_vars PROVE NamesUnique'
  OBVIOUS
<1>0. cred \in [Users -> Row \union {Absent}] /\ Absent \notin Row
  BY AbsentIsNoRow DEF TInv, TypeOK, Row
\* A row replaced by one whose name is nobody else's.
<1>1. ASSUME NEW u \in Users, NEW row, cred' = [cred EXCEPT ![u] = row],
             \A v \in Users \ {u} : cred[v] # Absent => cred[v].name # row.name
      PROVE  NamesUnique'
  BY <1>0, <1>1 DEF NamesUnique
\* A row inserted under a name that is free.
<1>2. ASSUME NEW u \in Users, NEW n, NEW role, ~ Taken(cred, n),
             cred' = [cred EXCEPT ![u] = [name |-> n, role |-> role]]
      PROVE  NamesUnique'
  <2> DEFINE row == [name |-> n, role |-> role]
  <2>1. \A v \in Users : cred[v] # Absent => cred[v].name # row.name
    BY <1>2 DEF Taken
  <2> HIDE DEF row
  <2>2. cred' = [cred EXCEPT ![u] = row]
    BY <1>2 DEF row
  <2> QED
    BY <1>1, <2>1, <2>2
<1>3. CASE StartAuth
  <2>1. \A u \in Users : cred'[u] # Absent => cred[u] # Absent /\ cred'[u].name = cred[u].name
    <3> SUFFICES ASSUME NEW u \in Users, cred[u] # Absent
                 PROVE  [cred[u] EXCEPT !.role = "admin"].name = cred[u].name
      BY <1>3 DEF StartAuth
    <3>1. cred[u] \in [name : Names, role : Roles]
      BY <1>0 DEF Row
    <3> QED
      BY <3>1
  <2> QED
    BY <2>1 DEF NamesUnique
<1>4. CASE StartAuthSeeding
  BY <1>4, <1>2 DEF StartAuthSeeding
<1>5. ASSUME NEW r \in Requests, InsertCredential(r) PROVE NamesUnique'
  <2> DEFINE n == req[r].event.name
  <2>1. PICK u \in Users \ issued : cred' = [cred EXCEPT ![u] = [name |-> n, role |-> "user"]]
    BY <1>5 DEF InsertCredential
  <2>2. ~ Taken(cred, n)
    BY <1>5 DEF InsertCredential
  <2> HIDE DEF n
  <2> QED
    BY <1>2, <2>1, <2>2
<1>6. ASSUME NEW s, HandleUserUpdated(s) PROVE NamesUnique'
  <2> DEFINE e == stream["updated"][s]
  <2>1. CASE cred[e.id] = Absent
    BY <1>6, <2>1 DEF HandleUserUpdated, NamesUnique
  <2>2. CASE cred[e.id] # Absent
    <3>1. /\ cred' = [cred EXCEPT ![e.id] = Patched(cred[e.id], e)]
          /\ ~ TakenByOther(cred, e.name, e.id)
      BY <1>6, <2>2 DEF HandleUserUpdated
    <3>2. e.id \in Users
      <4>1. s \in DOMAIN stream["updated"]
        BY <1>6, DurableSteps, Statics DEF HandleUserUpdated, Receives, Durables
      <4> QED
        BY <4>1 DEF TInv, EventsWhole, Whole, Subjects
    <3>3. \A v \in Users \ {e.id} : cred[v] # Absent => cred[v].name # Patched(cred[e.id], e).name
      BY <2>2, <3>1, <3>2 DEF TakenByOther, Patched, NamesUnique
    <3> QED
      BY <1>1, <3>1, <3>2, <3>3
  <2> QED
    BY <2>1, <2>2
<1>7. ASSUME NEW s, HandleUserDeleted(s) PROVE NamesUnique'
  BY <1>0, <1>7 DEF HandleUserDeleted, NamesUnique
<1>8. CASE UNCHANGED cred
  BY <1>8 DEF NamesUnique
<1> QED
  BY <1>3, <1>4, <1>5, <1>6, <1>7, <1>8, CredentialWriters

(* auth-service takes no request before it listens, and drops them all     *)
(* when it dies.                                                           *)
LEMMA AuthQuietStep == TInv /\ AuthQuiet /\ [Next]_vars => AuthQuiet'
<1> SUFFICES ASSUME TInv, AuthQuiet, [Next]_vars, phase'["auth"] # "listening",
                    NEW q \in Requests, req'[q].subject = "created", req'[q].at # "idle"
             PROVE  FALSE
  BY DEF AuthQuiet
<1>0. /\ req \in [Requests -> Request] /\ phase \in [Services -> Phases] /\ EventsWhole
      /\ Idle.at = "idle"
  BY DEF TInv, TypeOK, Idle
<1>1. ASSUME NEW v \in Services, Crash(v) PROVE FALSE
  BY <1>0, <1>1 DEF Crash, PublisherOf, AuthQuiet, Services, Subjects, Request
<1>2. CASE /\ UNCHANGED req
           /\ phase'["auth"] # "listening" => phase["auth"] # "listening"
  BY <1>2 DEF AuthQuiet
<1>3. ASSUME NEW r \in Requests,
             \/ \E n \in Names : Register(r, n)
             \/ Step(r)
             \/ PublishFails(r)
             \/ \E u \in Users :
                   \/ \E role \in Roles : UpdateUserRole(r, u, role)
                   \/ \E n \in Names : UpdateUser(r, u, n)
                   \/ FindForDelete(r, u)
      PROVE  FALSE
  <2>1. UNCHANGED phase /\ \A p \in Requests \ {r} : req'[p] = req[p]
    BY <1>0, <1>3 DEF Register, Step, InsertCredential, InsertRefused, DeleteProfile, Publish,
       PublishFails, UpdateUserRole, UpdateUser, Update, FindForDelete
  <2>2. q = r
    BY <2>1 DEF AuthQuiet
  <2>3. CASE \E n \in Names : Register(r, n)
    BY <2>1, <2>3 DEF Register
  <2>4. CASE InsertCredential(r)
    BY <1>0, <2>1, <2>4 DEF InsertCredential, AuthQuiet, EventsWhole
  <2>5. CASE InsertRefused(r) \/ Publish(r) \/ PublishFails(r)
    BY <1>0, <2>2, <2>5 DEF InsertRefused, Publish, PublishFails
  <2>6. CASE DeleteProfile(r)
    BY <1>0, <2>1, <2>2, <2>6 DEF DeleteProfile, AuthQuiet, Request
  <2>7. CASE \E u \in Users : \/ \E role \in Roles : UpdateUserRole(r, u, role)
                              \/ \E n \in Names : UpdateUser(r, u, n)
                              \/ FindForDelete(r, u)
    <3>1. \E e : \/ req' = [req EXCEPT ![r] = [at |-> "publish", subject |-> "updated", event |-> e]]
                 \/ req' = [req EXCEPT ![r] = [at |-> "delete", subject |-> "deleted", event |-> e]]
      BY <2>7 DEF UpdateUserRole, UpdateUser, Update, FindForDelete
    <3> QED
      BY <1>0, <2>2, <3>1
  <2> QED
    BY <1>3, <2>3, <2>4, <2>5, <2>6, <2>7 DEF Step
<1>4. CASE BootAuth \/ StartUser \/ SignIn
  BY <1>0, <1>2, <1>4 DEF BootAuth, StartAuth, StartAuthSeeding, AnnounceAdmin, ListenAuth,
     StartUser, SignIn, Services
<1>5. CASE \E d \in Durables : \/ Handler(d) \/ AckHandled(d) \/ AckLost(d)
                               \/ \E s \in Numbers : NakUnhandled(d, s)
  BY <1>2, <1>5 DEF Handler, HandleUserCreated, HandleUserUpdated, RefuseUserUpdated,
     HandleUserDeleted, AckHandled, AckLost, NakUnhandled
<1>6. CASE UNCHANGED vars
  BY <1>2, <1>6 DEF vars
<1> QED
  BY <1>1, <1>3, <1>4, <1>5, <1>6 DEF Next

(* Only these steps publish user.created.                                  *)
LEMMA CreatedGrows ==
  ASSUME TInv, [Next]_vars
  PROVE  \/ stream'["created"] = stream["created"]
         \/ AnnounceAdmin
         \/ \E r \in Requests : Publish(r) /\ Announcing(r)
<1>1. stream \in [Subjects -> Seq(Event)] /\ req \in [Requests -> Request]
  BY DEF TInv, TypeOK
<1>2. ASSUME NEW r \in Requests, Publish(r), ~ Announcing(r)
      PROVE  stream'["created"] = stream["created"]
  BY <1>1, <1>2 DEF Publish, Announcing, Subjects
<1> QED
  BY <1>2, StreamGrows

(* Until the seeded admin is announced, nothing happens to it.             *)
LEMMA AdminUntoldStep ==
  TInv /\ IdsIssued /\ AuthQuiet /\ AdminUntold /\ [Next]_vars => AdminUntold'
<1> SUFFICES ASSUME TInv, IdsIssued, AuthQuiet, AdminUntold, [Next]_vars,
                    phase'["auth"] = "announce"
             PROVE  \E u \in Users :
                       /\ cred'[u] # Absent /\ cred'[u].name = AdminName
                       /\ \A s \in DOMAIN stream'["created"] : stream'["created"][s].id # u
  BY DEF AdminUntold
<1>0. /\ cred \in [Users -> Row \union {Absent}] /\ Absent \notin Row
      /\ phase \in [Services -> Phases] /\ "auth" \in Services
  BY AbsentIsNoRow DEF TInv, TypeOK, Row, Services
<1>1. CASE StartAuthSeeding
  <2>1. PICK u \in Users \ issued : cred' = [cred EXCEPT ![u] = [name |-> AdminName, role |-> "admin"]]
    BY <1>1 DEF StartAuthSeeding
  <2>2. [name |-> AdminName, role |-> "admin"] \in Row
    BY AccountConstants DEF Row
  <2>3. cred'[u] # Absent /\ cred'[u].name = AdminName
    BY <1>0, <2>1, <2>2
  <2>4. UNCHANGED stream
    BY <1>1 DEF StartAuthSeeding
  <2> QED
    BY <2>3, <2>4 DEF IdsIssued, Subjects
<1>2. CASE phase["auth"] = "announce" /\ ~ AnnounceAdmin
  <2>1. \A r \in Requests : req[r].subject = "created" => req[r].at = "idle"
    BY <1>2 DEF AuthQuiet
  <2>2. stream'["created"] = stream["created"]
    BY <1>2, <2>1, CreatedGrows DEF Announcing
  <2>3. UNCHANGED cred
    <3>1. ~ StartAuth /\ ~ StartAuthSeeding
      BY <1>2 DEF StartAuth, StartAuthSeeding
    <3>2. \A r \in Requests : ~ InsertCredential(r)
      BY <2>1 DEF InsertCredential, TInv, EventsWhole
    <3>3. \A s : ~ HandleUserUpdated(s) /\ ~ HandleUserDeleted(s)
      BY <1>2, Statics DEF HandleUserUpdated, HandleUserDeleted, Receives
    <3> QED
      BY <3>1, <3>2, <3>3, CredentialWriters
  <2> QED
    BY <1>2, <2>2, <2>3 DEF AdminUntold
<1>3. StartAuthSeeding \/ phase["auth"] = "announce"
  BY <1>0 DEF Next, BootAuth, StartAuth, AnnounceAdmin, ListenAuth, StartUser, SignIn, Crash,
     Register, Step, InsertCredential, InsertRefused, DeleteProfile, Publish, PublishFails,
     UpdateUserRole, UpdateUser, Update, FindForDelete, Handler, HandleUserCreated,
     HandleUserUpdated, RefuseUserUpdated, HandleUserDeleted, AckHandled, AckLost,
     NakUnhandled, vars
<1>4. ~ AnnounceAdmin
  BY <1>0 DEF AnnounceAdmin
<1> QED
  BY <1>1, <1>2, <1>3, <1>4

(* A step ends requests or leaves them alone, or it is the step of one.    *)
LEMMA RequestSteps ==
  ASSUME TInv, [Next]_vars
  PROVE  \/ \A r \in Requests : req'[r] \in {req[r], Idle}
         \/ \E r \in Requests :
               /\ \A q \in Requests \ {r} : req'[q] = req[q]
               /\ \/ \E n \in Names : Register(r, n)
                  \/ InsertCredential(r)
                  \/ DeleteProfile(r)
                  \/ \E u \in Users : \E e \in Event : e.id = u /\ Update(r, u, e)
                  \/ \E u \in Users : FindForDelete(r, u)
<1> DEFINE Ends == \A r \in Requests : req'[r] \in {req[r], Idle}
           Acts(r) == \/ \E n \in Names : Register(r, n)
                      \/ InsertCredential(r)
                      \/ DeleteProfile(r)
                      \/ \E u \in Users : \E e \in Event : e.id = u /\ Update(r, u, e)
                      \/ \E u \in Users : FindForDelete(r, u)
<1>0. req \in [Requests -> Request]
  BY DEF TInv, TypeOK
<1>1. CASE UNCHANGED req
  BY <1>1
<1>2. ASSUME NEW v \in Services, Crash(v) PROVE Ends
  BY <1>2 DEF Crash
<1>3. ASSUME NEW r \in Requests, InsertRefused(r) \/ Publish(r) \/ PublishFails(r) PROVE Ends
  <2>1. req' = [req EXCEPT ![r] = Idle]
    BY <1>3 DEF InsertRefused, Publish, PublishFails
  <2> QED
    BY <1>0, <2>1
<1>4. ASSUME NEW r \in Requests, Acts(r) PROVE \A q \in Requests \ {r} : req'[q] = req[q]
  <2>1. \E x : req' = [req EXCEPT ![r] = x]
    BY <1>4 DEF Register, InsertCredential, DeleteProfile, Update, FindForDelete
  <2> QED
    BY <1>0, <2>1
<1>5. ASSUME NEW r \in Requests, NEW u \in Users,
             \/ \E role \in Roles : UpdateUserRole(r, u, role)
             \/ \E n \in Names : UpdateUser(r, u, n)
      PROVE  \E e \in Event : e.id = u /\ Update(r, u, e)
  <2>1. ASSUME NEW role \in Roles, UpdateUserRole(r, u, role)
        PROVE  \E e \in Event : e.id = u /\ Update(r, u, e)
    BY <2>1 DEF UpdateUserRole, Event
  <2>2. ASSUME NEW n \in Names, UpdateUser(r, u, n)
        PROVE  \E e \in Event : e.id = u /\ Update(r, u, e)
    BY <2>2 DEF UpdateUser, Event
  <2> QED
    BY <1>5, <2>1, <2>2
<1>6. CASE \/ BootAuth \/ StartUser \/ SignIn \/ UNCHANGED vars
           \/ \E d \in Durables : \/ Handler(d) \/ AckHandled(d) \/ AckLost(d)
                                  \/ \E s \in Numbers : NakUnhandled(d, s)
  BY <1>1, <1>6 DEF BootAuth, StartAuth, StartAuthSeeding, AnnounceAdmin, ListenAuth, StartUser,
     SignIn, Handler, HandleUserCreated, HandleUserUpdated, RefuseUserUpdated,
     HandleUserDeleted, AckHandled, AckLost, NakUnhandled, vars
<1>7. CASE \E r \in Requests :
              \/ \E n \in Names : Register(r, n)
              \/ Step(r)
              \/ PublishFails(r)
              \/ \E u \in Users :
                    \/ \E role \in Roles : UpdateUserRole(r, u, role)
                    \/ \E n \in Names : UpdateUser(r, u, n)
                    \/ FindForDelete(r, u)
  <2>1. Ends \/ \E r \in Requests : Acts(r)
    BY <1>3, <1>5, <1>7 DEF Step
  <2> HIDE DEF Ends, Acts
  <2> QED
    BY <1>4, <2>1 DEF Ends, Acts
<1> QED
  BY <1>2, <1>6, <1>7 DEF Next

(* What a request is about to publish is what it was about to publish, or  *)
(* this step's INSERT, DELETE or UPDATE has decided it.                    *)
LEMMA PublishingStep ==
  ASSUME TInv, [Next]_vars, NEW r \in Requests, req'[r].at = "publish"
  PROVE  \/ req'[r] = req[r]
         \/ /\ \A q \in Requests \ {r} : req'[q] = req[q]
            /\ \/ /\ InsertCredential(r) /\ req'[r].subject = "created"
                  /\ req'[r].event.id \notin issued
               \/ /\ DeleteProfile(r) /\ req'[r].subject = "deleted"
                  /\ req'[r].event = req[r].event
               \/ \E u \in Users : \E e \in Event :
                     /\ e.id = u /\ Update(r, u, e)
                     /\ req'[r].subject = "updated" /\ req'[r].event = e
<1>0. /\ req \in [Requests -> Request] /\ EventsWhole /\ Idle.at = "idle"
  BY DEF TInv, TypeOK, Idle
<1>1. ASSUME NEW p \in Requests, \A q \in Requests \ {p} : req'[q] = req[q], p # r
      PROVE  req'[r] = req[r]
  BY <1>1
<1>2. ~ \E n \in Names : Register(r, n)
  <2> SUFFICES ASSUME NEW e,
                      req' = [req EXCEPT ![r] = [at |-> "insert", subject |-> "created", event |-> e]]
               PROVE  FALSE
    BY DEF Register
  <2> QED
    BY <1>0
<1>3. ~ \E u \in Users : FindForDelete(r, u)
  <2> SUFFICES ASSUME NEW e,
                      req' = [req EXCEPT ![r] = [at |-> "delete", subject |-> "deleted", event |-> e]]
               PROVE  FALSE
    BY DEF FindForDelete
  <2> QED
    BY <1>0
<1>4. ASSUME InsertCredential(r)
      PROVE  req'[r].subject = "created" /\ req'[r].event.id \notin issued
  <2>1. PICK u \in Users \ issued :
          req' = [req EXCEPT ![r] = [at |-> "publish", subject |-> "created",
                        event |-> [id |-> u, name |-> req[r].event.name, role |-> "user"]]]
    BY <1>4 DEF InsertCredential
  <2> QED
    BY <1>0, <2>1
<1>5. ASSUME DeleteProfile(r)
      PROVE  req'[r].subject = "deleted" /\ req'[r].event = req[r].event
  <2>1. req[r].subject = "deleted" /\ req[r] \in Request
    BY <1>0, <1>5 DEF DeleteProfile, EventsWhole
  <2>2. req'[r] = [req[r] EXCEPT !.at = "publish"]
    BY <1>0, <1>5 DEF DeleteProfile
  <2> QED
    BY <2>1, <2>2 DEF Request
<1>6. ASSUME NEW u \in Users, NEW e \in Event, Update(r, u, e)
      PROVE  req'[r].subject = "updated" /\ req'[r].event = e
  BY <1>0, <1>6 DEF Update
<1>7. CASE \A q \in Requests : req'[q] \in {req[q], Idle}
  BY <1>0, <1>7
<1>8. ASSUME NEW p \in Requests, \A q \in Requests \ {p} : req'[q] = req[q],
             \/ \E n \in Names : Register(p, n)
             \/ InsertCredential(p)
             \/ DeleteProfile(p)
             \/ \E u \in Users : \E e \in Event : e.id = u /\ Update(p, u, e)
             \/ \E u \in Users : FindForDelete(p, u),
             p = r
      PROVE  \/ InsertCredential(r) \/ DeleteProfile(r)
             \/ \E u \in Users : \E e \in Event : e.id = u /\ Update(r, u, e)
  BY <1>2, <1>3, <1>8
<1>9. CASE req'[r] # req[r]
  <2>1. \A q \in Requests \ {r} : req'[q] = req[q]
    BY <1>1, <1>7, <1>9, RequestSteps
  <2>2. \/ InsertCredential(r) \/ DeleteProfile(r)
        \/ \E u \in Users : \E e \in Event : e.id = u /\ Update(r, u, e)
    BY <1>1, <1>7, <1>8, <1>9, RequestSteps
  <2> QED
    BY <1>4, <1>5, <1>6, <2>1, <2>2
<1> QED
  BY <1>9

(* Only an INSERT lets a request announce an id, a fresh one.              *)
LEMMA AnnouncingStep ==
  ASSUME TInv, [Next]_vars, NEW r \in Requests, Announcing(r)'
  PROVE  \/ req'[r] = req[r]
         \/ /\ InsertCredential(r)
            /\ req'[r].event.id \notin issued
            /\ \A q \in Requests \ {r} : req'[q] = req[q]
BY PublishingStep DEF Announcing

(* An id that user.created does not name yet may be named by it once.      *)
LEMMA OnceMore ==
  ASSUME NEW log \in Seq(Event), NEW e \in Event,
         \A s, t \in DOMAIN log : log[s].id = log[t].id => s = t,
         \A s \in DOMAIN log : log[s].id # e.id
  PROVE  \A s, t \in DOMAIN Append(log, e) : Append(log, e)[s].id = Append(log, e)[t].id => s = t
<1>1. /\ DOMAIN Append(log, e) = DOMAIN log \union {Len(log) + 1}
      /\ \A s \in DOMAIN log : Append(log, e)[s] = log[s]
      /\ Append(log, e)[Len(log) + 1] = e
  OBVIOUS
<1> QED
  BY <1>1

(* No id is announced twice, although a restart comes between the seeding  *)
(* of the admin and its announcement.                                      *)
LEMMA CreatedOnceStep ==
  /\ TInv /\ IdsIssued /\ NamesUnique /\ AuthQuiet /\ AdminUntold /\ CreatedOnce
  /\ [Next]_vars
  => CreatedOnce'
<1> SUFFICES ASSUME TInv, IdsIssued, NamesUnique, AuthQuiet, AdminUntold, CreatedOnce, [Next]_vars
             PROVE  CreatedOnce'
  OBVIOUS
<1> DEFINE log == stream["created"]
<1>0. /\ log \in Seq(Event) /\ stream \in [Subjects -> Seq(Event)] /\ "created" \in Subjects
      /\ cred \in [Users -> Row \union {Absent}] /\ req \in [Requests -> Request]
  BY DEF TInv, TypeOK, Subjects
<1>1. /\ \A s, t \in DOMAIN log : log[s].id = log[t].id => s = t
      /\ \A s \in DOMAIN log : log[s].id \in issued
  BY <1>0 DEF CreatedOnce, IdsIssued
<1>2. ASSUME NEW r \in Requests, Announcing(r)
      PROVE  /\ req[r].event.id \in issued
             /\ \A s \in DOMAIN log : log[s].id # req[r].event.id
             /\ \A q \in Requests : Announcing(q) /\ req[q].event.id = req[r].event.id => q = r
  BY <1>2 DEF CreatedOnce, IdsIssued, Announcing
<1>3. ASSUME AnnounceAdmin
      PROVE  \E e \in Event : /\ stream'["created"] = Append(log, e)
                              /\ \A s \in DOMAIN log : log[s].id # e.id
  <2>1. PICK u \in Users :
          /\ cred[u] # Absent /\ cred[u].name = AdminName
          /\ stream' = [stream EXCEPT !["created"] =
                 Append(@, [id |-> u, name |-> AdminName, role |-> cred[u].role])]
    BY <1>3 DEF AnnounceAdmin
  <2> DEFINE e == [id |-> u, name |-> AdminName, role |-> cred[u].role]
  <2>2. e \in Event /\ e.id = u
    BY <1>0, <2>1, AccountConstants DEF Row, Event
  <2>3. stream'["created"] = Append(log, e)
    BY <1>0, <2>1
  <2>4. \A s \in DOMAIN log : log[s].id # u
    BY <1>3, <2>1 DEF AnnounceAdmin, AdminUntold, NamesUnique
  <2> QED
    BY <2>2, <2>3, <2>4
<1>4. ASSUME NEW r \in Requests, Publish(r), Announcing(r)
      PROVE  /\ req[r].event \in Event /\ stream'["created"] = Append(log, req[r].event)
             /\ \A s \in DOMAIN log : log[s].id # req[r].event.id
             /\ ~ Announcing(r)'
  BY <1>0, <1>2, <1>4 DEF Publish, Announcing, Request, Idle
<1>5. \A s, t \in DOMAIN stream'["created"] :
        stream'["created"][s].id = stream'["created"][t].id => s = t
  <2>1. CASE stream'["created"] = log
    BY <1>1, <2>1
  <2>2. ASSUME NEW e \in Event, stream'["created"] = Append(log, e),
               \A s \in DOMAIN log : log[s].id # e.id
        PROVE  \A s, t \in DOMAIN stream'["created"] :
                  stream'["created"][s].id = stream'["created"][t].id => s = t
    BY <1>0, <1>1, <2>2, OnceMore
  <2>3. \/ stream'["created"] = log
        \/ \E e \in Event : /\ stream'["created"] = Append(log, e)
                            /\ \A s \in DOMAIN log : log[s].id # e.id
    BY <1>3, <1>4, CreatedGrows
  <2> QED
    BY <2>1, <2>2, <2>3
<1>6. ASSUME NEW r \in Requests, Announcing(r), req'[r] = req[r]
      PROVE  \A s \in DOMAIN stream'["created"] : stream'["created"][s].id # req[r].event.id
  <2>1. CASE stream'["created"] = log
    BY <1>2, <1>6, <2>1
  <2>2. ~ AnnounceAdmin
    BY <1>6 DEF AnnounceAdmin, AuthQuiet, Announcing
  <2>3. ASSUME NEW p \in Requests, Publish(p), Announcing(p)
        PROVE  \A s \in DOMAIN stream'["created"] : stream'["created"][s].id # req[r].event.id
    <3>1. p # r
      BY <1>4, <1>6, <2>3 DEF Announcing
    <3>2. req[p].event.id # req[r].event.id
      BY <1>2, <1>6, <2>3, <3>1
    <3>3. /\ \A s \in DOMAIN log : log[s].id # req[r].event.id
          /\ stream'["created"] = Append(log, req[p].event) /\ req[p].event \in Event
      BY <1>2, <1>4, <1>6, <2>3
    <3> QED
      BY <1>0, <3>2, <3>3
  <2> QED
    BY <2>1, <2>2, <2>3, CreatedGrows
<1>7. ASSUME NEW r \in Requests, Announcing(r)'
      PROVE  /\ \A s \in DOMAIN stream'["created"] : stream'["created"][s].id # req'[r].event.id
             /\ \A q \in Requests : Announcing(q)' /\ req'[q].event.id = req'[r].event.id => q = r
  <2>1. CASE req'[r] = req[r]
    <3>1. Announcing(r)
      BY <1>7, <2>1 DEF Announcing
    <3>2. ASSUME NEW q \in Requests, Announcing(q)', req'[q].event.id = req'[r].event.id
          PROVE  q = r
      <4>1. CASE req'[q] = req[q]
        BY <1>2, <2>1, <3>1, <3>2, <4>1 DEF Announcing
      <4>2. CASE req'[q].event.id \notin issued
        BY <1>2, <2>1, <3>1, <3>2, <4>2
      <4> QED
        BY <3>2, <4>1, <4>2, AnnouncingStep
    <3> QED
      BY <1>6, <2>1, <3>1, <3>2
  <2>2. CASE /\ InsertCredential(r)
             /\ req'[r].event.id \notin issued
             /\ \A q \in Requests \ {r} : req'[q] = req[q]
    <3>1. stream'["created"] = log
      BY <2>2 DEF InsertCredential
    <3>2. ASSUME NEW q \in Requests, q # r, Announcing(q)' PROVE req'[q].event.id \in issued
      BY <1>2, <2>2, <3>2 DEF Announcing
    <3> QED
      BY <1>1, <2>2, <3>1, <3>2
  <2> QED
    BY <1>7, <2>1, <2>2, AnnouncingStep
<1> QED
  BY <1>5, <1>7 DEF CreatedOnce

(* A name belongs to one credential, whatever registrations, renamings and *)
(* restarts run into each other; and user.created names no id twice.       *)
THEOREM NamesAreUnique == Spec => [](NamesUnique /\ CreatedOnce)
<1>1. Init => NamesUnique /\ AuthQuiet /\ AdminUntold /\ CreatedOnce
  <2> SUFFICES ASSUME Init PROVE NamesUnique /\ AuthQuiet /\ AdminUntold /\ CreatedOnce
    OBVIOUS
  <2>1. stream["created"] = << >> /\ \A r \in Requests : ~ Announcing(r)
    BY DEF Init, Idle, Subjects, Announcing
  <2> QED
    BY <2>1 DEF Init, NamesUnique, AuthQuiet, AdminUntold, CreatedOnce, Idle, Services
<1>2. /\ TInv /\ IdsIssued /\ NamesUnique /\ AuthQuiet /\ AdminUntold /\ CreatedOnce
      /\ [Next]_vars
      => (NamesUnique /\ AuthQuiet /\ AdminUntold /\ CreatedOnce)'
  BY NamesUniqueStep, AuthQuietStep, AdminUntoldStep, CreatedOnceStep
<1> QED
  BY <1>1, <1>2, TypeInvariant, IdsAreIssued, PTL DEF Spec

(* Only these steps touch the profiles.                                    *)
LEMMA ProfileWriters ==
  ASSUME TInv, [Next]_vars
  PROVE  \/ \E r \in Requests, u \in Users, e \in Event : e.id = u /\ Update(r, u, e)
         \/ \E r \in Requests : DeleteProfile(r)
         \/ \E s \in Numbers : HandleUserCreated(s)
         \/ UNCHANGED profile
<1>1. ASSUME NEW r \in Requests, NEW u \in Users,
             \/ \E role \in Roles : UpdateUserRole(r, u, role)
             \/ \E n \in Names : UpdateUser(r, u, n)
      PROVE  \E e \in Event : e.id = u /\ Update(r, u, e)
  <2>1. ASSUME NEW role \in Roles, UpdateUserRole(r, u, role) PROVE \E e \in Event : e.id = u /\ Update(r, u, e)
    BY <2>1 DEF UpdateUserRole, Event
  <2>2. ASSUME NEW n \in Names, UpdateUser(r, u, n) PROVE \E e \in Event : e.id = u /\ Update(r, u, e)
    BY <2>2 DEF UpdateUser, Event
  <2> QED
    BY <1>1, <2>1, <2>2
<1> QED
  BY <1>1 DEF Next, BootAuth, StartAuth, StartAuthSeeding, AnnounceAdmin, ListenAuth, StartUser,
     SignIn, Crash, Register, Step, InsertCredential, InsertRefused, Publish, PublishFails,
     FindForDelete, Handler, HandleUserUpdated, RefuseUserUpdated, HandleUserDeleted,
     AckHandled, AckLost, NakUnhandled, vars

(* A message of user.created that is handled: it is one that waits to come *)
(* again or the durable's next, which then is behind it.                   *)
LEMMA CreatedHandled ==
  ASSUME TInv, NEW s, HandleUserCreated(s)
  PROVE  /\ s \in DOMAIN stream["created"] /\ UNCHANGED stream
         /\ s \in cons["user-created"].again \/ s = cons["user-created"].next
         /\ cons'["user-created"].open = s
         /\ s < cons'["user-created"].next
         /\ \E u \in Users : stream["created"][s].id = u
         /\ UNCHANGED <<req, faults>>
<1> DEFINE d == "user-created"
<1>1. d \in Durables /\ SubjectOf[d] = "created" /\ cons \in [Durables -> Consumer]
  BY Statics DEF Durables, TInv, TypeOK
<1>2. stream["created"] \in Seq(Event) /\ cons[d] \in DurableOf(stream["created"])
  BY <1>1, DurableSteps
<1>3. /\ s \in Deliverable(cons[d], stream["created"])
      /\ cons'[d] = Receive(cons[d], s) /\ UNCHANGED <<stream, req, faults>>
  BY <1>1 DEF HandleUserCreated, Receives
<1>4. s \in DOMAIN stream["created"]
  BY <1>1, <1>3, DurableSteps
<1>5. stream["created"][s].id \in Users
  BY <1>4 DEF TInv, EventsWhole, Whole, Subjects
<1>6. cons'[d].open = s
  BY <1>3 DEF Receive
<1> QED
  BY <1>2, <1>3, <1>4, <1>5, <1>6, DurableForward

(* A profile appears where an event of its id is handled.                  *)
LEMMA ProfileAppears ==
  ASSUME TInv, [Next]_vars, NEW u \in Users, profile[u] = Absent, profile'[u] # Absent
  PROVE  \E s : HandleUserCreated(s) /\ stream["created"][s].id = u
<1>1. profile \in [Users -> Row \union {Absent}] /\ req \in [Requests -> Request]
  BY DEF TInv, TypeOK
<1>2. ASSUME NEW r \in Requests, NEW v \in Users, NEW e \in Event, Update(r, v, e) PROVE FALSE
  BY <1>1, <1>2 DEF Update
<1>3. ASSUME NEW r \in Requests, DeleteProfile(r) PROVE FALSE
  BY <1>1, <1>3 DEF DeleteProfile
<1>4. ASSUME NEW s, HandleUserCreated(s), stream["created"][s].id # u PROVE FALSE
  BY <1>1, <1>4 DEF HandleUserCreated
<1> QED
  BY <1>2, <1>3, <1>4, ProfileWriters

(* A deletion that is told or about to be was so before, or the request    *)
(* has just deleted the row.                                               *)
LEMMA DeletedIdsStep ==
  ASSUME TInv, [Next]_vars, NEW u \in DeletedIds'
  PROVE  \/ u \in DeletedIds
         \/ \E r \in Requests : DeleteProfile(r) /\ req[r].event.id = u
<1>0. /\ stream \in [Subjects -> Seq(Event)] /\ "deleted" \in Subjects
      /\ req \in [Requests -> Request]
  BY DEF TInv, TypeOK, Subjects
<1>1. CASE \E s \in DOMAIN stream'["deleted"] : stream'["deleted"][s].id = u
  <2>1. PICK s \in DOMAIN stream'["deleted"] : stream'["deleted"][s].id = u
    BY <1>1
  <2>2. CASE UNCHANGED stream \/ AnnounceAdmin
    <3>1. stream'["deleted"] = stream["deleted"]
      BY <1>0, <2>2 DEF AnnounceAdmin
    <3> QED
      BY <2>1, <3>1 DEF DeletedIds
  <2>3. ASSUME NEW r \in Requests, Publish(r) PROVE u \in DeletedIds
    <3>1. CASE s \in DOMAIN stream["deleted"] /\ stream'["deleted"][s] = stream["deleted"][s]
      BY <2>1, <3>1 DEF DeletedIds
    <3>2. CASE ~ (s \in DOMAIN stream["deleted"] /\ stream'["deleted"][s] = stream["deleted"][s])
      <4>1. req[r].subject = "deleted" /\ req[r].at = "publish"
            /\ stream'["deleted"] = Append(stream["deleted"], req[r].event)
        BY <1>0, <2>1, <2>3, <3>2 DEF Publish
      <4>2. stream["deleted"] \in Seq(Event) /\ req[r].event \in Event
        BY <1>0 DEF Request
      <4>3. stream'["deleted"][s] = req[r].event
        BY <2>1, <3>2, <4>1, <4>2
      <4> QED
        BY <2>1, <4>1, <4>3 DEF DeletedIds
    <3> QED
      BY <3>1, <3>2
  <2> QED
    BY <2>2, <2>3, StreamGrows
<1>2. CASE \E r \in Requests : /\ req'[r].at = "publish" /\ req'[r].subject = "deleted"
                               /\ req'[r].event.id = u
  <2>1. PICK r \in Requests : /\ req'[r].at = "publish" /\ req'[r].subject = "deleted"
                              /\ req'[r].event.id = u
    BY <1>2
  <2>2. CASE req'[r] = req[r]
    BY <2>1, <2>2 DEF DeletedIds
  <2>3. CASE DeleteProfile(r) /\ req'[r].event = req[r].event
    BY <2>1, <2>3
  <2> QED
    BY <2>1, <2>2, <2>3, PublishingStep
<1> QED
  BY <1>1, <1>2 DEF DeletedIds

(* Who has a profile after a step had one before, or an event about that   *)
(* id has just been handled.                                               *)
LEMMA HasProfileStep ==
  ASSUME TInv, [Next]_vars, NEW u \in Users, HasProfile(u)'
  PROVE  \/ HasProfile(u)
         \/ \E s : HandleUserCreated(s) /\ stream["created"][s].id = u
<1>0. req \in [Requests -> Request] /\ Idle.at = "idle"
  BY DEF TInv, TypeOK, Idle
<1>1. CASE profile'[u] # Absent
  BY <1>1, ProfileAppears DEF HasProfile
<1>2. CASE u \in DeletedIds'
  BY <1>2, DeletedIdsStep DEF HasProfile, DeleteProfile
<1>3. CASE \E r \in Requests : req'[r].at = "delete" /\ req'[r].event.id = u
  <2>1. PICK r \in Requests : req'[r].at = "delete" /\ req'[r].event.id = u
    BY <1>3
  <2>2. CASE req'[r] = req[r]
    BY <2>1, <2>2 DEF HasProfile
  <2>3. ASSUME NEW v \in Users, FindForDelete(r, v) PROVE HasProfile(u)
    <3>1. req'[r].event = [Nothing EXCEPT !.id = v] /\ profile[v] # Absent
      BY <1>0, <2>3 DEF FindForDelete
    <3>2. v = u
      BY <2>1, <3>1 DEF Nothing
    <3> QED
      BY <3>1, <3>2 DEF HasProfile
  <2>4. CASE req'[r] # req[r]
    <3>1. /\ \A n \in Names : ~ Register(r, n)
          /\ ~ InsertCredential(r)
          /\ ~ DeleteProfile(r)
          /\ \A v \in Users : \A e \in Event : ~ Update(r, v, e)
      <4> SUFFICES ASSUME NEW x, x.at # "delete", req' = [req EXCEPT ![r] = x] PROVE FALSE
        BY <1>0 DEF Register, InsertCredential, DeleteProfile, Update, Request
      <4> QED
        BY <1>0, <2>1
    <3> QED
      BY <1>0, <2>1, <2>3, <2>4, <3>1, RequestSteps
  <2> QED
    BY <2>2, <2>4
<1> QED
  BY <1>1, <1>2, <1>3 DEF HasProfile

(* Profiles are made from events that the durable has passed.              *)
LEMMA ProfilesToldStep == TInv /\ ProfilesTold /\ [Next]_vars => ProfilesTold'
<1> SUFFICES ASSUME TInv, ProfilesTold, [Next]_vars, NEW u \in Users, HasProfile(u)'
             PROVE  \E s \in DOMAIN stream'["created"] :
                       stream'["created"][s].id = u /\ s < cons'["user-created"].next
  BY DEF ProfilesTold
<1> DEFINE d == "user-created"
<1>1. /\ cons[d].next \in Nat /\ cons[d].next <= cons'[d].next
      /\ cons'[d].next \in Nat /\ stream["created"] \in Seq(Event)
  <2>1. TInv'
    BY TInvStep
  <2> QED
    BY <2>1, DurablesForward DEF Durables, TInv, TypeOK, Consumer, Subjects
<1>2. EventsStay
  BY EventsStayStep
<1>3. CASE HasProfile(u)
  <2>1. PICK s \in DOMAIN stream["created"] :
          stream["created"][s].id = u /\ s < cons[d].next
    BY <1>3 DEF ProfilesTold
  <2>2. s \in Nat /\ s < cons'[d].next
    BY <1>1, <2>1
  <2> QED
    BY <1>2, <2>1, <2>2 DEF EventsStay, Subjects
<1>4. ASSUME NEW s, HandleUserCreated(s), stream["created"][s].id = u
      PROVE  \E t \in DOMAIN stream'["created"] :
                stream'["created"][t].id = u /\ t < cons'[d].next
  BY <1>4, CreatedHandled
<1> QED
  BY <1>3, <1>4, HasProfileStep

(* Profiles are made from events of their ids, in every reachable state.   *)
LEMMA ProfilesAreTold == Spec => []ProfilesTold
<1>1. Init => ProfilesTold
  <2> SUFFICES ASSUME Init, NEW u \in Users, HasProfile(u) PROVE FALSE
    BY DEF ProfilesTold
  <2>1. stream["deleted"] = << >> /\ DOMAIN stream["deleted"] = {}
    BY DEF Init, Subjects
  <2> QED
    BY <2>1 DEF Init, HasProfile, DeletedIds, Idle
<1> QED
  BY <1>1, ProfilesToldStep, TypeInvariant, PTL DEF Spec

(* An event about an id whose profile is known to have been there has been *)
(* delivered before: it is one that waits to come again.                   *)
LEMMA RevivedByRedelivery ==
  ASSUME TInv, CreatedOnce, ProfilesTold,
         NEW u \in Users, HasProfile(u),
         NEW s, HandleUserCreated(s), stream["created"][s].id = u
  PROVE  s \in cons["user-created"].again
<1>1. PICK t \in DOMAIN stream["created"] :
        stream["created"][t].id = u /\ t < cons["user-created"].next
  BY DEF ProfilesTold
<1>2. s = t
  BY <1>1, CreatedHandled DEF CreatedOnce
<1>3. cons["user-created"].next \in Nat /\ stream["created"] \in Seq(Event)
  BY DEF TInv, TypeOK, Durables, Consumer, Subjects
<1> QED
  BY <1>1, <1>2, <1>3, CreatedHandled

(* Whatever fails, the first delivery of a user.created never revives a    *)
(* deleted profile: each id is announced once, and a profile that was      *)
(* deleted had been made from that one announcement.                       *)
THEOREM RevivalTakesRedelivery == Spec => ProfileReturnsOnlyByRedelivery
<1>1. TInv /\ CreatedOnce /\ ProfilesTold /\ [Next]_vars =>
        [\A u \in DeletedIds :
           profile[u] = Absent /\ profile'[u] # Absent
             => cons'["user-created"].open \in cons["user-created"].again]_vars
  <2> SUFFICES ASSUME TInv, CreatedOnce, ProfilesTold, [Next]_vars,
                      NEW u \in DeletedIds, profile[u] = Absent, profile'[u] # Absent
               PROVE  cons'["user-created"].open \in cons["user-created"].again
    OBVIOUS
  <2>1. u \in Users
    <3>1. ASSUME NEW s \in DOMAIN stream["deleted"] PROVE stream["deleted"][s].id \in Users
      BY DEF TInv, EventsWhole, Whole, Subjects
    <3>2. ASSUME NEW r \in Requests, req[r].at = "publish" PROVE req[r].event.id \in Users
      BY <3>2 DEF TInv, EventsWhole, Whole
    <3> QED
      BY <3>1, <3>2 DEF DeletedIds
  <2>2. PICK s : HandleUserCreated(s) /\ stream["created"][s].id = u
    BY <2>1, ProfileAppears
  <2>3. HasProfile(u)
    BY DEF HasProfile
  <2> QED
    BY <2>1, <2>2, <2>3, RevivedByRedelivery, CreatedHandled
<1> QED
  BY <1>1, TypeInvariant, NamesAreUnique, ProfilesAreTold, PTL
  DEF Spec, ProfileReturnsOnlyByRedelivery

-----------------------------------------------------------------------------
(* Without faults.                                                         *)

NoFaults == faults = 0

\* As long as nothing fails no user.created comes again, and a deletion under
\* way is of a profile that is there or that another deletion has taken away.
NothingLost ==
  /\ cons["user-created"].again = {}
  /\ \A r \in Requests : req[r].at = "delete" =>
        profile[req[r].event.id] # Absent \/ req[r].event.id \in DeletedIds

(* Without a fault, a request is over when it has published.               *)
LEMMA RequestsEnd ==
  ASSUME TInv, [Next]_vars, faults = 0, faults' = 0,
         NEW r \in Requests, req[r].at = "publish"
  PROVE  req'[r] = req[r] \/ Publish(r)
<1>0. req \in [Requests -> Request]
  BY DEF TInv, TypeOK
<1>1. ASSUME NEW p \in Requests,
             \/ \E n \in Names : Register(p, n)
             \/ Step(p)
             \/ PublishFails(p)
             \/ \E u \in Users :
                   \/ \E role \in Roles : UpdateUserRole(p, u, role)
                   \/ \E n \in Names : UpdateUser(p, u, n)
                   \/ FindForDelete(p, u)
      PROVE  req'[r] = req[r] \/ Publish(r)
  <2>1. CASE p = r
    <3>1. ~ PublishFails(p)
      BY DEF PublishFails
    <3>2. /\ \A n \in Names : ~ Register(p, n)
          /\ ~ InsertCredential(p) /\ ~ InsertRefused(p) /\ ~ DeleteProfile(p)
      BY <2>1 DEF Register, InsertCredential, InsertRefused, DeleteProfile
    <3>3. \A u \in Users : /\ \A role \in Roles : ~ UpdateUserRole(p, u, role)
                           /\ \A n \in Names : ~ UpdateUser(p, u, n)
                           /\ ~ FindForDelete(p, u)
      BY <2>1 DEF UpdateUserRole, UpdateUser, Update, FindForDelete, Serving
    <3> QED
      BY <1>1, <2>1, <3>1, <3>2, <3>3 DEF Step
  <2>2. CASE p # r
    BY <1>0, <1>1, <2>2 DEF Register, Step, InsertCredential, InsertRefused, DeleteProfile,
       Publish, PublishFails, UpdateUserRole, UpdateUser, Update, FindForDelete
  <2> QED
    BY <2>1, <2>2
<1>2. CASE \/ BootAuth \/ StartUser \/ SignIn \/ UNCHANGED vars
           \/ \E d \in Durables : \/ Handler(d) \/ AckHandled(d) \/ AckLost(d)
                                  \/ \E s \in Numbers : NakUnhandled(d, s)
  BY <1>2 DEF BootAuth, StartAuth, StartAuthSeeding, AnnounceAdmin, ListenAuth, StartUser,
     SignIn, Handler, HandleUserCreated, HandleUserUpdated, RefuseUserUpdated,
     HandleUserDeleted, AckHandled, AckLost, NakUnhandled, vars
<1>3. \A v \in Services : ~ Crash(v)
  BY DEF Crash
<1> QED
  BY <1>1, <1>2, <1>3 DEF Next

(* Without a fault, a deletion once made goes on being known.              *)
LEMMA DeletedIdsKept ==
  ASSUME TInv, [Next]_vars, faults = 0, faults' = 0
  PROVE  DeletedIds \subseteq DeletedIds'
<1> SUFFICES ASSUME NEW u \in DeletedIds PROVE u \in DeletedIds'
  OBVIOUS
<1>0. stream \in [Subjects -> Seq(Event)] /\ req \in [Requests -> Request] /\ "deleted" \in Subjects
  BY DEF TInv, TypeOK, Subjects
<1>1. CASE \E s \in DOMAIN stream["deleted"] : stream["deleted"][s].id = u
  BY <1>0, <1>1, EventsStayStep DEF EventsStay, DeletedIds
<1>2. ASSUME NEW r \in Requests, req[r].at = "publish", req[r].subject = "deleted",
             req[r].event.id = u
      PROVE  u \in DeletedIds'
  <2>1. CASE req'[r] = req[r]
    BY <1>2, <2>1 DEF DeletedIds
  <2>2. CASE Publish(r)
    <3>1. stream'["deleted"] = Append(stream["deleted"], req[r].event)
      BY <1>0, <1>2, <2>2 DEF Publish
    <3>2. stream["deleted"] \in Seq(Event) /\ req[r].event \in Event
      BY <1>0 DEF Request
    <3>3. /\ Len(stream["deleted"]) + 1 \in DOMAIN stream'["deleted"]
          /\ stream'["deleted"][Len(stream["deleted"]) + 1] = req[r].event
      BY <3>1, <3>2
    <3> QED
      BY <1>2, <3>3 DEF DeletedIds
  <2> QED
    BY <1>2, <2>1, <2>2, RequestsEnd
<1> QED
  BY <1>1, <1>2 DEF DeletedIds

(* The durable of user.created gets nothing back without a fault.          *)
LEMMA NothingBack ==
  ASSUME TInv, [Next]_vars, faults = 0, faults' = 0, cons["user-created"].again = {}
  PROVE  cons'["user-created"].again = {}
<1> DEFINE d == "user-created"
<1>1. d \in Durables /\ Gently(d)
  BY DurablesMoveStep DEF DurablesMove, Durables
<1>2. cons[d] \in Consumer
  BY <1>1 DEF TInv, TypeOK
<1>3. /\ \A log : SubscribeNew(cons[d], log).again = cons[d].again
      /\ \A s : Receive(cons[d], s).again = cons[d].again \ {s}
      /\ Ack(cons[d]).again = cons[d].again
  BY <1>2 DEF SubscribeNew, Exists, Receive, Ack, Consumer
<1> HIDE DEF d
<1>4. cons'[d].again \subseteq cons[d].again
  BY <1>1, <1>3 DEF Gently
<1> QED
  BY <1>4 DEF d

(* NothingLost survives the steps that are no faults.                      *)
LEMMA NothingLostStep ==
  TInv /\ NothingLost /\ [Next]_vars /\ faults = 0 /\ faults' = 0 => NothingLost'
<1> SUFFICES ASSUME TInv, NothingLost, [Next]_vars, faults = 0, faults' = 0,
                    NEW r \in Requests, req'[r].at = "delete"
             PROVE  profile'[req'[r].event.id] # Absent \/ req'[r].event.id \in DeletedIds'
  BY NothingBack DEF NothingLost
<1>0. /\ req \in [Requests -> Request] /\ Idle.at = "idle"
      /\ profile \in [Users -> Row \union {Absent}]
  BY DEF TInv, TypeOK, Idle
<1>1. CASE req'[r] = req[r]
  <2> DEFINE u == req[r].event.id
  <2>1. u \in Users
    BY <1>1 DEF TInv, EventsWhole, Whole
  <2>2. profile[u] # Absent \/ u \in DeletedIds
    BY <1>1 DEF NothingLost
  <2>3. CASE u \in DeletedIds
    BY <1>1, <2>3, DeletedIdsKept
  <2>4. CASE profile[u] # Absent /\ profile'[u] = Absent
    <3>1. ASSUME NEW p \in Requests, DeleteProfile(p) PROVE u \in DeletedIds'
      <4>1. req[p].event.id = u
        BY <1>0, <2>1, <2>4, <3>1 DEF DeleteProfile
      <4>2. /\ req'[p] = [req[p] EXCEPT !.at = "publish"] /\ req[p] \in Request
            /\ req[p].subject = "deleted"
        BY <1>0, <3>1 DEF DeleteProfile, TInv, EventsWhole
      <4>3. req'[p].at = "publish" /\ req'[p].subject = "deleted" /\ req'[p].event.id = u
        BY <4>1, <4>2 DEF Request
      <4> QED
        BY <4>3 DEF DeletedIds
    <3>2. ASSUME NEW p \in Requests, NEW v \in Users, NEW e \in Event, Update(p, v, e) PROVE FALSE
      <4>1. profile[v] \in Row /\ profile' = [profile EXCEPT ![v] = Patched(profile[v], e)]
        BY <1>0, <3>2 DEF Update
      <4>2. Patched(profile[v], e) # Absent
        BY <4>1, PatchedRow, AbsentIsNoRow DEF Row
      <4> QED
        BY <1>0, <2>1, <2>4, <4>1, <4>2
    <3>3. ASSUME NEW s, HandleUserCreated(s) PROVE FALSE
      BY <1>0, <2>1, <2>4, <3>3 DEF HandleUserCreated
    <3> QED
      BY <1>1, <2>4, <3>1, <3>2, <3>3, ProfileWriters
  <2> QED
    BY <1>1, <2>2, <2>3, <2>4
<1>2. ASSUME NEW u \in Users, FindForDelete(r, u)
      PROVE  profile'[req'[r].event.id] # Absent
  <2>1. req'[r].event = [Nothing EXCEPT !.id = u] /\ profile'[u] # Absent
    BY <1>0, <1>2 DEF FindForDelete
  <2> QED
    BY <2>1 DEF Nothing
<1>3. CASE req'[r] # req[r]
  <2>1. /\ \A n \in Names : ~ Register(r, n)
        /\ ~ InsertCredential(r)
        /\ ~ DeleteProfile(r)
        /\ \A v \in Users : \A e \in Event : ~ Update(r, v, e)
    <3> SUFFICES ASSUME NEW x, x.at # "delete", req' = [req EXCEPT ![r] = x] PROVE FALSE
      BY <1>0 DEF Register, InsertCredential, DeleteProfile, Update, Request
    <3> QED
      BY <1>0
  <2> QED
    BY <1>0, <1>2, <1>3, <2>1, RequestSteps
<1> QED
  BY <1>1, <1>3

(* Only deleteUser adds to the deleted ids.                                *)
LEMMA DeletedIdsStill ==
  ASSUME TInv, [Next]_vars, faults = 0, faults' = 0, \A r \in Requests : ~ DeleteProfile(r)
  PROVE  DeletedIds' = DeletedIds
BY DeletedIdsStep, DeletedIdsKept

(* Two requests cannot both delete in one step.                            *)
LEMMA OneDeletes ==
  ASSUME TInv, NEW r \in Requests, NEW p \in Requests, DeleteProfile(r), DeleteProfile(p)
  PROVE  r = p
BY DEF DeleteProfile, TInv, TypeOK, Request

(* A DELETE that is not a fault closes the id, or it was closed already.   *)
LEMMA DeleteCloses ==
  ASSUME TInv, NothingLost, [Next]_vars, faults = 0, faults' = 0,
         NEW r \in Requests, DeleteProfile(r)
  PROVE  Profiles!Next \/ UNCHANGED ProfilePhase
<1> DEFINE v == req[r].event.id
<1>0. /\ profile \in [Users -> Row \union {Absent}] /\ req \in [Requests -> Request]
      /\ req[r].at = "delete" /\ req[r].subject = "deleted" /\ v \in Users
  BY DEF DeleteProfile, TInv, TypeOK, EventsWhole, Whole
<1>1. profile' = [profile EXCEPT ![v] = Absent]
  BY DEF DeleteProfile
<1>2. v \in DeletedIds'
  <2>1. /\ req'[r] = [req[r] EXCEPT !.at = "publish"] /\ req[r] \in Request
    BY <1>0 DEF DeleteProfile
  <2>2. req'[r].at = "publish" /\ req'[r].subject = "deleted" /\ req'[r].event.id = v
    BY <1>0, <2>1 DEF Request
  <2> QED
    BY <2>2 DEF DeletedIds
<1>3. DeletedIds' = DeletedIds \union {v}
  BY <1>2, DeletedIdsStep, DeletedIdsKept, OneDeletes
<1>4. profile[v] # Absent \/ v \in DeletedIds
  BY <1>0 DEF NothingLost
<1> HIDE DEF v
<1>5. CASE profile[v] # Absent
  <2>1. Profiles!Close(v)
    BY <1>0, <1>1, <1>3, <1>5 DEF Profiles!Close, ProfilePhase
  <2> QED
    BY <1>0, <2>1 DEF Profiles!Next
<1>6. CASE profile[v] = Absent
  <2>1. profile' = profile /\ DeletedIds' = DeletedIds
    BY <1>0, <1>1, <1>3, <1>4, <1>6
  <2> QED
    BY <2>1 DEF ProfilePhase
<1> QED
  BY <1>5, <1>6

(* A user.created that makes a profile opens an unused id.                 *)
LEMMA CreatedOpens ==
  ASSUME TInv, CreatedOnce, ProfilesTold, NothingLost, [Next]_vars, faults = 0, faults' = 0,
         NEW s, HandleUserCreated(s)
  PROVE  Profiles!Next \/ UNCHANGED ProfilePhase
<1> DEFINE e == stream["created"][s]
<1>0. /\ profile \in [Users -> Row \union {Absent}] /\ req \in [Requests -> Request]
      /\ "created" \in Subjects
  BY DEF TInv, TypeOK, Subjects
<1>1. s \in DOMAIN stream["created"] /\ s \notin cons["user-created"].again /\ UNCHANGED req
  BY CreatedHandled DEF NothingLost
<1>2. e.id \in Users /\ e.name \in Names /\ e.role \in Roles
  BY <1>0, <1>1 DEF TInv, EventsWhole, Whole
<1>3. DeletedIds' = DeletedIds
  <2>1. \A r \in Requests : ~ DeleteProfile(r)
    <3> SUFFICES ASSUME NEW r \in Requests, DeleteProfile(r) PROVE FALSE
      OBVIOUS
    <3>1. req[r].at = "delete" /\ req'[r].at = "publish"
      BY <1>0 DEF DeleteProfile, Request
    <3> QED
      BY <1>1, <3>1
  <2> QED
    BY <2>1, DeletedIdsStill
<1>4. e.id \notin DeletedIds
  BY <1>1, <1>2, RevivedByRedelivery DEF HasProfile
<1>5. [name |-> e.name, role |-> e.role] # Absent
  BY <1>2, AbsentIsNoRow
<1>6. CASE profile' = profile
  BY <1>3, <1>6 DEF ProfilePhase
<1>7. CASE /\ profile[e.id] = Absent
           /\ profile' = [profile EXCEPT ![e.id] = [name |-> e.name, role |-> e.role]]
  <2>1. Profiles!Open(e.id)
    BY <1>0, <1>2, <1>3, <1>4, <1>5, <1>7 DEF Profiles!Open, ProfilePhase
  <2> QED
    BY <1>2, <2>1 DEF Profiles!Next
<1> QED
  BY <1>6, <1>7 DEF HandleUserCreated

(* Each step of a run without faults is one of the lifecycle, or none.     *)
LEMMA ProfileStep ==
  TInv /\ CreatedOnce /\ ProfilesTold /\ NothingLost /\ [Next]_vars /\ faults = 0 /\ faults' = 0
    => [Profiles!Next]_ProfilePhase
<1> SUFFICES ASSUME TInv, CreatedOnce, ProfilesTold, NothingLost, [Next]_vars,
                    faults = 0, faults' = 0
             PROVE  Profiles!Next \/ UNCHANGED ProfilePhase
  OBVIOUS
<1>0. profile \in [Users -> Row \union {Absent}] /\ req \in [Requests -> Request]
  BY DEF TInv, TypeOK
<1>1. ASSUME NEW r \in Requests, NEW u \in Users, NEW e \in Event, Update(r, u, e)
      PROVE  UNCHANGED ProfilePhase
  <2>1. profile[u] \in Row /\ profile' = [profile EXCEPT ![u] = Patched(profile[u], e)]
    BY <1>0, <1>1 DEF Update
  <2>2. Patched(profile[u], e) # Absent /\ profile[u] # Absent
    BY <2>1, PatchedRow, AbsentIsNoRow DEF Row
  <2>3. \A v \in Users : profile'[v] = Absent <=> profile[v] = Absent
    BY <1>0, <2>1, <2>2
  <2>4. \A p \in Requests : ~ DeleteProfile(p)
    <3> SUFFICES ASSUME NEW p \in Requests, DeleteProfile(p) PROVE FALSE
      OBVIOUS
    <3>1. req[p].at = "delete" /\ req'[p].at = "publish"
      BY <1>0 DEF DeleteProfile, Request
    <3> QED
      BY <1>0, <1>1, <3>1 DEF Update, Serving
  <2> QED
    BY <2>3, <2>4, DeletedIdsStill DEF ProfilePhase
<1>2. CASE UNCHANGED profile /\ \A r \in Requests : ~ DeleteProfile(r)
  BY <1>2, DeletedIdsStill DEF ProfilePhase
<1> QED
  BY <1>1, <1>2, DeleteCloses, CreatedOpens, ProfileWriters

(* As long as nothing fails, user-service's table implements the lifecycle *)
(* of its ids: a user.created opens an unused id, a deletion closes it for *)
(* good, however many requests delete it at once.                          *)
THEOREM ProfilesKeepLifecycle == Spec /\ []NoFaults => ProfileLifecycle
<1>1. Init => NothingLost
  BY DEF Init, NothingLost, NoConsumer, Durables, Idle
<1>2. Init => Profiles!Init
  <2> SUFFICES ASSUME Init PROVE Profiles!Init
    OBVIOUS
  <2>1. DeletedIds = {}
    <3>1. stream["deleted"] = << >>
      BY DEF Init, Subjects
    <3> QED
      BY <3>1 DEF Init, DeletedIds, Idle
  <2> QED
    BY <2>1 DEF Init, Profiles!Init, ProfilePhase
<1>3. TInv /\ NothingLost /\ [Next]_vars /\ NoFaults /\ NoFaults' => NothingLost'
  BY NothingLostStep DEF NoFaults
<1>4. TInv /\ CreatedOnce /\ ProfilesTold /\ NothingLost /\ [Next]_vars /\ NoFaults /\ NoFaults'
        => [Profiles!Next]_ProfilePhase
  BY ProfileStep DEF NoFaults
<1> QED
  BY <1>1, <1>2, <1>3, <1>4, TypeInvariant, NamesAreUnique, ProfilesAreTold, PTL
  DEF Spec, ProfileLifecycle, Profiles!Spec

-----------------------------------------------------------------------------
(* Roles converge.                                                         *)

\* user.updated and its durable, as DeletionsHeard is about user.deleted.
UpdatesHeard ==
  /\ phase["auth"] = "listening" => Exists(cons["auth-updated"])
  /\ bearer => Exists(cons["auth-updated"])
  /\ ~ bearer => /\ stream["updated"] = << >>
                 /\ \A r \in Requests : req[r].subject # "updated"

\* Request r is about to publish a user.updated.
Updating(r) == req[r].at = "publish" /\ req[r].subject = "updated"

\* An update sets one of the two fields, and only a name can be refused.
UpdatesPlain ==
  /\ \A s \in DOMAIN stream["updated"] :
        stream["updated"][s].name = Absent \/ stream["updated"][s].role = Absent
  /\ \A r \in Requests : Updating(r) => req[r].event.name = Absent \/ req[r].event.role = Absent

\* user-service has told, or is about to tell, something about u.
Touched(u) ==
  \/ \E s \in DOMAIN stream["updated"] : stream["updated"][s].id = u
  \/ \E r \in Requests : Updating(r) /\ req[r].event.id = u

\* Event e announces an account that user-service knows nothing about yet.
Newcomer(e) == ~ Touched(e.id) /\ (cred[e.id] # Absent => cred[e.id].role = e.role)

Newcomers ==
  /\ \A s \in DOMAIN stream["created"] :
        s >= cons["user-created"].next => Newcomer(stream["created"][s])
  /\ \A r \in Requests : Announcing(r) => Newcomer(req[r].event)

\* Without faults auth-service starts once, on an empty table.
StartsOnce ==
  /\ phase["auth"] = "down" => \A u \in Users : cred[u] = Absent
  /\ bearer => phase["auth"] = "listening"

\* Number s is a role of u that auth-service has yet to read.
RoleEvent(e, u) == e.id = u /\ e.role # Absent

Awaited(u, s) == s >= cons["auth-updated"].next /\ RoleEvent(stream["updated"][s], u)

\* x is the role auth-service will give u.
RoleDue(u, x) ==
  \/ /\ \A s \in DOMAIN stream["updated"] : ~ Awaited(u, s)
     /\ x = cred[u].role
  \/ \E s \in DOMAIN stream["updated"] :
        /\ Awaited(u, s)
        /\ \A t \in DOMAIN stream["updated"] : Awaited(u, t) => t <= s
        /\ x = stream["updated"][s].role

(* Deliveries of the events auth-service reads, and what the bound faults  *)
(* leave of them.                                                          *)
LEMMA UpdatedDurable ==
  ASSUME TInv, [Next]_vars, faults = 0, faults' = 0
  PROVE  \/ /\ cons'["auth-updated"].next = cons["auth-updated"].next
            /\ cons'["auth-updated"].again = cons["auth-updated"].again
         \/ ListenAuth
         \/ \E s : HandleUserUpdated(s) \/ RefuseUserUpdated(s)
<1> DEFINE d == "auth-updated"
           Still == /\ cons'[d].next = cons[d].next
                    /\ cons'[d].again = cons[d].again
<1>0. cons \in [Durables -> Consumer] /\ d \in Durables /\ cons[d] \in Consumer
  BY DEF TInv, TypeOK, Durables
<1>1. ASSUME cons'[d] = cons[d] \/ cons'[d] = Ack(cons[d]) PROVE Still
  BY <1>0, <1>1 DEF Ack, Consumer
<1>2. ASSUME StartUser PROVE Still
  <2>1. cons'[d] = cons[d]
    BY <1>0, <1>2 DEF StartUser
  <2> QED
    BY <1>1, <2>1
<1>3. ASSUME NEW x \in Durables, NEW s, Receives(x, s), x # d PROVE Still
  <2>1. cons'[d] = cons[d]
    BY <1>0, <1>3 DEF Receives
  <2> QED
    BY <1>1, <2>1
<1>4. ASSUME NEW x \in Durables, AckHandled(x) PROVE Still
  <2>1. cons'[d] = cons[d] \/ cons'[d] = Ack(cons[d])
    BY <1>0, <1>4 DEF AckHandled
  <2> QED
    BY <1>1, <2>1
<1>5. ASSUME NEW x \in Durables, Handler(x)
      PROVE  Still \/ \E s : HandleUserUpdated(s) \/ RefuseUserUpdated(s)
  <2>1. "user-created" \in Durables /\ "auth-deleted" \in Durables
    BY DEF Durables
  <2> QED
    BY <1>3, <1>5, <2>1 DEF Handler, HandleUserCreated, HandleUserDeleted
<1>6. \A v \in Services : ~ Crash(v)
  BY DEF Crash
<1>7. \A x \in Durables : ~ AckLost(x) /\ \A s \in Numbers : ~ NakUnhandled(x, s)
  BY DEF AckLost, NakUnhandled
<1>8. ASSUME UNCHANGED cons PROVE Still
  BY <1>8
<1>9. ASSUME NEW r \in Requests,
             \/ \E n \in Names : Register(r, n)
             \/ Step(r)
             \/ PublishFails(r)
             \/ \E u \in Users :
                   \/ \E role \in Roles : UpdateUserRole(r, u, role)
                   \/ \E n \in Names : UpdateUser(r, u, n)
                   \/ FindForDelete(r, u)
      PROVE  UNCHANGED cons
  BY <1>9 DEF Register, Step, InsertCredential, InsertRefused, DeleteProfile, Publish,
     PublishFails, UpdateUserRole, UpdateUser, Update, FindForDelete
<1>10. ASSUME StartAuth \/ StartAuthSeeding \/ AnnounceAdmin \/ SignIn \/ UNCHANGED vars
       PROVE  Still
  <2>1. UNCHANGED cons
    BY <1>10 DEF StartAuth, StartAuthSeeding, AnnounceAdmin, SignIn, vars
  <2> QED
    BY <1>8, <2>1
<1> DEFINE Reads == \E s : HandleUserUpdated(s) \/ RefuseUserUpdated(s)
<1> HIDE DEF d, Still, Reads
<1>11. ASSUME NEW x \in Durables,
              \/ Handler(x) \/ AckHandled(x) \/ AckLost(x)
              \/ \E s \in Numbers : NakUnhandled(x, s)
       PROVE  Still \/ Reads
  BY <1>4, <1>5, <1>7, <1>11 DEF Reads
<1>12. Still \/ Reads \/ ListenAuth
  BY <1>2, <1>6, <1>8, <1>9, <1>10, <1>11 DEF Next, BootAuth
<1> QED
  BY <1>12 DEF d, Still, Reads

(* auth-service's life without faults: it starts, and then it listens.     *)
LEMMA PhaseStep ==
  ASSUME TInv, [Next]_vars, faults = 0, faults' = 0
  PROVE  /\ phase["auth"] = "listening" => phase'["auth"] = "listening"
         /\ phase'["auth"] = "listening" => phase["auth"] = "listening" \/ ListenAuth
         /\ phase'["auth"] = "down" => phase["auth"] = "down" /\ ~ StartAuth /\ ~ StartAuthSeeding
         /\ bearer' => bearer \/ phase["auth"] = "listening"
         /\ bearer => bearer'
<1>0. phase \in [Services -> Phases] /\ "auth" \in Services /\ "auth" # "user"
  BY DEF TInv, TypeOK, Services
<1>1. \A v \in Services : ~ Crash(v)
  BY DEF Crash
<1>2. CASE BootAuth \/ StartUser \/ SignIn \/ UNCHANGED vars
  BY <1>0, <1>2 DEF BootAuth, StartAuth, StartAuthSeeding, AnnounceAdmin, ListenAuth, StartUser,
     SignIn, vars
<1>3. ASSUME UNCHANGED <<phase, bearer>>, ~ StartAuth, ~ StartAuthSeeding
      PROVE  /\ phase["auth"] = "listening" => phase'["auth"] = "listening"
             /\ phase'["auth"] = "listening" => phase["auth"] = "listening"
             /\ phase'["auth"] = "down" => /\ phase["auth"] = "down"
                                           /\ ~ StartAuth /\ ~ StartAuthSeeding
             /\ bearer' <=> bearer
  BY <1>3
<1>4. UNCHANGED phase => ~ StartAuth /\ ~ StartAuthSeeding
  BY <1>0 DEF StartAuth, StartAuthSeeding
<1>5. ASSUME NEW r \in Requests,
             \/ \E n \in Names : Register(r, n)
             \/ Step(r)
             \/ PublishFails(r)
             \/ \E u \in Users :
                   \/ \E role \in Roles : UpdateUserRole(r, u, role)
                   \/ \E n \in Names : UpdateUser(r, u, n)
                   \/ FindForDelete(r, u)
      PROVE  UNCHANGED <<phase, bearer>>
  BY <1>5 DEF Register, Step, InsertCredential, InsertRefused, DeleteProfile, Publish,
     PublishFails, UpdateUserRole, UpdateUser, Update, FindForDelete
<1>6. ASSUME NEW d \in Durables,
             \/ Handler(d) \/ AckHandled(d) \/ AckLost(d)
             \/ \E s \in Numbers : NakUnhandled(d, s)
      PROVE  UNCHANGED <<phase, bearer>>
  BY <1>6 DEF Handler, HandleUserCreated, HandleUserUpdated, RefuseUserUpdated,
     HandleUserDeleted, AckHandled, AckLost, NakUnhandled
<1> QED
  BY <1>1, <1>2, <1>3, <1>4, <1>5, <1>6 DEF Next

(* Only the publication of an update adds to user.updated.                 *)
LEMMA UpdatedGrows ==
  ASSUME TInv, [Next]_vars
  PROVE  \/ stream'["updated"] = stream["updated"]
         \/ \E r \in Requests :
               /\ Publish(r) /\ Updating(r) /\ req[r].event \in Event
               /\ stream'["updated"] = Append(stream["updated"], req[r].event)
<1>1. stream \in [Subjects -> Seq(Event)] /\ req \in [Requests -> Request]
  BY DEF TInv, TypeOK
<1>2. AnnounceAdmin => stream'["updated"] = stream["updated"]
  BY <1>1 DEF AnnounceAdmin
<1>3. ASSUME NEW r \in Requests, Publish(r), ~ Updating(r)
      PROVE  stream'["updated"] = stream["updated"]
  BY <1>1, <1>3 DEF Publish, Updating, Subjects
<1>4. ASSUME NEW r \in Requests, Publish(r), Updating(r)
      PROVE  /\ req[r].event \in Event
             /\ stream'["updated"] = Append(stream["updated"], req[r].event)
  BY <1>1, <1>4 DEF Publish, Updating, Subjects, Request
<1> QED
  BY <1>2, <1>3, <1>4, StreamGrows

(* What a request is about to tell about an id is what its UPDATE set.     *)
LEMMA UpdatingStep ==
  ASSUME TInv, [Next]_vars, NEW r \in Requests, Updating(r)'
  PROVE  \/ req'[r] = req[r]
         \/ \E u \in Users : \E e \in Event :
               e.id = u /\ Update(r, u, e) /\ req'[r].event = e
<1>1. req'[r].at = "publish" /\ req'[r].subject = "updated"
  BY DEF Updating
<1> QED
  BY <1>1, PublishingStep

(* updateUser carries a name, updateUserRole a role, and neither both.     *)
LEMMA PlainStep ==
  ASSUME TInv, [Next]_vars, NEW r \in Requests, Updating(r)', req'[r] # req[r]
  PROVE  req'[r].event.name = Absent \/ req'[r].event.role = Absent
<1>0. req \in [Requests -> Request] /\ req'[r].at = "publish" /\ req'[r].subject = "updated"
  BY DEF TInv, TypeOK, Updating
<1>1. ASSUME NEW p \in Requests, NEW e \in Event,
             req' = [req EXCEPT ![p] = [at |-> "publish", subject |-> "updated", event |-> e]]
      PROVE  req'[r].event = e
  BY <1>0, <1>1
<1>2. ASSUME NEW p \in Requests, NEW u \in Users, NEW role \in Roles, UpdateUserRole(p, u, role)
      PROVE  req'[r].event.name = Absent
  <2> DEFINE e == [id |-> u, name |-> Absent, role |-> role]
  <2>1. e \in Event /\ e.name = Absent
    BY DEF Event
  <2>2. req' = [req EXCEPT ![p] = [at |-> "publish", subject |-> "updated", event |-> e]]
    BY <1>2 DEF UpdateUserRole, Update
  <2> HIDE DEF e
  <2> QED
    BY <1>1, <2>1, <2>2
<1>3. ASSUME NEW p \in Requests, NEW u \in Users, NEW n \in Names, UpdateUser(p, u, n)
      PROVE  req'[r].event.role = Absent
  <2> DEFINE e == [id |-> u, name |-> n, role |-> Absent]
  <2>1. e \in Event /\ e.role = Absent
    BY DEF Event
  <2>2. req' = [req EXCEPT ![p] = [at |-> "publish", subject |-> "updated", event |-> e]]
    BY <1>3 DEF UpdateUser, Update
  <2> HIDE DEF e
  <2> QED
    BY <1>1, <2>1, <2>2
<1>4. ASSUME NEW p \in Requests, NEW x, x.subject # "updated" \/ x.at # "publish",
             req' = [req EXCEPT ![p] = x]
      PROVE  FALSE
  BY <1>0, <1>4
<1>5. ASSUME NEW p \in Requests,
             (\E n \in Names : Register(p, n)) \/ (\E u \in Users : FindForDelete(p, u))
      PROVE  FALSE
  <2>1. \E e : \/ req' = [req EXCEPT ![p] = [at |-> "insert", subject |-> "created", event |-> e]]
               \/ req' = [req EXCEPT ![p] = [at |-> "delete", subject |-> "deleted", event |-> e]]
    BY <1>5 DEF Register, FindForDelete
  <2> QED
    BY <1>4, <2>1
<1>6. ASSUME NEW p \in Requests, Step(p) \/ PublishFails(p) PROVE FALSE
  <2>1. CASE InsertCredential(p)
    <3>1. \E e : req' = [req EXCEPT ![p] = [at |-> "publish", subject |-> "created", event |-> e]]
      BY <2>1 DEF InsertCredential
    <3> QED
      BY <1>4, <3>1
  <2>2. CASE InsertRefused(p) \/ Publish(p) \/ PublishFails(p)
    <3>1. req' = [req EXCEPT ![p] = Idle] /\ Idle.at # "publish"
      BY <2>2 DEF InsertRefused, Publish, PublishFails, Idle
    <3> QED
      BY <1>4, <3>1
  <2>3. CASE DeleteProfile(p)
    <3>1. /\ req' = [req EXCEPT ![p] = [req[p] EXCEPT !.at = "publish"]]
          /\ req[p] \in Request /\ req[p].subject = "deleted"
      BY <1>0, <2>3 DEF DeleteProfile, TInv, EventsWhole
    <3>2. [req[p] EXCEPT !.at = "publish"].subject # "updated"
      BY <3>1 DEF Request
    <3> QED
      BY <1>4, <3>1, <3>2
  <2> QED
    BY <1>6, <2>1, <2>2, <2>3 DEF Step
<1>7. ASSUME NEW v \in Services, Crash(v) PROVE FALSE
  BY <1>0, <1>7 DEF Crash, Idle
<1>8. ~ UNCHANGED req
  OBVIOUS
<1>9. ~ BootAuth /\ ~ StartUser /\ ~ SignIn /\ ~ UNCHANGED vars
  BY <1>8 DEF BootAuth, StartAuth, StartAuthSeeding, AnnounceAdmin, ListenAuth, StartUser,
     SignIn, vars
<1>10. \A d \in Durables : /\ ~ Handler(d) /\ ~ AckHandled(d) /\ ~ AckLost(d)
                           /\ \A s \in Numbers : ~ NakUnhandled(d, s)
  BY <1>8 DEF Handler, HandleUserCreated, HandleUserUpdated, RefuseUserUpdated,
     HandleUserDeleted, AckHandled, AckLost, NakUnhandled
<1> QED
  BY <1>2, <1>3, <1>5, <1>6, <1>7, <1>9, <1>10 DEF Next

(* No update carries both fields.                                          *)
LEMMA UpdatesPlainStep == TInv /\ UpdatesPlain /\ [Next]_vars => UpdatesPlain'
<1> SUFFICES ASSUME TInv, UpdatesPlain, [Next]_vars PROVE UpdatesPlain'
  OBVIOUS
<1> DEFINE log == stream["updated"]
           Plain(e) == e.name = Absent \/ e.role = Absent
<1>0. log \in Seq(Event)
  BY DEF TInv, TypeOK, Subjects
<1>1. \A s \in DOMAIN log : Plain(log[s])
  BY DEF UpdatesPlain
<1>2. ASSUME NEW r \in Requests, Updating(r) PROVE Plain(req[r].event)
  BY <1>2 DEF UpdatesPlain
<1>3. ASSUME NEW s \in DOMAIN stream'["updated"] PROVE Plain(stream'["updated"][s])
  <2>1. CASE stream'["updated"] = log
    BY <1>1, <1>3, <2>1
  <2>2. ASSUME NEW r \in Requests, Updating(r), req[r].event \in Event,
               stream'["updated"] = Append(log, req[r].event)
        PROVE  Plain(stream'["updated"][s])
    <3>1. \/ s \in DOMAIN log /\ stream'["updated"][s] = log[s]
          \/ stream'["updated"][s] = req[r].event
      BY <1>0, <1>3, <2>2
    <3> QED
      BY <1>1, <1>2, <2>2, <3>1
  <2> QED
    BY <2>1, <2>2, UpdatedGrows
<1>4. ASSUME NEW r \in Requests, Updating(r)' PROVE Plain(req'[r].event)
  <2>1. CASE req'[r] = req[r]
    BY <1>2, <1>4, <2>1 DEF Updating
  <2> QED
    BY <1>4, <2>1, PlainStep
<1> QED
  BY <1>3, <1>4 DEF UpdatesPlain

(* auth-service listens for updates before anybody can make one.           *)
LEMMA UpdatesHeardStep ==
  ASSUME TInv, UpdatesHeard, [Next]_vars, faults = 0, faults' = 0
  PROVE  UpdatesHeard'
<1> DEFINE d == "auth-updated"
<1>0. /\ d \in Durables /\ SubjectOf[d] = "updated" /\ ReaderOf[d] = "auth"
      /\ req \in [Requests -> Request]
  BY Statics DEF Durables, TInv, TypeOK
<1>1. Exists(cons[d]) => Exists(cons'[d])
  <2>1. cons[d].next \in Nat /\ cons[d].next <= cons'[d].next /\ cons'[d].next \in Nat
    <3>1. TInv'
      BY TInvStep
    <3> QED
      BY <1>0, <3>1, DurablesForward DEF TInv, TypeOK, Consumer
  <2> QED
    BY <2>1 DEF Exists
<1>2. ListenAuth => Exists(cons'[d])
  BY <1>0, DurableSteps, DurablePersists DEF ListenAuth
<1>3. phase'["auth"] = "listening" => Exists(cons'[d])
  BY <1>1, <1>2, PhaseStep DEF UpdatesHeard
<1>4. bearer' => Exists(cons'[d])
  BY <1>1, PhaseStep DEF UpdatesHeard
<1>5. ASSUME ~ bearer'
      PROVE  stream'["updated"] = << >> /\ \A r \in Requests : req'[r].subject # "updated"
  <2>1. ~ bearer
    BY <1>5, PhaseStep
  <2>2. stream["updated"] = << >> /\ \A r \in Requests : req[r].subject # "updated"
    BY <2>1 DEF UpdatesHeard
  <2>3. stream'["updated"] = << >>
    BY <2>2, UpdatedGrows DEF Updating
  <2>4. ASSUME NEW r \in Requests, req'[r].subject = "updated" PROVE FALSE
    <3>1. req'[r] \notin {req[r], Idle}
      BY <2>2, <2>4 DEF Idle
    <3>2. PICK p \in Requests :
            /\ \A q \in Requests \ {p} : req'[q] = req[q]
            /\ \/ \E n \in Names : Register(p, n)
               \/ InsertCredential(p)
               \/ DeleteProfile(p)
               \/ \E u \in Users : \E e \in Event : e.id = u /\ Update(p, u, e)
               \/ \E u \in Users : FindForDelete(p, u)
      BY <3>1, RequestSteps
    <3>3. p = r
      BY <3>1, <3>2
    <3>4. ~ (\E u \in Users : \E e \in Event : e.id = u /\ Update(p, u, e))
          /\ ~ (\E u \in Users : FindForDelete(p, u))
      BY <2>1 DEF Update, FindForDelete, Serving
    <3>5. CASE \E n \in Names : Register(p, n)
      <4>1. \E e : req' = [req EXCEPT ![p] = [at |-> "insert", subject |-> "created", event |-> e]]
        BY <3>5 DEF Register
      <4> QED
        BY <1>0, <2>4, <3>3, <4>1
    <3>6. CASE InsertCredential(p)
      <4>1. \E e : req' = [req EXCEPT ![p] = [at |-> "publish", subject |-> "created", event |-> e]]
        BY <3>6 DEF InsertCredential
      <4> QED
        BY <1>0, <2>4, <3>3, <4>1
    <3>7. CASE DeleteProfile(p)
      <4>1. req'[p] = [req[p] EXCEPT !.at = "publish"] /\ req[p] \in Request
        BY <1>0, <3>7 DEF DeleteProfile
      <4>2. req'[p].subject = req[p].subject
        BY <4>1 DEF Request
      <4> QED
        BY <2>2, <2>4, <3>3, <4>2
    <3> QED
      BY <3>2, <3>4, <3>5, <3>6, <3>7
  <2> QED
    BY <2>3, <2>4
<1> QED
  BY <1>3, <1>4, <1>5 DEF UpdatesHeard

(* A row of credentials appears under a fresh id.                          *)
LEMMA RowAppears ==
  ASSUME TInv, [Next]_vars, NEW u \in Users, cred[u] = Absent, cred'[u] # Absent
  PROVE  u \notin issued /\ (StartAuthSeeding \/ \E r \in Requests : InsertCredential(r))
<1>0. cred \in [Users -> Row \union {Absent}]
  BY DEF TInv, TypeOK
<1>1. ~ StartAuth
  BY DEF StartAuth
<1>2. \A s : ~ HandleUserUpdated(s) /\ ~ HandleUserDeleted(s)
  BY <1>0 DEF HandleUserUpdated, HandleUserDeleted
<1>3. StartAuthSeeding => u \notin issued
  BY <1>0 DEF StartAuthSeeding
<1>4. \A r \in Requests : InsertCredential(r) => u \notin issued
  BY <1>0 DEF InsertCredential
<1> QED
  BY <1>1, <1>2, <1>3, <1>4, CredentialWriters

(* Without faults auth-service starts once.                                *)
LEMMA StartsOnceStep ==
  ASSUME TInv, AuthQuiet, StartsOnce, [Next]_vars, faults = 0, faults' = 0
  PROVE  StartsOnce'
<1>1. ASSUME phase'["auth"] = "down", NEW u \in Users PROVE cred'[u] = Absent
  <2>1. phase["auth"] = "down" /\ ~ StartAuth /\ ~ StartAuthSeeding
    BY <1>1, PhaseStep
  <2>2. cred[u] = Absent
    BY <2>1 DEF StartsOnce
  <2>3. \A r \in Requests : ~ InsertCredential(r)
    BY <2>1 DEF AuthQuiet, InsertCredential, TInv, EventsWhole
  <2> QED
    BY <2>1, <2>2, <2>3, RowAppears
<1>2. bearer' => phase'["auth"] = "listening"
  BY PhaseStep DEF StartsOnce
<1> QED
  BY <1>1, <1>2 DEF StartsOnce

(* user-service tells nothing about an id before it has made the profile   *)
(* from the event that announced the id.                                   *)
LEMMA UntouchedStep ==
  ASSUME TInv, ProfilesTold, [Next]_vars, NEW u \in Users, ~ Touched(u),
         \A t \in DOMAIN stream["created"] :
            stream["created"][t].id = u => ~ (t < cons["user-created"].next)
  PROVE  ~ Touched(u)'
<1>0. stream["updated"] \in Seq(Event)
  BY DEF TInv, TypeOK, Subjects
<1>1. ASSUME NEW s \in DOMAIN stream'["updated"], stream'["updated"][s].id = u PROVE FALSE
  <2>1. ASSUME NEW r \in Requests, Updating(r), req[r].event \in Event,
               stream'["updated"] = Append(stream["updated"], req[r].event)
        PROVE  FALSE
    <3>1. \/ s \in DOMAIN stream["updated"] /\ stream'["updated"][s] = stream["updated"][s]
          \/ stream'["updated"][s] = req[r].event
      BY <1>0, <1>1, <2>1
    <3> QED
      BY <1>1, <2>1, <3>1 DEF Touched
  <2>2. CASE stream'["updated"] = stream["updated"]
    BY <1>1, <2>2 DEF Touched
  <2> QED
    BY <2>1, <2>2, UpdatedGrows
<1>2. ASSUME NEW r \in Requests, Updating(r)', req'[r].event.id = u PROVE FALSE
  <2>1. CASE req'[r] = req[r]
    BY <1>2, <2>1 DEF Touched, Updating
  <2>2. ASSUME NEW e \in Event, Update(r, u, e) PROVE FALSE
    <3>1. HasProfile(u)
      BY <2>2 DEF Update, HasProfile
    <3> QED
      BY <3>1 DEF ProfilesTold
  <2> QED
    BY <1>2, <2>1, <2>2, UpdatingStep
<1> QED
  BY <1>1, <1>2 DEF Touched

(* The role of a credential that user-service has told nothing about.      *)
LEMMA RoleStays ==
  ASSUME TInv, StartsOnce, [Next]_vars, NEW u \in Users, ~ Touched(u),
         cred[u] # Absent, cred'[u] # Absent, u \in issued
  PROVE  cred'[u].role = cred[u].role
<1>0. cred \in [Users -> Row \union {Absent}]
  BY DEF TInv, TypeOK
<1>1. ~ StartAuth
  BY DEF StartAuth, StartsOnce
<1>2. StartAuthSeeding => cred'[u] = cred[u]
  BY <1>0 DEF StartAuthSeeding
<1>3. \A r \in Requests : InsertCredential(r) => cred'[u] = cred[u]
  BY <1>0 DEF InsertCredential
<1>4. ASSUME NEW s, HandleUserUpdated(s) PROVE cred'[u] = cred[u]
  <2>1. s \in DOMAIN stream["updated"]
    BY <1>4, DurableSteps, Statics DEF HandleUserUpdated, Receives, Durables
  <2>2. stream["updated"][s].id # u
    BY <2>1 DEF Touched
  <2> QED
    BY <1>0, <1>4, <2>2 DEF HandleUserUpdated
<1>5. ASSUME NEW s, HandleUserDeleted(s) PROVE cred'[u] = cred[u]
  BY <1>0, <1>5 DEF HandleUserDeleted
<1> QED
  BY <1>1, <1>2, <1>3, <1>4, <1>5, CredentialWriters

(* A newcomer that user-service cannot have heard of stays one.            *)
LEMMA NewcomerStays ==
  ASSUME TInv, ProfilesTold, StartsOnce, IdsIssued, [Next]_vars,
         NEW e, e.id \in Users, e.id \in issued, Newcomer(e),
         \A t \in DOMAIN stream["created"] :
            stream["created"][t].id = e.id => ~ (t < cons["user-created"].next)
  PROVE  Newcomer(e)'
<1> DEFINE u == e.id
<1>1. ~ Touched(u) /\ (cred[u] # Absent => cred[u].role = e.role)
  BY DEF Newcomer
<1>2. ~ Touched(u)'
  BY <1>1, UntouchedStep
<1>3. ASSUME cred'[u] # Absent PROVE cred'[u].role = e.role
  <2>1. cred[u] # Absent
    BY <1>3, RowAppears
  <2> QED
    BY <1>1, <1>3, <2>1, RoleStays
<1> QED
  BY <1>2, <1>3 DEF Newcomer

(* user-service knows nothing about the accounts whose announcement it has *)
(* yet to read.                                                            *)
LEMMA NewcomersStep ==
  ASSUME TInv, TInv', IdsIssued, CreatedOnce, ProfilesTold, UpdatesHeard, StartsOnce, Newcomers,
         [Next]_vars
  PROVE  Newcomers'
<1> DEFINE log == stream["created"]
           c == cons["user-created"]
<1>0. /\ log \in Seq(Event) /\ stream \in [Subjects -> Seq(Event)]
      /\ cred \in [Users -> Row \union {Absent}] /\ req \in [Requests -> Request]
      /\ c.next \in Nat /\ c.next <= cons'["user-created"].next
      /\ cons'["user-created"].next \in Nat /\ "created" \in Subjects
  BY DurablesForward DEF TInv, TypeOK, Subjects, Durables, Consumer
<1>1. /\ \A s \in DOMAIN log : log[s].id \in Users /\ log[s].id \in issued
      /\ \A s, t \in DOMAIN log : log[s].id = log[t].id => s = t
  BY DEF TInv, EventsWhole, Whole, IdsIssued, CreatedOnce, Subjects
<1>2. ASSUME NEW r \in Requests, Announcing(r)
      PROVE  /\ req[r].event.id \in Users /\ req[r].event.id \in issued
             /\ Newcomer(req[r].event)
             /\ \A s \in DOMAIN log : log[s].id # req[r].event.id
  BY <1>2 DEF TInv, EventsWhole, Whole, IdsIssued, CreatedOnce, Announcing, Newcomers
<1>3. ASSUME NEW e, NEW r \in Requests, Announcing(r), e = req[r].event PROVE Newcomer(e)'
  BY <1>2, <1>3, NewcomerStays
<1>4. ASSUME NEW e, AnnounceAdmin, stream'["created"] = Append(log, e), e.id \in Users,
             e.role = cred[e.id].role
      PROVE  Newcomer(e)'
  <2>1. ~ bearer /\ stream'["updated"] = stream["updated"] /\ UNCHANGED <<cred, req>>
    BY <1>0, <1>4 DEF AnnounceAdmin, StartsOnce
  <2>2. stream'["updated"] = << >> /\ \A r \in Requests : req'[r].subject # "updated"
    BY <2>1 DEF UpdatesHeard
  <2>3. ~ Touched(e.id)'
    BY <2>2 DEF Touched, Updating
  <2> QED
    BY <1>4, <2>1, <2>3 DEF Newcomer
<1>5. ASSUME NEW s \in DOMAIN log, s >= cons'["user-created"].next, NEW e, e = log[s]
      PROVE  Newcomer(e)'
  <2>1. s \in Nat /\ s >= c.next
    BY <1>0, <1>5
  <2>2. Newcomer(e)
    BY <1>5, <2>1 DEF Newcomers
  <2>3. \A t \in DOMAIN log : log[t].id = e.id => ~ (t < c.next)
    BY <1>0, <1>1, <1>5, <2>1
  <2> QED
    BY <1>1, <1>5, <2>2, <2>3, NewcomerStays
<1>6. ASSUME NEW s \in DOMAIN stream'["created"], s >= cons'["user-created"].next,
             NEW e, e = stream'["created"][s]
      PROVE  Newcomer(e)'
  <2>1. CASE stream'["created"] = log
    BY <1>5, <1>6, <2>1
  <2>2. CASE AnnounceAdmin
    <3>1. PICK x : /\ stream'["created"] = Append(log, x) /\ x.id \in Users
                   /\ x.role = cred[x.id].role
      <4>1. PICK u \in Users : stream' = [stream EXCEPT !["created"] =
                          Append(@, [id |-> u, name |-> AdminName, role |-> cred[u].role])]
        BY <2>2 DEF AnnounceAdmin
      <4>2. PICK x : x = [id |-> u, name |-> AdminName, role |-> cred[u].role]
        OBVIOUS
      <4>3. stream'["created"] = Append(log, x) /\ x.id = u /\ x.role = cred[u].role
        BY <1>0, <4>1, <4>2
      <4> QED
        BY <4>3
    <3>2. (s \in DOMAIN log /\ e = log[s]) \/ e = x
      BY <1>0, <1>6, <3>1
    <3> QED
      BY <1>4, <1>5, <1>6, <2>2, <3>1, <3>2
  <2>3. ASSUME NEW r \in Requests, Publish(r), Announcing(r) PROVE Newcomer(e)'
    <3>1. stream'["created"] = Append(log, req[r].event)
      BY <1>0, <2>3 DEF Publish, Announcing
    <3>2. (s \in DOMAIN log /\ e = log[s]) \/ e = req[r].event
      BY <1>0, <1>6, <3>1
    <3> QED
      BY <1>3, <1>5, <1>6, <2>3, <3>2
  <2> QED
    BY <2>1, <2>2, <2>3, CreatedGrows
<1>7. ASSUME NEW r \in Requests, Announcing(r)', NEW e, e = req'[r].event PROVE Newcomer(e)'
  <2>1. CASE req'[r] = req[r]
    <3>1. Announcing(r) /\ e = req[r].event
      BY <1>7, <2>1 DEF Announcing
    <3> QED
      BY <1>3, <3>1
  <2>2. CASE InsertCredential(r)
    <3>1. PICK u \in Users \ issued :
            /\ cred' = [cred EXCEPT ![u] = [name |-> req[r].event.name, role |-> "user"]]
            /\ req' = [req EXCEPT ![r] = [at |-> "publish", subject |-> "created",
                          event |-> [id |-> u, name |-> req[r].event.name, role |-> "user"]]]
      BY <2>2 DEF InsertCredential
    <3>2. e.id = u /\ e.role = "user" /\ cred'[u].role = "user"
      BY <1>0, <1>7, <3>1
    <3>3. ~ Touched(u)
      BY <3>1 DEF Touched, Updating, IdsIssued, Subjects
    <3>4. \A t \in DOMAIN log : log[t].id # u
      BY <1>1, <3>1
    <3>5. ~ Touched(u)'
      BY <3>3, <3>4, UntouchedStep
    <3> QED
      BY <3>2, <3>5 DEF Newcomer
  <2> QED
    BY <1>7, <2>1, <2>2, AnnouncingStep
<1>8. ASSUME NEW s \in DOMAIN stream'["created"], s >= cons'["user-created"].next
      PROVE  Newcomer(stream["created"][s])'
  <2>1. PICK e : e = stream'["created"][s]
    OBVIOUS
  <2>2. Newcomer(e)'
    BY <1>6, <1>8, <2>1
  <2> QED
    BY <2>1, <2>2 DEF Newcomer, Touched, Updating
<1>9. ASSUME NEW r \in Requests, Announcing(r)' PROVE Newcomer(req[r].event)'
  <2>1. PICK e : e = req'[r].event
    OBVIOUS
  <2>2. Newcomer(e)'
    BY <1>7, <1>9, <2>1
  <2> QED
    BY <2>1, <2>2 DEF Newcomer, Touched, Updating
<1> QED
  BY <1>8, <1>9 DEF Newcomers

\* What auth-service gets a second time without faults are names it refused.
RefusedComeBack ==
  \A s \in cons["auth-updated"].again : stream["updated"][s].role = Absent

\* A role about to be published is the one in the table.
RolesAsPublished ==
  \A r \in Requests :
     Updating(r) /\ req[r].event.role # Absent /\ profile[req[r].event.id] # Absent
       => profile[req[r].event.id].role = req[r].event.role

\* A profile's role has reached the credential, or is on its way there with no
\* other role behind it.
RolesDue ==
  \A u \in Users :
     \/ cred[u] = Absent
     \/ profile[u] = Absent
     \/ \E r \in Requests : Updating(r) /\ RoleEvent(req[r].event, u)
     \/ RoleDue(u, profile[u].role)

RolesFollow == RefusedComeBack /\ RolesAsPublished /\ RolesDue

\* Two role changes of one account are not between UPDATE and publish together.
RolesInTurn ==
  \A r, q \in Requests :
     /\ Updating(r) /\ Updating(q)
     /\ req[r].event.role # Absent /\ req[q].event.role # Absent
     /\ req[r].event.id = req[q].event.id
     => r = q

(* What auth-service reads of user.updated, and where its durable is then. *)
LEMMA UpdatedReads ==
  ASSUME TInv, NEW s, HandleUserUpdated(s) \/ RefuseUserUpdated(s)
  PROVE  LET c == cons["auth-updated"]  c2 == cons'["auth-updated"] IN
         /\ s \in DOMAIN stream["updated"] /\ s \in Nat /\ c.next \in Nat
         /\ \/ s = c.next /\ c2.next = s + 1
            \/ s \in c.again /\ s < c.next /\ c2.next = c.next
         /\ HandleUserUpdated(s) => c2.again = c.again \ {s}
         /\ RefuseUserUpdated(s) => c2.again = c.again \union {s}
<1> DEFINE d == "auth-updated"
           c == cons[d]
           log == stream["updated"]
<1>1. /\ d \in Durables /\ SubjectOf[d] = "updated"
      /\ cons \in [Durables -> Consumer] /\ log \in Seq(Event)
      /\ c \in DurableOf(log)
  BY Statics, DurableSteps DEF Durables, TInv, TypeOK, Subjects
<1>2. /\ s \in Deliverable(c, log)
      /\ HandleUserUpdated(s) => cons'[d] = Receive(c, s)
      /\ RefuseUserUpdated(s) => cons'[d] = Return(Receive(c, s))
  BY <1>1 DEF HandleUserUpdated, RefuseUserUpdated, Receives
<1>3. s \in DOMAIN log /\ s \in Nat /\ c \in Consumer /\ \A t \in c.again : t < c.next
  BY <1>1, <1>2, DurableSteps DEF DurableOf
<1>4. \/ s = c.next /\ Receive(c, s).next = s + 1
      \/ s \in c.again /\ s < c.next /\ Receive(c, s).next = c.next
  BY <1>1, <1>2, <1>3 DEF Deliverable, Receive, Consumer
<1>5. /\ Receive(c, s).again = c.again \ {s}
      /\ Return(Receive(c, s)).again = c.again \union {s}
      /\ Return(Receive(c, s)).next = Receive(c, s).next
  BY <1>3 DEF Receive, Return, Consumer
<1> QED
  BY <1>2, <1>3, <1>4, <1>5 DEF Consumer

(* Only a name is refused.                                                 *)
LEMMA RefusedIsName ==
  ASSUME TInv, UpdatesPlain, NEW s, RefuseUserUpdated(s)
  PROVE  stream["updated"][s].role = Absent
<1>1. s \in DOMAIN stream["updated"] /\ cred \in [Users -> Row \union {Absent}]
  BY UpdatedReads DEF TInv, TypeOK
<1>2. PICK v \in Users : cred[v] # Absent /\ cred[v].name = stream["updated"][s].name
  BY DEF RefuseUserUpdated, TakenByOther
<1>3. stream["updated"][s].name # Absent
  BY <1>1, <1>2, AbsentIsNoField DEF Row
<1> QED
  BY <1>1, <1>3 DEF UpdatesPlain

LEMMA RefusedComeBackStep ==
  ASSUME TInv, UpdatesPlain, RefusedComeBack, [Next]_vars, faults = 0, faults' = 0
  PROVE  RefusedComeBack'
<1> DEFINE d == "auth-updated"
           log == stream["updated"]
<1>0. log \in Seq(Event) /\ cons[d] \in DurableOf(log)
  BY Statics, DurableSteps DEF Durables
<1>1. \A s \in cons[d].again : s \in DOMAIN log /\ log[s].role = Absent
  BY <1>0 DEF RefusedComeBack, DurableOf, Consumer
<1>2. \A s \in DOMAIN log : stream'["updated"][s] = log[s]
  BY EventsStayStep DEF EventsStay, Subjects
<1>3. ASSUME NEW s \in cons'[d].again PROVE s \in DOMAIN log /\ log[s].role = Absent
  <2>1. CASE cons'[d].again = cons[d].again
    BY <1>1, <1>3, <2>1
  <2>2. CASE ListenAuth
    <3>1. cons'[d] = SubscribeNew(cons[d], log)
      BY <2>2, Statics DEF ListenAuth, Durables
    <3>2. SubscribeNew(cons[d], log).again = cons[d].again
      BY <1>0 DEF SubscribeNew, DurableOf, Consumer
    <3> QED
      BY <1>1, <1>3, <3>1, <3>2
  <2>3. ASSUME NEW t, HandleUserUpdated(t) PROVE s \in DOMAIN log /\ log[s].role = Absent
    BY <1>1, <1>3, <2>3, UpdatedReads
  <2>4. ASSUME NEW t, RefuseUserUpdated(t) PROVE s \in DOMAIN log /\ log[s].role = Absent
    BY <1>1, <1>3, <2>4, UpdatedReads, RefusedIsName
  <2> QED
    BY <2>1, <2>2, <2>3, <2>4, UpdatedDurable
<1> QED
  BY <1>2, <1>3 DEF RefusedComeBack

(* Without faults the event that makes a profile is read for the first     *)
(* time, and then it announces a newcomer.                                 *)
LEMMA MadeFromNewcomer ==
  ASSUME TInv, Newcomers, cons["user-created"].again = {}, NEW s, HandleUserCreated(s)
  PROVE  Newcomer(stream["created"][s])
BY CreatedHandled DEF Newcomers, TInv, TypeOK, Durables, Consumer

(* While role changes take turns nobody changes the role in between.       *)
LEMMA RolesAsPublishedStep ==
  ASSUME RolesInTurn',
         TInv, Newcomers, cons["user-created"].again = {}, RolesAsPublished, [Next]_vars
  PROVE  RolesAsPublished'
<1> SUFFICES ASSUME NEW r \in Requests, Updating(r)', req'[r].event.role # Absent,
                    profile'[req'[r].event.id] # Absent
             PROVE  profile'[req'[r].event.id].role = req'[r].event.role
  BY DEF RolesAsPublished
<1>0. profile \in [Users -> Row \union {Absent}] /\ req \in [Requests -> Request]
  BY DEF TInv, TypeOK
<1>1. CASE req'[r] = req[r]
  <2> DEFINE e == req[r].event
  <2>1. Updating(r) /\ e.id \in Users
    BY <1>1 DEF Updating, TInv, EventsWhole, Whole
  <2>2. CASE profile'[e.id] = profile[e.id]
    BY <1>1, <2>1, <2>2 DEF RolesAsPublished
  <2>3. ASSUME NEW p \in Requests, NEW u \in Users, NEW x \in Event, x.id = u, Update(p, u, x)
        PROVE  profile'[e.id].role = e.role
    <3>1. CASE u # e.id
      <4>1. profile'[e.id] = profile[e.id]
        BY <1>0, <2>1, <2>3, <3>1 DEF Update
      <4> QED
        BY <1>1, <2>1, <4>1 DEF RolesAsPublished
    <3>2. CASE u = e.id /\ x.role = Absent
      <4>1. profile[e.id] # Absent /\ profile'[e.id].role = profile[e.id].role
        BY <1>0, <2>1, <2>3, <3>2 DEF Update, Patched
      <4> QED
        BY <1>1, <2>1, <4>1 DEF RolesAsPublished
    <3>3. ASSUME u = e.id, x.role # Absent PROVE FALSE
      <4>1. p # r
        BY <2>1, <2>3 DEF Update, Serving, Updating
      <4>2. req'[p] = [at |-> "publish", subject |-> "updated", event |-> x]
        BY <1>0, <2>3 DEF Update
      <4> QED
        BY <1>1, <2>3, <3>3, <4>1, <4>2 DEF RolesInTurn, Updating
    <3> QED
      BY <3>1, <3>2, <3>3
  <2>4. ASSUME NEW p \in Requests, DeleteProfile(p)
        PROVE  profile'[e.id] = profile[e.id]
    <3>1. req[p].event.id # e.id
      BY <1>0, <1>1, <2>1, <2>4 DEF DeleteProfile
    <3> QED
      BY <1>0, <2>1, <2>4, <3>1 DEF DeleteProfile
  <2>5. ASSUME NEW s, HandleUserCreated(s), profile'[e.id] # profile[e.id] PROVE FALSE
    <3>1. stream["created"][s].id = e.id
      BY <1>0, <2>1, <2>5 DEF HandleUserCreated
    <3>2. ~ Touched(e.id)
      BY <2>5, <3>1, MadeFromNewcomer DEF Newcomer
    <3> QED
      BY <2>1, <3>2 DEF Touched
  <2> QED
    <3>1. CASE \E p \in Requests, u \in Users, x \in Event : x.id = u /\ Update(p, u, x)
      BY <1>1, <2>3, <3>1
    <3>2. CASE \E p \in Requests : DeleteProfile(p)
      BY <2>2, <2>4, <3>2
    <3>3. CASE \E s \in Numbers : HandleUserCreated(s)
      BY <2>2, <2>5, <3>3
    <3>4. CASE UNCHANGED profile
      BY <2>2, <3>4
    <3> QED
      BY <3>1, <3>2, <3>3, <3>4, ProfileWriters
<1>2. ASSUME NEW u \in Users, NEW e \in Event, e.id = u, Update(r, u, e), req'[r].event = e
      PROVE  profile'[req'[r].event.id].role = req'[r].event.role
  <2>1. profile'[u] = Patched(profile[u], e)
    BY <1>0, <1>2 DEF Update
  <2> QED
    BY <1>2, <2>1 DEF Patched
<1> QED
  BY <1>1, <1>2, UpdatingStep

(* What is due stays due while no role is published or read.               *)
LEMMA DueStays ==
  ASSUME TInv, [Next]_vars, NEW u \in Users, NEW x, RoleDue(u, x),
         cred'[u].role = cred[u].role,
         \A s \in DOMAIN stream'["updated"] :
            Awaited(u, s)' <=> s \in DOMAIN stream["updated"] /\ Awaited(u, s)
  PROVE  RoleDue(u, x)'
<1>1. \A s \in DOMAIN stream["updated"] :
        s \in DOMAIN stream'["updated"] /\ stream'["updated"][s] = stream["updated"][s]
  BY EventsStayStep DEF EventsStay, Subjects
<1>2. CASE (\A s \in DOMAIN stream["updated"] : ~ Awaited(u, s)) /\ x = cred[u].role
  <2>1. \A s \in DOMAIN stream'["updated"] : ~ Awaited(u, s)'
    BY <1>2
  <2> QED
    BY <1>2, <2>1 DEF RoleDue
<1>3. ASSUME NEW s \in DOMAIN stream["updated"], Awaited(u, s),
             \A t \in DOMAIN stream["updated"] : Awaited(u, t) => t <= s,
             x = stream["updated"][s].role
      PROVE  RoleDue(u, x)'
  <2>1. s \in DOMAIN stream'["updated"] /\ Awaited(u, s)' /\ x = stream'["updated"][s].role
    BY <1>1, <1>3
  <2>2. \A t \in DOMAIN stream'["updated"] : Awaited(u, t)' => t <= s
    BY <1>3
  <2> QED
    BY <2>1, <2>2 DEF RoleDue
<1> QED
  BY <1>2, <1>3 DEF RoleDue

(* Publishing the table's role makes it the last one on its way.           *)
LEMMA PublishedIsDue ==
  ASSUME TInv, NEW r \in Requests, Publish(r), Updating(r), NEW u, NEW x,
         RoleEvent(req[r].event, u), x = req[r].event.role
  PROVE  RoleDue(u, x)'
<1> DEFINE log == stream["updated"]
           e == req[r].event
<1>0. log \in Seq(Event) /\ e \in Event /\ "auth-updated" \in Durables
  BY DEF TInv, TypeOK, Subjects, Request, Durables
<1>1. stream'["updated"] = Append(log, e) /\ UNCHANGED cons
  BY DEF Publish, Updating, TInv, TypeOK, Subjects
<1>2. PICK n : n = Len(log) + 1
  OBVIOUS
<1>3. cons["auth-updated"].next \in Nat /\ cons["auth-updated"].next <= n
  BY <1>0, <1>2, Statics, DurableSteps DEF DurableOf, Consumer
<1>4. /\ n \in DOMAIN stream'["updated"] /\ stream'["updated"][n] = e
      /\ \A t \in DOMAIN stream'["updated"] : t <= n
  BY <1>0, <1>1, <1>2
<1>5. Awaited(u, n)'
  BY <1>0, <1>1, <1>2, <1>3, <1>4 DEF Awaited, RoleEvent
<1> QED
  BY <1>4, <1>5 DEF RoleDue

(* Reading the last role on its way gives it to the credential.            *)
LEMMA DueIsRead ==
  ASSUME TInv, UpdatesPlain, RefusedComeBack, [Next]_vars, NEW u \in Users, cred[u] # Absent,
         NEW s, HandleUserUpdated(s), NEW x, RoleDue(u, x)
  PROVE  RoleDue(u, x)'
<1> DEFINE log == stream["updated"]
           c == cons["auth-updated"]
           c2 == cons'["auth-updated"]
           e == log[s]
<1>0. /\ cred \in [Users -> Row \union {Absent}] /\ log \in Seq(Event)
      /\ UNCHANGED stream
  BY DEF TInv, TypeOK, Subjects, HandleUserUpdated
<1>1. /\ s \in DOMAIN log /\ s \in Nat /\ c.next \in Nat
      /\ \/ s = c.next /\ c2.next = s + 1
         \/ s \in c.again /\ s < c.next /\ c2.next = c.next
  BY UpdatedReads
<1>2. \A t \in DOMAIN log : t # s => (Awaited(u, t)' <=> Awaited(u, t))
  BY <1>0, <1>1 DEF Awaited
<1>3. ~ Awaited(u, s)'
  <2>1. s \in c.again => log[s].role = Absent
    BY DEF RefusedComeBack
  <2> QED
    BY <1>0, <1>1, <2>1 DEF Awaited, RoleEvent
<1>4. CASE ~ RoleEvent(e, u)
  <2>1. cred'[u].role = cred[u].role
    <3>1. CASE e.id # u
      BY <1>0, <3>1 DEF HandleUserUpdated
    <3>2. CASE e.id = u /\ e.role = Absent
      <4>1. cred'[u] = Patched(cred[u], e)
        BY <1>0, <3>2 DEF HandleUserUpdated
      <4> QED
        BY <3>2, <4>1 DEF Patched
    <3> QED
      BY <1>4, <3>1, <3>2 DEF RoleEvent
  <2>2. ~ Awaited(u, s)
    BY <1>4 DEF Awaited
  <2>3. \A t \in DOMAIN stream'["updated"] : Awaited(u, t)' <=> t \in DOMAIN log /\ Awaited(u, t)
    BY <1>0, <1>2, <1>3, <2>2
  <2> QED
    BY <2>1, <2>3, DueStays
<1>5. CASE RoleEvent(e, u)
  <2>1. s = c.next /\ Awaited(u, s)
    BY <1>1, <1>5 DEF RefusedComeBack, RoleEvent, Awaited
  <2>2. cred'[u] = Patched(cred[u], e) /\ cred'[u].role = e.role
    BY <1>0, <1>5 DEF HandleUserUpdated, RoleEvent, Patched
  <2>3. PICK m \in DOMAIN log : /\ Awaited(u, m) /\ x = log[m].role
                               /\ \A t \in DOMAIN log : Awaited(u, t) => t <= m
    BY <1>1, <2>1 DEF RoleDue
  <2>4. CASE m = s
    <3>1. \A t \in DOMAIN log : ~ Awaited(u, t)'
      <4> SUFFICES ASSUME NEW t \in DOMAIN log, t # s, Awaited(u, t) PROVE FALSE
        BY <1>2, <1>3
      <4> QED
        BY <1>0, <1>1, <2>1, <2>3, <2>4 DEF Awaited
    <3> QED
      BY <1>0, <2>2, <2>3, <2>4, <3>1 DEF RoleDue
  <2>5. CASE m # s
    <3>1. Awaited(u, m)' /\ \A t \in DOMAIN log : Awaited(u, t)' => t <= m
      BY <1>2, <1>3, <2>3, <2>5
    <3> QED
      BY <1>0, <2>3, <3>1 DEF RoleDue
  <2> QED
    BY <2>4, <2>5
<1> QED
  BY <1>4, <1>5

(* A refused message is a name: no role that is due moves.                 *)
LEMMA RefusalKeepsDue ==
  ASSUME TInv, UpdatesPlain, [Next]_vars, NEW u \in Users, NEW s, RefuseUserUpdated(s),
         NEW x, RoleDue(u, x)
  PROVE  RoleDue(u, x)'
<1> DEFINE c == cons["auth-updated"]
           c2 == cons'["auth-updated"]
<1>0. UNCHANGED <<cred, stream>> /\ stream["updated"] \in Seq(Event)
  BY DEF RefuseUserUpdated, TInv, TypeOK, Subjects
<1>1. /\ s \in DOMAIN stream["updated"] /\ s \in Nat /\ c.next \in Nat
      /\ \/ s = c.next /\ c2.next = s + 1
         \/ s \in c.again /\ s < c.next /\ c2.next = c.next
  BY UpdatedReads
<1>2. stream["updated"][s].role = Absent
  BY RefusedIsName
<1>3. \A t \in DOMAIN stream["updated"] : Awaited(u, t)' <=> Awaited(u, t)
  BY <1>0, <1>1, <1>2 DEF Awaited, RoleEvent
<1> QED
  BY <1>0, <1>3, DueStays

(* Subscribing anew moves nothing either: auth-service's durable exists, or *)
(* nobody has told anything yet.                                           *)
LEMMA ListeningKeepsDue ==
  ASSUME TInv, UpdatesHeard, [Next]_vars, ListenAuth, NEW u \in Users, NEW x, RoleDue(u, x)
  PROVE  RoleDue(u, x)'
<1>0. UNCHANGED <<cred, stream>>
  BY DEF ListenAuth
<1>1. cons'["auth-updated"] = SubscribeNew(cons["auth-updated"], stream["updated"])
  BY Statics DEF ListenAuth, Durables
<1>2. Exists(cons["auth-updated"]) \/ stream["updated"] = << >>
  BY DEF UpdatesHeard
<1>3. \A t \in DOMAIN stream'["updated"] :
         Awaited(u, t)' <=> t \in DOMAIN stream["updated"] /\ Awaited(u, t)
  BY <1>0, <1>1, <1>2 DEF Awaited, SubscribeNew
<1> QED
  BY <1>0, <1>3, DueStays

(* So is what is due after any other step, if no role is published.        *)
LEMMA OthersKeepDue ==
  ASSUME TInv, IdsIssued, StartsOnce, [Next]_vars, NEW u \in Users, NEW x, RoleDue(u, x),
         cred[u] # Absent, cred'[u] # Absent,
         cons'["auth-updated"].next = cons["auth-updated"].next,
         \A s : ~ HandleUserUpdated(s),
         \A r \in Requests : Publish(r) /\ Updating(r) => ~ RoleEvent(req[r].event, u)
  PROVE  RoleDue(u, x)'
<1>0. /\ cred \in [Users -> Row \union {Absent}] /\ stream["updated"] \in Seq(Event)
      /\ u \in issued
  BY DEF TInv, TypeOK, Subjects, IdsIssued
<1>1. cred'[u] = cred[u]
  <2>1. ~ StartAuth
    BY DEF StartAuth, StartsOnce
  <2>2. StartAuthSeeding => cred'[u] = cred[u]
    BY <1>0 DEF StartAuthSeeding
  <2>3. \A r \in Requests : InsertCredential(r) => cred'[u] = cred[u]
    BY <1>0 DEF InsertCredential
  <2>4. \A s : HandleUserDeleted(s) => cred'[u] = cred[u]
    BY <1>0 DEF HandleUserDeleted
  <2> QED
    BY <2>1, <2>2, <2>3, <2>4, CredentialWriters
<1>2. ASSUME NEW t \in DOMAIN stream'["updated"]
      PROVE  Awaited(u, t)' <=> t \in DOMAIN stream["updated"] /\ Awaited(u, t)
  <2>1. CASE stream'["updated"] = stream["updated"]
    BY <1>2, <2>1 DEF Awaited
  <2>2. ASSUME NEW r \in Requests, Publish(r), Updating(r), req[r].event \in Event,
               stream'["updated"] = Append(stream["updated"], req[r].event)
        PROVE  Awaited(u, t)' <=> t \in DOMAIN stream["updated"] /\ Awaited(u, t)
    <3>1. CASE t \in DOMAIN stream["updated"]
      <4>1. stream'["updated"][t] = stream["updated"][t]
        BY <1>0, <2>2, <3>1
      <4> QED
        BY <3>1, <4>1 DEF Awaited
    <3>2. CASE t \notin DOMAIN stream["updated"]
      <4>1. stream'["updated"][t] = req[r].event
        BY <1>0, <1>2, <2>2, <3>2
      <4>2. ~ RoleEvent(req[r].event, u)
        BY <2>2
      <4> QED
        BY <3>2, <4>1, <4>2 DEF Awaited
    <3> QED
      BY <3>1, <3>2
  <2> QED
    BY <2>1, <2>2, UpdatedGrows
<1> QED
  BY <1>1, <1>2, DueStays

(* The role of a profile changes only by an update that is about to be told. *)
LEMMA ProfileRoleStays ==
  ASSUME TInv, [Next]_vars, NEW u \in Users, profile[u] # Absent, profile'[u] # Absent,
         \A r \in Requests : ~ (Updating(r)' /\ RoleEvent(req'[r].event, u))
  PROVE  profile'[u].role = profile[u].role
<1>0. profile \in [Users -> Row \union {Absent}] /\ req \in [Requests -> Request]
  BY DEF TInv, TypeOK
<1>1. ASSUME NEW r \in Requests, NEW v \in Users, NEW e \in Event, e.id = v, Update(r, v, e)
      PROVE  profile'[u].role = profile[u].role
  <2>1. CASE v # u
    BY <1>0, <1>1, <2>1 DEF Update
  <2>2. CASE v = u
    <3>1. req'[r] = [at |-> "publish", subject |-> "updated", event |-> e]
      BY <1>0, <1>1 DEF Update
    <3>2. e.role = Absent
      BY <1>1, <2>2, <3>1 DEF Updating, RoleEvent
    <3>3. profile'[u] = Patched(profile[u], e)
      BY <1>0, <1>1, <2>2 DEF Update
    <3> QED
      BY <3>2, <3>3 DEF Patched
  <2> QED
    BY <2>1, <2>2
<1>2. \A r \in Requests : DeleteProfile(r) => profile'[u] = profile[u]
  BY <1>0 DEF DeleteProfile
<1>3. \A s : HandleUserCreated(s) => profile'[u] = profile[u]
  BY <1>0 DEF HandleUserCreated
<1> QED
  BY <1>1, <1>2, <1>3, ProfileWriters

(* The role of every profile goes on reaching its credential.              *)
LEMMA RolesDueStep ==
  ASSUME TInv, IdsIssued, StartsOnce, UpdatesHeard, UpdatesPlain, Newcomers, RolesFollow,
         cons["user-created"].again = {}, [Next]_vars, faults = 0, faults' = 0
  PROVE  RolesDue'
<1> SUFFICES ASSUME NEW u \in Users, cred'[u] # Absent, profile'[u] # Absent,
                    \A r \in Requests : ~ (Updating(r)' /\ RoleEvent(req'[r].event, u)),
                    NEW x, x = profile'[u].role
             PROVE  RoleDue(u, x)'
  <2>1. ASSUME NEW u \in Users, cred'[u] # Absent, profile'[u] # Absent,
               \A r \in Requests : ~ (Updating(r)' /\ RoleEvent(req'[r].event, u))
        PROVE  RoleDue(u, profile[u].role)'
    <3>1. PICK x : x = profile'[u].role
      OBVIOUS
    <3>2. RoleDue(u, x)'
      BY <2>1, <3>1
    <3> QED
      BY <3>1, <3>2 DEF RoleDue
  <2> QED
    BY <2>1 DEF RolesDue, Updating
<1>0. RefusedComeBack /\ RolesAsPublished /\ RolesDue
  BY DEF RolesFollow
<1>1. CASE profile[u] = Absent
  <2>1. PICK s : HandleUserCreated(s) /\ stream["created"][s].id = u
    BY <1>1, ProfileAppears
  <2>2. ~ Touched(u) /\ (cred[u] # Absent => cred[u].role = stream["created"][s].role)
    BY <2>1, MadeFromNewcomer DEF Newcomer
  <2>3. UNCHANGED <<cred, stream>>
    BY <2>1 DEF HandleUserCreated
  <2>4. x = stream["created"][s].role
    BY <1>1, <2>1 DEF HandleUserCreated, TInv, TypeOK
  <2>5. \A t \in DOMAIN stream'["updated"] : ~ Awaited(u, t)'
    BY <2>2, <2>3 DEF Touched, Awaited, RoleEvent
  <2> QED
    BY <2>2, <2>3, <2>4, <2>5 DEF RoleDue
<1>2. CASE profile[u] # Absent
  <2>0. cred[u] # Absent
    BY <1>2, RowAppears DEF IdsIssued
  <2>1. x = profile[u].role
    BY <1>2, ProfileRoleStays
  <2>2. ASSUME NEW r \in Requests, Updating(r), RoleEvent(req[r].event, u)
        PROVE  RoleDue(u, x)'
    <3>1. Publish(r)
      BY <2>2, RequestsEnd DEF Updating
    <3>2. x = req[r].event.role
      BY <1>0, <1>2, <2>1, <2>2 DEF RolesAsPublished, RoleEvent
    <3> QED
      BY <2>2, <3>1, <3>2, PublishedIsDue
  <2>3. CASE /\ RoleDue(u, profile[u].role)
             /\ \A r \in Requests : Updating(r) => ~ RoleEvent(req[r].event, u)
    <3>1. RoleDue(u, x)
      BY <2>1, <2>3
    <3>2. \A s : HandleUserUpdated(s) => RoleDue(u, x)'
      BY <1>0, <2>0, <3>1, DueIsRead
    <3>3. \A s : RefuseUserUpdated(s) => RoleDue(u, x)'
      BY <3>1, RefusalKeepsDue
    <3>4. ListenAuth => RoleDue(u, x)'
      BY <3>1, ListeningKeepsDue
    <3>5. CASE /\ cons'["auth-updated"].next = cons["auth-updated"].next
               /\ \A s : ~ HandleUserUpdated(s)
      BY <2>0, <2>3, <3>1, <3>5, OthersKeepDue
    <3> QED
      BY <3>2, <3>3, <3>4, <3>5, UpdatedDurable
  <2> QED
    BY <1>0, <1>2, <2>0, <2>2, <2>3 DEF RolesDue
<1> QED
  BY <1>1, <1>2

\* What holds up to the first fault.
RolesInv ==
  /\ UpdatesHeard
  /\ UpdatesPlain
  /\ StartsOnce
  /\ Newcomers
  /\ RolesFollow
  /\ cons["user-created"].again = {}

(* Faults are never taken back.                                            *)
LEMMA FaultsStay == TInv /\ [Next]_vars /\ faults' = 0 => faults = 0
<1> SUFFICES ASSUME TInv, [Next]_vars PROVE faults' \in {faults, faults + 1}
  BY DEF TInv, TypeOK
<1> QED
  BY DEF Next, BootAuth, StartAuth, StartAuthSeeding, AnnounceAdmin, ListenAuth, StartUser,
     SignIn, Crash, Register, Step, InsertCredential, InsertRefused, DeleteProfile, Publish,
     PublishFails, UpdateUserRole, UpdateUser, Update, FindForDelete, Handler,
     HandleUserCreated, HandleUserUpdated, RefuseUserUpdated, HandleUserDeleted, AckHandled,
     AckLost, NakUnhandled, vars

LEMMA AuthIsQuiet == Spec => []AuthQuiet
<1>1. Init => AuthQuiet
  BY DEF Init, AuthQuiet, Idle
<1> QED
  BY <1>1, AuthQuietStep, TypeInvariant, PTL DEF Spec

LEMMA RolesInvInit == Init => RolesInv
<1> SUFFICES ASSUME Init PROVE RolesInv
  OBVIOUS
<1>1. /\ \A b \in Subjects : stream[b] = << >> /\ DOMAIN stream[b] = {}
      /\ stream["updated"] = << >> /\ DOMAIN stream["updated"] = {}
      /\ DOMAIN stream["created"] = {}
  BY DEF Init, Subjects
<1>2. /\ \A r \in Requests : /\ ~ Updating(r) /\ ~ Announcing(r)
                             /\ req[r].subject = "created"
      /\ phase["auth"] = "down" /\ ~ bearer
      /\ \A u \in Users : cred[u] = Absent
      /\ \A d \in Durables : cons[d].again = {}
  BY DEF Init, Idle, Updating, Announcing, Services, NoConsumer
<1>3. UpdatesHeard /\ UpdatesPlain /\ StartsOnce
  BY <1>1, <1>2 DEF UpdatesHeard, UpdatesPlain, StartsOnce
<1>4. Newcomers
  BY <1>1, <1>2 DEF Newcomers
<1>5. RolesFollow
  BY <1>1, <1>2 DEF RolesFollow, RefusedComeBack, RolesAsPublished, RolesDue, Durables
<1> QED
  BY <1>2, <1>3, <1>4, <1>5 DEF RolesInv, Durables

LEMMA RolesInvStep ==
  ASSUME RolesInTurn',
         TInv, TInv', IdsIssued, AuthQuiet, CreatedOnce, ProfilesTold, RolesInv, [Next]_vars,
         faults = 0, faults' = 0
  PROVE  RolesInv'
<1>1. /\ UpdatesHeard /\ UpdatesPlain /\ StartsOnce /\ Newcomers /\ RolesFollow
      /\ RefusedComeBack /\ RolesAsPublished /\ cons["user-created"].again = {}
  BY DEF RolesInv, RolesFollow
<1>2. UpdatesHeard' /\ UpdatesPlain' /\ StartsOnce' /\ Newcomers'
  BY <1>1, UpdatesHeardStep, UpdatesPlainStep, StartsOnceStep, NewcomersStep
<1>3. RolesFollow'
  BY <1>1, RefusedComeBackStep, RolesAsPublishedStep, RolesDueStep DEF RolesFollow
<1>4. cons'["user-created"].again = {}
  BY <1>1, NothingBack
<1> QED
  BY <1>2, <1>3, <1>4 DEF RolesInv

(* At rest nothing is on its way.                                          *)
LEMMA RestIsAgreement == TInv /\ RolesInv => RolesConverge
<1> SUFFICES ASSUME TInv, RolesInv, Settled,
                    NEW u \in Users, cred[u] # Absent, profile[u] # Absent
             PROVE  cred[u].role = profile[u].role
  BY DEF RolesConverge
<1>1. stream["updated"] \in Seq(Event)
  BY DEF TInv, TypeOK, Subjects
<1>2. \A r \in Requests : ~ Updating(r)
  BY DEF Settled, Updating
<1>3. cons["auth-updated"].next = Len(stream["updated"]) + 1
  BY Statics DEF Settled, Drained
<1>4. \A s \in DOMAIN stream["updated"] : ~ Awaited(u, s)
  BY <1>1, <1>3 DEF Awaited
<1>5. RoleDue(u, profile[u].role)
  BY <1>2 DEF RolesInv, RolesFollow, RolesDue
<1> QED
  BY <1>4, <1>5 DEF RoleDue

(* As long as nothing has failed, and if updateUserRole does not overtake  *)
(* itself on one account, the role auth-service puts into access tokens is *)
(* the one user-service shows, whenever auth-service has read all it was   *)
(* told: RolesConverge for every number of accounts, names, roles, events  *)
(* and requests, which may overlap in every other way.                     *)
THEOREM RolesAgreeAtRest ==
  Spec /\ []RolesInTurn => [](NoFaults => RolesConverge)
<1> DEFINE UpToFault == NoFaults => RolesInv
<1>1. Init => UpToFault
  BY RolesInvInit
<1>2. /\ TInv /\ TInv' /\ IdsIssued /\ AuthQuiet /\ CreatedOnce /\ ProfilesTold
      /\ RolesInTurn' /\ UpToFault /\ [Next]_vars
      => UpToFault'
  BY FaultsStay, RolesInvStep DEF NoFaults
<1>3. TInv /\ UpToFault => (NoFaults => RolesConverge)
  BY RestIsAgreement
<1> HIDE DEF UpToFault
<1> QED
  BY <1>1, <1>2, <1>3, TypeInvariant, IdsAreIssued, AuthIsQuiet, NamesAreUnique,
     ProfilesAreTold, PTL DEF Spec
=============================================================================
