------------------------------ MODULE Accounts ------------------------------
(***************************************************************************)
(* Accounts are kept twice: auth-service owns the credentials, user-service*)
(* the profiles.  Each has a database of its own and tells the other over  *)
(* JetStream:                                                              *)
(*    auth  --user.created-->  user        (register, bootstrapAdmin)      *)
(*    user  --user.updated-->  auth        (updateUser, updateUserRole)    *)
(*    user  --user.deleted-->  auth        (deleteUser)                    *)
(*                                                                         *)
(* A request commits its row, then awaits its publication: the two are     *)
(* separate steps, and a crash may come between them.                      *)
(*                                                                         *)
(* username and email, each UNIQUE in both tables, looked up and updated   *)
(* together, are one attribute, name.  Passwords, refresh tokens and what  *)
(* an access token says belong to Sessions.                                *)
(***************************************************************************)
EXTENDS Integers, Sequences, FiniteSets, EventStream

CONSTANTS
  Users,      \* the ids gen_random_uuid() may return
  Names,      \* usernames / emails
  AdminName,  \* ADMIN_EMAIL and ADMIN_USERNAME
  Roles,      \* the roles updateRoleSchema admits
  Requests,   \* slots for HTTP requests in flight
  Absent,     \* no row; a field an event does not carry
  MaxEvents,  \* bound: events of one subject
  MaxFaults   \* bound: crashes, failed publications, lost acks, naks

ASSUME AccountConstants ==
  /\ AdminName \in Names
  /\ {"user", "admin"} \subseteq Roles
  /\ MaxEvents \in Nat
  /\ MaxFaults \in Nat

ASSUME AbsentIsNoRow == Absent \notin [name : Names, role : Roles]

ASSUME AbsentIsNoField == Absent \notin Names \union Roles

VARIABLES
  cred,       \* auth-service: the credentials table
  profile,    \* user-service: the users table
  issued,     \* ids generated so far
  stream,     \* the events published on each subject
  cons,       \* the durable consumers
  phase,      \* where each service is in its life
  req,        \* requests in flight
  bearer,     \* has an access token been handed out?
  faults      \* faults so far

vars == <<cred, profile, issued, stream, cons, phase, req, bearer, faults>>

Row == [name : Names, role : Roles]

Subjects == {"created", "updated", "deleted"}

Event == [id   : Users \union {Absent},
          name : Names \union {Absent},
          role : Roles \union {Absent}]

Services == {"auth", "user"}

Phases == {"down", "announce", "subscribe", "listening"}

\* The durables, named for the service that reads and the subject it reads.
Durables == {"user-created", "auth-updated", "auth-deleted"}

SubjectOf == [d \in Durables |-> CASE d = "user-created" -> "created"
                                   [] d = "auth-updated" -> "updated"
                                   [] d = "auth-deleted" -> "deleted"]

ReaderOf == [d \in Durables |-> IF d = "user-created" THEN "user" ELSE "auth"]

\* The service that publishes a subject is the one its requests run in.
PublisherOf == [s \in Subjects |-> IF s = "created" THEN "auth" ELSE "user"]

(***************************************************************************)
(* A request between two awaits: what it is about to do, for which subject *)
(* and with which event (filled in as far as it is known).                 *)
(***************************************************************************)
Request == [at : {"idle", "insert", "delete", "publish"},
            subject : Subjects, event : Event]

Nothing == [id |-> Absent, name |-> Absent, role |-> Absent]

Idle == [at |-> "idle", subject |-> "created", event |-> Nothing]

Init ==
  /\ cred = [u \in Users |-> Absent]
  /\ profile = [u \in Users |-> Absent]
  /\ issued = {}
  /\ stream = [s \in Subjects |-> << >>]
  /\ cons = [d \in Durables |-> NoConsumer]
  /\ phase = [v \in Services |-> "down"]
  /\ req = [r \in Requests |-> Idle]
  /\ bearer = FALSE
  /\ faults = 0

-----------------------------------------------------------------------------
(* Tables with a UNIQUE name.                                              *)

Taken(table, n) == \E u \in Users : table[u] # Absent /\ table[u].name = n

TakenByOther(table, n, u) ==
    \E v \in Users \ {u} : table[v] # Absent /\ table[v].name = n

\* Mutant: the fields are set whether the event carries them or not.
PatchedBlindly(row, e) == [name |-> e.name, role |-> e.role]

\* UPDATE ... SET the fields an event carries.
Patched(row, e) == [name |-> IF e.name = Absent THEN row.name ELSE e.name,
                    role |-> IF e.role = Absent THEN row.role ELSE e.role]

Busy(subject) == {r \in Requests : req[r].at # "idle" /\ req[r].subject = subject}

\* The bound MaxEvents: requests under way count for what they will publish.
Room(subject) == Len(stream[subject]) + Cardinality(Busy(subject)) < MaxEvents

CanFail == faults < MaxFaults

-----------------------------------------------------------------------------
(* The services' start and end.                                            *)

(***************************************************************************)
(* bootstrapAdmin, before anything is consumed or served: promote the      *)
(* admin's credential, or create it.  Nothing else touches the table then, *)
(* so the look-up and the write are one step.                              *)
(***************************************************************************)
StartAuth ==
  /\ phase["auth"] = "down"
  /\ Taken(cred, AdminName)
  /\ cred' = [u \in Users |->
                IF cred[u] # Absent /\ cred[u].name = AdminName
                THEN [cred[u] EXCEPT !.role = "admin"] ELSE cred[u]]
  /\ phase' = [phase EXCEPT !["auth"] = "subscribe"]
  /\ UNCHANGED <<profile, issued, stream, cons, req, bearer, faults>>

StartAuthSeeding ==
  /\ phase["auth"] = "down"
  /\ ~ Taken(cred, AdminName)
  /\ \E u \in Users \ issued :
        /\ issued' = issued \union {u}
        /\ cred' = [cred EXCEPT ![u] = [name |-> AdminName, role |-> "admin"]]
  /\ phase' = [phase EXCEPT !["auth"] = "announce"]
  /\ UNCHANGED <<profile, stream, cons, req, bearer, faults>>

\* The seeded admin's user.created.  The row is the one of that name.
AnnounceAdmin ==
  /\ phase["auth"] = "announce"
  /\ \E u \in Users :
        /\ cred[u] # Absent
        /\ cred[u].name = AdminName
        /\ stream' = [stream EXCEPT !["created"] =
                        Append(@, [id |-> u, name |-> AdminName, role |-> cred[u].role])]
  /\ phase' = [phase EXCEPT !["auth"] = "subscribe"]
  /\ UNCHANGED <<cred, profile, issued, cons, req, bearer, faults>>

\* Mutant: subscribeUserDeleted is not called.
ListenAuthDeaf ==
  /\ phase["auth"] = "subscribe"
  /\ cons' = [cons EXCEPT !["auth-updated"] = SubscribeNew(@, stream["updated"])]
  /\ phase' = [phase EXCEPT !["auth"] = "listening"]
  /\ UNCHANGED <<cred, profile, issued, stream, req, bearer, faults>>

\* subscribeUserUpdated, subscribeUserDeleted, listen.
ListenAuth ==
  /\ phase["auth"] = "subscribe"
  /\ cons' = [d \in Durables |-> IF ReaderOf[d] = "auth"
                                 THEN SubscribeNew(cons[d], stream[SubjectOf[d]])
                                 ELSE cons[d]]
  /\ phase' = [phase EXCEPT !["auth"] = "listening"]
  /\ UNCHANGED <<cred, profile, issued, stream, req, bearer, faults>>

\* user-service: subscribeUserCreated, listen.
StartUser ==
  /\ phase["user"] = "down"
  /\ cons' = [cons EXCEPT !["user-created"] = SubscribeNew(@, stream["created"])]
  /\ phase' = [phase EXCEPT !["user"] = "listening"]
  /\ UNCHANGED <<cred, profile, issued, stream, req, bearer, faults>>

Pulled(d) == Prefetch(cons[d], stream[SubjectOf[d]])

\* The process of service v dies, and with it its requests and its hold on
\* the messages it had pulled.
Crash(v) ==
  /\ CanFail
  /\ phase[v] # "down"
  /\ phase' = [phase EXCEPT ![v] = "down"]
  /\ req' = [r \in Requests |-> IF PublisherOf[req[r].subject] = v THEN Idle ELSE req[r]]
  /\ \E pulled \in [{d \in Durables : ReaderOf[d] = v} ->
                     UNION {Pulled(d) : d \in Durables}] :
        /\ \A d \in DOMAIN pulled : pulled[d] \in Pulled(d)
        /\ cons' = [d \in Durables |-> IF ReaderOf[d] = v THEN Drop(cons[d], pulled[d])
                                                          ELSE cons[d]]
  /\ faults' = faults + 1
  /\ UNCHANGED <<cred, profile, issued, stream, bearer>>

-----------------------------------------------------------------------------
(* auth-service's requests.                                                *)

\* register: findFirst by email or username, then bcrypt.hash.  A match is
\* answered 409 and changes nothing.
Register(r, n) ==
  /\ phase["auth"] = "listening"
  /\ req[r].at = "idle"
  /\ ~ Taken(cred, n)
  /\ Cardinality({q \in Requests : req[q].at = "insert"}) < Cardinality(Users \ issued)
  /\ req' = [req EXCEPT ![r] = [at |-> "insert", subject |-> "created",
                                event |-> [Nothing EXCEPT !.name = n]]]
  /\ UNCHANGED <<cred, profile, issued, stream, cons, phase, bearer, faults>>

\* The INSERT of register, which draws a fresh id.
InsertCredential(r) ==
  LET n == req[r].event.name IN
  /\ req[r].at = "insert"
  /\ ~ Taken(cred, n)
  /\ \E u \in Users \ issued :
        /\ issued' = issued \union {u}
        /\ cred' = [cred EXCEPT ![u] = [name |-> n, role |-> "user"]]
        /\ req' = [req EXCEPT ![r] = [at |-> "publish", subject |-> "created",
                                      event |-> [id |-> u, name |-> n, role |-> "user"]]]
  /\ UNCHANGED <<profile, stream, cons, phase, bearer, faults>>

\* The INSERT meets the UNIQUE constraint: 500.
InsertRefused(r) ==
  /\ req[r].at = "insert"
  /\ Taken(cred, req[r].event.name)
  /\ req' = [req EXCEPT ![r] = Idle]
  /\ UNCHANGED <<cred, profile, issued, stream, cons, phase, bearer, faults>>

\* A login: from now on somebody can call user-service through the gateway.
SignIn ==
  /\ phase["auth"] = "listening"
  /\ ~ bearer
  /\ \E u \in Users : cred[u] # Absent
  /\ bearer' = TRUE
  /\ UNCHANGED <<cred, profile, issued, stream, cons, phase, req, faults>>

-----------------------------------------------------------------------------
(* user-service's requests.                                                *)

Serving(r) ==
  /\ phase["user"] = "listening"
  /\ bearer
  /\ req[r].at = "idle"

(***************************************************************************)
(* updateUser and updateUserRole: findFirst, then UPDATE ... RETURNING.    *)
(* A row that is missing at either answers an error and leaves nothing     *)
(* behind, so the two are one step; so is an UPDATE the UNIQUE constraint  *)
(* refuses.                                                                *)
(***************************************************************************)
Update(r, u, e) ==
  /\ Serving(r)
  /\ Room("updated")
  /\ profile[u] # Absent
  /\ ~ TakenByOther(profile, e.name, u)
  /\ profile' = [profile EXCEPT ![u] = Patched(@, e)]
  /\ req' = [req EXCEPT ![r] = [at |-> "publish", subject |-> "updated", event |-> e]]
  /\ UNCHANGED <<cred, issued, stream, cons, phase, bearer, faults>>

UpdateUserRole(r, u, role) == Update(r, u, [id |-> u, name |-> Absent, role |-> role])

UpdateUser(r, u, n) == Update(r, u, [id |-> u, name |-> n, role |-> Absent])

\* Mutant: no 404 for an id without a profile.
FindNothingForDelete(r, u) ==
  /\ Serving(r)
  /\ Room("deleted")
  /\ u \in issued
  /\ req' = [req EXCEPT ![r] = [at |-> "delete", subject |-> "deleted",
                                event |-> [Nothing EXCEPT !.id = u]]]
  /\ UNCHANGED <<cred, profile, issued, stream, cons, phase, bearer, faults>>

\* deleteUser: findFirst ...
FindForDelete(r, u) ==
  /\ Serving(r)
  /\ Room("deleted")
  /\ profile[u] # Absent
  /\ req' = [req EXCEPT ![r] = [at |-> "delete", subject |-> "deleted",
                                event |-> [Nothing EXCEPT !.id = u]]]
  /\ UNCHANGED <<cred, profile, issued, stream, cons, phase, bearer, faults>>

\* ... then DELETE, which publishes even if another request deleted the row.
DeleteProfile(r) ==
  /\ req[r].at = "delete"
  /\ profile' = [profile EXCEPT ![req[r].event.id] = Absent]
  /\ req' = [req EXCEPT ![r] = [@ EXCEPT !.at = "publish"]]
  /\ UNCHANGED <<cred, issued, stream, cons, phase, bearer, faults>>

-----------------------------------------------------------------------------
(* js.publish, the last step of every request.                             *)

Publish(r) ==
  /\ req[r].at = "publish"
  /\ stream' = [stream EXCEPT ![req[r].subject] = Append(@, req[r].event)]
  /\ req' = [req EXCEPT ![r] = Idle]
  /\ UNCHANGED <<cred, profile, issued, cons, phase, bearer, faults>>

\* The publication fails: the request answers 500, its row stays.
PublishFails(r) ==
  /\ CanFail
  /\ req[r].at = "publish"
  /\ req' = [req EXCEPT ![r] = Idle]
  /\ faults' = faults + 1
  /\ UNCHANGED <<cred, profile, issued, stream, cons, phase, bearer>>

-----------------------------------------------------------------------------
(* The subscribers.  Each handles one message at a time: receive it, do one*)
(* statement on the database, then ack.                                    *)

\* Message s of durable d is handed to its handler.
Receives(d, s) ==
  /\ phase[ReaderOf[d]] = "listening"
  /\ s \in Deliverable(cons[d], stream[SubjectOf[d]])
  /\ cons' = [cons EXCEPT ![d] = Receive(@, s)]

\* INSERT ... ON CONFLICT DO NOTHING: neither the id nor the name may exist.
HandleUserCreated(s) ==
  LET e == stream["created"][s] IN
  /\ Receives("user-created", s)
  /\ profile' = IF profile[e.id] = Absent /\ ~ Taken(profile, e.name)
                THEN [profile EXCEPT ![e.id] = [name |-> e.name, role |-> e.role]]
                ELSE profile
  /\ UNCHANGED <<cred, issued, stream, phase, req, bearer, faults>>

\* Mutant: an upsert.
UpsertUserUpdated(s) ==
  LET e == stream["updated"][s] IN
  /\ Receives("auth-updated", s)
  /\ ~ TakenByOther(cred, e.name, e.id)
  /\ cred' = IF cred[e.id] # Absent THEN [cred EXCEPT ![e.id] = Patched(@, e)]
             ELSE IF e.name = Absent THEN cred
             ELSE [cred EXCEPT ![e.id] = [name |-> e.name, role |-> "user"]]
  /\ UNCHANGED <<profile, issued, stream, phase, req, bearer, faults>>

\* Mutant: the WHERE clause is missing.
UpdateEveryone(s) ==
  LET e == stream["updated"][s] IN
  /\ Receives("auth-updated", s)
  /\ cred' = [u \in Users |-> IF cred[u] = Absent THEN Absent ELSE Patched(cred[u], e)]
  /\ UNCHANGED <<profile, issued, stream, phase, req, bearer, faults>>

\* Mutant: the role is not copied.
UpdateNameOnly(s) ==
  LET e == stream["updated"][s] IN
  /\ Receives("auth-updated", s)
  /\ ~ (cred[e.id] # Absent /\ TakenByOther(cred, e.name, e.id))
  /\ cred' = IF cred[e.id] = Absent \/ e.name = Absent THEN cred
             ELSE [cred EXCEPT ![e.id].name = e.name]
  /\ UNCHANGED <<profile, issued, stream, phase, req, bearer, faults>>

\* UPDATE credentials SET the fields present WHERE id; it may match no row.
HandleUserUpdated(s) ==
  LET e == stream["updated"][s] IN
  /\ Receives("auth-updated", s)
  /\ ~ (cred[e.id] # Absent /\ TakenByOther(cred, e.name, e.id))
  /\ cred' = IF cred[e.id] = Absent THEN cred ELSE [cred EXCEPT ![e.id] = Patched(@, e)]
  /\ UNCHANGED <<profile, issued, stream, phase, req, bearer, faults>>

\* The UNIQUE constraint refuses that UPDATE: the handler naks.
RefuseUserUpdated(s) ==
  LET e == stream["updated"][s]
      d == "auth-updated" IN
  /\ phase["auth"] = "listening"
  /\ s \in Deliverable(cons[d], stream["updated"])
  /\ cred[e.id] # Absent
  /\ TakenByOther(cred, e.name, e.id)
  /\ cons' = [cons EXCEPT ![d] = Return(Receive(@, s))]
  /\ UNCHANGED <<cred, profile, issued, stream, phase, req, bearer, faults>>

\* DELETE FROM credentials WHERE id.
HandleUserDeleted(s) ==
  /\ Receives("auth-deleted", s)
  /\ cred' = [cred EXCEPT ![stream["deleted"][s].id] = Absent]
  /\ UNCHANGED <<profile, issued, stream, phase, req, bearer, faults>>

\* Mutant: nak in place of ack.
NakHandled(d) ==
  /\ cons[d].open # 0
  /\ cons' = [cons EXCEPT ![d] = Return(@)]
  /\ UNCHANGED <<cred, profile, issued, stream, phase, req, bearer, faults>>

AckHandled(d) ==
  /\ cons[d].open # 0
  /\ cons' = [cons EXCEPT ![d] = Ack(@)]
  /\ UNCHANGED <<cred, profile, issued, stream, phase, req, bearer, faults>>

\* The ack does not arrive, or a database error made the handler nak after
\* its statement had committed: the message comes again.
AckLost(d) ==
  /\ CanFail
  /\ cons[d].open # 0
  /\ cons' = [cons EXCEPT ![d] = Return(@)]
  /\ faults' = faults + 1
  /\ UNCHANGED <<cred, profile, issued, stream, phase, req, bearer>>

\* A database error stops the statement: nak, nothing written.
NakUnhandled(d, s) ==
  /\ CanFail
  /\ phase[ReaderOf[d]] = "listening"
  /\ s \in Deliverable(cons[d], stream[SubjectOf[d]])
  /\ cons' = [cons EXCEPT ![d] = Return(Receive(@, s))]
  /\ faults' = faults + 1
  /\ UNCHANGED <<cred, profile, issued, stream, phase, req, bearer>>

-----------------------------------------------------------------------------
BootAuth == StartAuth \/ StartAuthSeeding \/ AnnounceAdmin \/ ListenAuth

Step(r) == InsertCredential(r) \/ InsertRefused(r) \/ DeleteProfile(r) \/ Publish(r)

Numbers == 1 .. (MaxEvents + Cardinality(Users))

Handler(d) ==
  \E s \in Numbers : \/ d = "user-created" /\ HandleUserCreated(s)
                     \/ d = "auth-updated" /\ HandleUserUpdated(s)
                     \/ d = "auth-updated" /\ RefuseUserUpdated(s)
                     \/ d = "auth-deleted" /\ HandleUserDeleted(s)

Next ==
  \/ BootAuth
  \/ StartUser
  \/ SignIn
  \/ \E v \in Services : Crash(v)
  \/ \E r \in Requests :
        \/ \E n \in Names : Register(r, n)
        \/ Step(r)
        \/ PublishFails(r)
        \/ \E u \in Users :
              \/ \E role \in Roles : UpdateUserRole(r, u, role)
              \/ \E n \in Names : UpdateUser(r, u, n)
              \/ FindForDelete(r, u)
  \/ \E d \in Durables :
        \/ Handler(d)
        \/ AckHandled(d)
        \/ AckLost(d)
        \/ \E s \in Numbers : NakUnhandled(d, s)

Spec == Init /\ [][Next]_vars

(***************************************************************************)
(* The platform restarts a dead service, the event loop resumes an await   *)
(* that is answered, and the stream hands out what is due.  Clients owe    *)
(* nothing.                                                                *)
(***************************************************************************)
Fairness ==
  /\ WF_vars(BootAuth) /\ WF_vars(StartUser)
  /\ \A r \in Requests : WF_vars(Step(r))
  /\ \A d \in Durables : WF_vars(Handler(d)) /\ WF_vars(AckHandled(d))

FairSpec == Spec /\ Fairness

-----------------------------------------------------------------------------
(* Type invariant.                                                         *)

TypeOK ==
  /\ cred \in [Users -> Row \union {Absent}]
  /\ profile \in [Users -> Row \union {Absent}]
  /\ issued \in SUBSET Users
  /\ stream \in [Subjects -> Seq(Event)]
  /\ cons \in [Durables -> Consumer]
  /\ phase \in [Services -> Phases]
  /\ req \in [Requests -> Request]
  /\ bearer \in BOOLEAN
  /\ faults \in 0 .. MaxFaults

-----------------------------------------------------------------------------
(* Safety.                                                                 *)

(***************************************************************************)
(* A deleted account cannot be signed into: once auth-service has worked   *)
(* through the user.deleted of an id, no credential has that id, whatever  *)
(* crashes, redeliveries, late updates and re-registrations follow; and    *)
(* auth-service's durable cannot have missed that event, though it is      *)
(* created with DeliverPolicy.New and only after bootstrapAdmin            *)
(* (auth/src/index.ts).                                                    *)
(***************************************************************************)
CredentialDeletionFinal ==
  \A s \in DOMAIN stream["deleted"] :
     Applied(cons["auth-deleted"], s) => cred[stream["deleted"][s].id] = Absent

\* The id holds name n, or an update may have taken n away from it.
Renamed(u, n) ==
  \/ cred[u].name = n
  \/ \E s \in DOMAIN stream["updated"] :
       stream["updated"][s].id = u /\ stream["updated"][s].name \notin {n, Absent}

(***************************************************************************)
(* No role comes from nowhere: a credential's role is the one it was       *)
(* created with, the admin's promotion at start, or one that user-service  *)
(* published for that very id.  (Bootstrap, partial user.updated events and*)
(* their redelivery all write the same column.)                            *)
(***************************************************************************)
RoleHasOrigin ==
  \A u \in Users : cred[u] # Absent =>
     \/ cred[u].role = "user"
     \/ \E s \in DOMAIN stream["updated"] :
          stream["updated"][s].id = u /\ stream["updated"][s].role = cred[u].role
     \/ cred[u].role = "admin" /\ Renamed(u, AdminName)

\* The profile rows user-service has deleted and told about, or is about to.
DeletedIds ==
  {stream["deleted"][s].id : s \in DOMAIN stream["deleted"]}
    \union {req[r].event.id : r \in {q \in Requests :
               req[q].at = "publish" /\ req[q].subject = "deleted"}}

(***************************************************************************)
(* A deleted profile comes back only when a user.created event that was    *)
(* delivered before is delivered again (user-created.ts inserts whatever   *)
(* it is given): the first delivery of an event never revives one.         *)
(***************************************************************************)
ProfileReturnsOnlyByRedelivery ==
  [][\A u \in DeletedIds :
        profile[u] = Absent /\ profile'[u] # Absent
          => cons'["user-created"].open \in cons["user-created"].again]_vars

-----------------------------------------------------------------------------
(* Refinement: each table keeps the lifecycle of its ids.                  *)

CredentialPhase ==
  [u \in Users |-> IF cred[u] # Absent THEN "open"
                   ELSE IF u \in issued THEN "closed" ELSE "unused"]

\* auth-service's table implements the lifecycle whatever fails: ids are
\* inserted once and user.updated updates, never re-inserts, a row.
Credentials == INSTANCE AccountLifecycle WITH phase <- CredentialPhase

CredentialLifecycle == Credentials!Spec

ProfilePhase ==
  [u \in Users |-> IF profile[u] # Absent THEN "open"
                   ELSE IF u \in DeletedIds THEN "closed" ELSE "unused"]

\* user-service's table implements it as long as nothing fails: it relies on
\* each user.created being handled once.
Profiles == INSTANCE AccountLifecycle WITH phase <- ProfilePhase

ProfileLifecycle == Profiles!Spec

-----------------------------------------------------------------------------
(* Without faults and with role changes that do not overlap.               *)

\* Nothing under way: no request, and auth-service has read everything.
Settled ==
  /\ \A r \in Requests : req[r].at = "idle"
  /\ \A d \in {"auth-updated", "auth-deleted"} : Drained(cons[d], stream[SubjectOf[d]])

(***************************************************************************)
(* The role in access tokens (auth-service) ends up being the role the     *)
(* admin page shows (user-service): updateUserRole's commits reach         *)
(* user-updated.ts in the order they were made.                            *)
(***************************************************************************)
RolesConverge ==
  Settled => \A u \in Users : cred[u] # Absent /\ profile[u] # Absent
                                => cred[u].role = profile[u].role

(***************************************************************************)
(* Deleting an account at user-service eventually takes its credential     *)
(* away at auth-service.                                                   *)
(***************************************************************************)
DeletionReachesAuth ==
  \A u \in Users : u \in DeletedIds ~> cred[u] = Absent

(***************************************************************************)
(* auth.ts:191: "Publish user.created so user-service creates the admin    *)
(* profile": the seeded admin gets a profile, if it is not deleted first.  *)
(***************************************************************************)
AdminGetsProfile ==
  \A u \in Users : cred[u] # Absent /\ cred[u].role = "admin"
                     ~> profile[u] # Absent \/ cred[u] = Absent
=============================================================================
