------------------------------- MODULE Search --------------------------------
(***************************************************************************)
(* The search indexer (crates/search/src) behind post-service: a durable   *)
(* consumer of the events about posts that keeps a Tantivy index on a      *)
(* volume of its own.                                                      *)
(*                                                                         *)
(* The indexer creates its index files before it connects to NATS, deletes *)
(* a durable left over from an earlier index only if the files were not    *)
(* there, and goes on answering /health when its subscription has failed   *)
(* or ended, so that nobody restarts it.                                   *)
(***************************************************************************)
EXTENDS Posts, EventStream

CONSTANT MaxLosses   \* bound: volumes lost

ASSUME LossConstant == MaxLosses \in Nat

VARIABLES
  index,    \* the committed documents, Absent for none
  files,    \* does meta.json exist?
  durable,  \* the durable consumer "search-indexer"
  mode,     \* where the indexer is in its life
  fresh,    \* fresh_index, of main
  losses    \* volumes lost so far

indexVars == <<index, files, durable, mode, fresh, losses>>
searchVars == <<postVars, faults, indexVars>>

Document == [text : Texts, tags : SUBSET Tags, author : Authors \union {Absent},
             status : Statuses]

ASSUME AbsentIsNoDocument == Absent \notin Document

\* down, index opened, stale durable dealt with, consuming, no subscription.
Modes == {"down", "opened", "attached", "consuming", "deaf"}

NoDocuments == [p \in Posts |-> Absent]

InitSearch ==
  /\ Init
  /\ index = NoDocuments
  /\ files = FALSE
  /\ durable = NoConsumer
  /\ mode = "down"
  /\ fresh = FALSE
  /\ losses = 0

-----------------------------------------------------------------------------
(* The indexer's life.                                                     *)

\* new_writer: open the index, or create an empty one.
OpenIndex ==
  /\ mode = "down"
  /\ fresh' = ~ files
  /\ files' = TRUE
  /\ mode' = "opened"
  /\ UNCHANGED <<postVars, faults, index, durable, losses>>

\* subscribe: connect, and delete the stale durable of a fresh index.
Attach ==
  /\ mode = "opened"
  /\ durable' = IF fresh THEN NoConsumer ELSE durable
  /\ mode' = "attached"
  /\ UNCHANGED <<postVars, faults, index, files, fresh, losses>>

\* Mutant: DeliverPolicy::New.
SubscribeLate ==
  /\ mode = "attached"
  /\ durable' = SubscribeNew(durable, log)
  /\ mode' = "consuming"
  /\ UNCHANGED <<postVars, faults, index, files, fresh, losses>>

\* subscribe: create_consumer and messages.
Subscribe ==
  /\ mode = "attached"
  /\ durable' = SubscribeAll(durable)
  /\ mode' = "consuming"
  /\ UNCHANGED <<postVars, faults, index, files, fresh, losses>>

\* subscribe returns an error: it is logged, the process stays up.
SubscribeFails ==
  /\ CanFail
  /\ mode \in {"opened", "attached"}
  /\ mode' = "deaf"
  /\ faults' = faults + 1
  /\ UNCHANGED <<postVars, index, files, durable, fresh, losses>>

\* messages.next() yields an error: the loop ends and subscribe returns.
SubscriptionEnds ==
  /\ CanFail
  /\ mode = "consuming"
  /\ mode' = "deaf"
  /\ durable' \in {Drop(durable, k) : k \in Prefetch(durable, log)}
  /\ faults' = faults + 1
  /\ UNCHANGED <<postVars, index, files, fresh, losses>>

Released == IF Exists(durable) THEN {Drop(durable, k) : k \in Prefetch(durable, log)}
                               ELSE {durable}

CrashIndexer ==
  /\ CanFail
  /\ mode # "down"
  /\ mode' = "down"
  /\ durable' \in Released
  /\ faults' = faults + 1
  /\ UNCHANGED <<postVars, index, files, fresh, losses>>

\* The pod comes back on an empty volume.
LoseVolume ==
  /\ losses < MaxLosses
  /\ losses' = losses + 1
  /\ index' = NoDocuments
  /\ files' = FALSE
  /\ mode' = "down"
  /\ durable' \in Released
  /\ UNCHANGED <<postVars, faults, fresh>>

-----------------------------------------------------------------------------
(* The consumer loop.                                                      *)

\* Mutant: the term to delete is looked for in the wrong field.
IndexedUndeleted(e) ==
  IF e.kind \in {"created", "updated"}
  THEN [index EXCEPT ![e.post] = [text |-> e.text, tags |-> e.tags,
                                  author |-> e.author, status |-> e.status]]
  ELSE index

\* handle_post_created, _updated, _deleted and _published: delete the post's
\* document, add the new one, commit.  An update names no author.
Indexed(e) ==
  CASE e.kind \in {"created", "updated"} ->
         [index EXCEPT ![e.post] = [text |-> e.text, tags |-> e.tags,
                                    author |-> e.author, status |-> e.status]]
    [] e.kind = "deleted" -> [index EXCEPT ![e.post] = Absent]
    [] e.kind = "published" -> index

HandleEvent(s) ==
  /\ mode = "consuming"
  /\ s \in Deliverable(durable, log)
  /\ durable' = Receive(durable, s)
  /\ index' = Indexed(log[s])
  /\ UNCHANGED <<postVars, faults, files, mode, fresh, losses>>

AckEvent ==
  /\ mode = "consuming"
  /\ durable.open # 0
  /\ durable' = Ack(durable)
  /\ UNCHANGED <<postVars, faults, index, files, mode, fresh, losses>>

\* The ack gets lost (its result is ignored): the event comes again.
AckEventLost ==
  /\ CanFail
  /\ mode = "consuming"
  /\ durable.open # 0
  /\ durable' = Return(durable)
  /\ faults' = faults + 1
  /\ UNCHANGED <<postVars, index, files, mode, fresh, losses>>

\* Mutant: the event is acked although the handler failed.
HandleFailsAcked(s) ==
  /\ CanFail
  /\ mode = "consuming"
  /\ s \in Deliverable(durable, log)
  /\ durable' = Ack(Receive(durable, s))
  /\ faults' = faults + 1
  /\ UNCHANGED <<postVars, index, files, mode, fresh, losses>>

\* The handler fails (no commit): no ack, the event comes again.
HandleFails(s) ==
  /\ CanFail
  /\ mode = "consuming"
  /\ s \in Deliverable(durable, log)
  /\ durable' = Return(Receive(durable, s))
  /\ faults' = faults + 1
  /\ UNCHANGED <<postVars, index, files, mode, fresh, losses>>

-----------------------------------------------------------------------------
Numbers == 1 .. MaxEvents

NextIndexer ==
  \/ OpenIndex \/ Attach \/ Subscribe
  \/ SubscribeFails \/ SubscriptionEnds \/ CrashIndexer \/ LoseVolume
  \/ AckEvent \/ AckEventLost
  \/ \E s \in Numbers : HandleEvent(s) \/ HandleFails(s)

NextSearch == (Next /\ UNCHANGED indexVars) \/ NextIndexer

SpecSearch == InitSearch /\ [][NextSearch]_searchVars

(***************************************************************************)
(* The platform starts a process that is down, the event loops go on, the  *)
(* stream hands out what is due.  Nobody restarts a deaf indexer.          *)
(***************************************************************************)
FairSpecSearch ==
  /\ SpecSearch
  /\ \A r \in Requests : WF_searchVars(Resume(r) /\ UNCHANGED indexVars)
  /\ WF_searchVars(OpenIndex \/ Attach \/ Subscribe)
  /\ WF_searchVars(AckEvent \/ \E s \in Numbers : HandleEvent(s))

-----------------------------------------------------------------------------
\* The index says of post p what the database says.
Agrees(p) ==
  IF post[p] = Absent THEN index[p] = Absent
  ELSE /\ index[p] # Absent
       /\ index[p].text = post[p].text
       /\ index[p].status = post[p].status
       /\ index[p].tags = tagged[p]

\* No request is under way and the indexer has read everything.
AtRest ==
  /\ \A r \in Requests : req[r].at = "idle"
  /\ mode = "consuming"
  /\ Drained(durable, log)

(***************************************************************************)
(* Search agrees with the posts once everything is quiet, from whatever    *)
(* moment the indexer starts and also after it has lost its volume.  This  *)
(* relies on requests for one post, or for one new tag, not overlapping,   *)
(* on nothing failing, on lists that name no tag twice, and on nobody's    *)
(* account going: archiving publishes no event.                            *)
(***************************************************************************)
IndexConverges == AtRest /\ faults = 0 => \A p \in Posts : Agrees(p)

(***************************************************************************)
(* ... and it does get quiet: unless something fails, search is brought to *)
(* agree with every post again and again.                                  *)
(***************************************************************************)
IndexCatchesUp == \A p \in Posts : []<>(Agrees(p) \/ faults > 0)

\* The indexer consumes, and every post that was announced, and not deleted,
\* is in its index or still to come.
NothingSkipped ==
  mode = "consuming" =>
    \A s \in DOMAIN log :
       /\ log[s].kind = "created"
       /\ Applied(durable, s)
       /\ \A j \in DOMAIN log : log[j].post = log[s].post => log[j].kind # "deleted"
       => index[log[s].post] # Absent

(***************************************************************************)
(* Crashes, lost acks and failed commits alone make the indexer skip       *)
(* nothing: what it had pulled or not committed is delivered again.        *)
(***************************************************************************)
FaultsSkipNothing == losses = 0 => NothingSkipped
=============================================================================
