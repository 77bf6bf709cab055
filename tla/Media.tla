-------------------------------- MODULE Media --------------------------------
(***************************************************************************)
(* Uploaded media from their file to their end: media-service              *)
(* (crates/media/src), which keeps a file and a row of each, its           *)
(* subscriber to user.deleted, the posts that show them, and the sweep of  *)
(* orphans in services/frontend/src/pages/admin/AdminMediaTab.tsx, which   *)
(* tells from the posts it has read what nobody shows.                     *)
(*                                                                         *)
(* All media are one author's.  The admin's tab reads through the gateway, *)
(* which answers an expired token like none where none is needed.          *)
(***************************************************************************)
EXTENDS Naturals, FiniteSets

CONSTANTS
  Media,      \* uploads, each with the id and the file name it is given
  MaxPosts,   \* bound: posts, numbered as they are created
  None,       \* nothing read, nothing being done
  MaxFaults   \* bound: failed statements, lost acks, crashes, expired tokens

ASSUME MediaConstants == None \notin Media /\ {MaxPosts, MaxFaults} \subseteq Nat

Posts == 1 .. MaxPosts

VARIABLES
  upload,   \* how far each upload is
  file,     \* the media whose file is in the upload directory
  row,      \* those with a row in the table media
  del,      \* how far a deletion of each is
  told,     \* the event user.deleted about the author
  alive,    \* does the subscriber's loop run?
  job,      \* what it is doing about the event
  posts,    \* the table posts, and the media each of them shows
  token,    \* the admin's access token
  reading,  \* fetchAllPosts in progress
  seen,     \* the posts as last read, in the query cache
  listed,   \* the media likewise
  sweep,    \* handleDeleteAllOrphans in progress
  cut,      \* the media about which a statement failed (history)
  faults

service == <<upload, file, row, del, told, alive, job>>
tab == <<token, reading, seen, listed, sweep>>
vars == <<service, posts, tab, cut, faults>>

Post == [at : {"none", "hidden", "public", "deleted"}, shows : SUBSET Media]

(***************************************************************************)
(* A reading of all posts, page by page, and what comes of it.             *)
(*   shows   the media that a post read so far shows                       *)
(*   whole   read as an admin, with no error and no post deleted between   *)
(*           pages (history)                                               *)
(*   kept    which post has shown what ever since the reading began        *)
(*           (history)                                                     *)
(***************************************************************************)
Reading == [page : Nat, got : Nat, shows : SUBSET Media, whole : BOOLEAN,
            kept : SUBSET (Posts \X Media)]
Seen == [shows : SUBSET Media, whole : BOOLEAN, kept : SUBSET (Posts \X Media)]

Existing(table) == {p \in Posts : table[p].at \in {"hidden", "public"}}
Links(table) == {l \in Existing(table) \X Media : l[2] \in table[l[1]].shows}

NoSweep == [left |-> {}, now |-> None]

Init ==
  /\ upload = [m \in Media |-> "none"]
  /\ file = {} /\ row = {}
  /\ del = [m \in Media |-> "none"]
  /\ told = "no" /\ alive = TRUE /\ job = None
  /\ posts = [p \in Posts |-> [at |-> "none", shows |-> {}]]
  /\ token = "valid"
  /\ reading = None /\ seen = None /\ listed = None
  /\ sweep = NoSweep
  /\ cut = {} /\ faults = 0

Fault == faults < MaxFaults /\ faults' = faults + 1

\* What a statement about m does to v, unless it fails and v stays.
Done(v, new, m) ==
  \/ v' = new /\ UNCHANGED <<cut, faults>>
  \/ v' = v /\ cut' = cut \union {m} /\ Fault

-----------------------------------------------------------------------------
(* media-service: requests.                                                *)

InsertUnsaved(m) ==               \* mutant: the row comes first
  /\ upload[m] = "none"
  /\ upload' = [upload EXCEPT ![m] = "saved"]
  /\ row' = row \union {m}
  /\ UNCHANGED <<file, del, told, alive, job, posts, tab, cut, faults>>

Save(m) ==
  /\ upload[m] = "none"
  /\ upload' = [upload EXCEPT ![m] = "saved"]
  /\ file' = file \union {m}
  /\ UNCHANGED <<row, del, told, alive, job, posts, tab, cut, faults>>

Insert(m) ==
  /\ upload[m] = "saved"
  /\ Done(row, row \union {m}, m)
  /\ upload' = [upload EXCEPT ![m] = IF m \in row' THEN "stored" ELSE "failed"]
  /\ UNCHANGED <<file, del, told, alive, job, posts, tab>>

\* delete finds the row of its author's, or as an admin; MediaGrid and the table of
\* AdminMediaTab have a button for each, shown in a post or not.
FindForDelete(m) ==
  /\ del[m] = "none" /\ m \in row
  /\ del' = [del EXCEPT ![m] = "found"]
  /\ UNCHANGED <<upload, file, row, told, alive, job, posts, tab, cut, faults>>

KeepFile(m) ==                    \* mutant: the file is forgotten
  /\ del[m] = "found"
  /\ del' = [del EXCEPT ![m] = "unlinked"]
  /\ UNCHANGED <<upload, file, row, told, alive, job, posts, tab, cut, faults>>

Unlink(m) ==
  /\ del[m] = "found"
  /\ Done(file, file \ {m}, m)
  /\ del' = [del EXCEPT ![m] = "unlinked"]
  /\ UNCHANGED <<upload, row, told, alive, job, posts, tab>>

DeleteRow(m) ==
  /\ del[m] = "unlinked"
  /\ Done(row, row \ {m}, m)
  /\ del' = [del EXCEPT ![m] = "none"]
  /\ UNCHANGED <<upload, file, told, alive, job, posts, tab>>

-----------------------------------------------------------------------------
(* media-service: user.deleted.  The durable is created with the default   *)
(* policy, so the event is there however early it was published.           *)

AuthorDeleted ==
  /\ told = "no"
  /\ told' = "pending"
  /\ UNCHANGED <<upload, file, row, del, alive, job, posts, tab, cut, faults>>

SelectRowsOnly ==                 \* mutant: without their file names
  /\ told = "pending" /\ alive /\ job = None
  /\ job' = [at |-> "files", left |-> {}]
  /\ UNCHANGED <<upload, file, row, del, told, alive, posts, tab, cut, faults>>

\* An error of the SELECT is passed over.
SelectFiles ==
  /\ told = "pending" /\ alive /\ job = None
  /\ \/ job' = [at |-> "files", left |-> row] /\ UNCHANGED <<cut, faults>>
     \/ job' = [at |-> "files", left |-> {}] /\ cut' = cut \union row /\ Fault
  /\ UNCHANGED <<upload, file, row, del, told, alive, posts, tab>>

UnlinkNext ==
  /\ job # None /\ \E m \in job.left :
       /\ Done(file, file \ {m}, m)
       /\ job' = [job EXCEPT !.left = @ \ {m}]
  /\ UNCHANGED <<upload, row, del, told, alive, posts, tab>>

\* The rows of the author by now.
DeleteRows ==
  /\ job # None /\ job.at = "files" /\ job.left = {}
  /\ \/ row' = {} /\ UNCHANGED <<cut, faults>>
     \/ cut' = cut \union row /\ Fault /\ UNCHANGED row
  /\ job' = [job EXCEPT !.at = "ack"]
  /\ UNCHANGED <<upload, file, del, told, alive, posts, tab>>

AckDeletion ==
  /\ job # None /\ job.at = "ack"
  /\ told' = "acked" /\ job' = None
  /\ UNCHANGED <<upload, file, row, del, alive, posts, tab, cut, faults>>

AckLost ==
  /\ job # None /\ job.at = "ack"
  /\ job' = None
  /\ Fault
  /\ UNCHANGED <<upload, file, row, del, told, alive, posts, tab, cut>>

\* while let Some(Ok(msg)): an error of the stream ends the loop, not the process.
LoopEnds ==
  /\ alive /\ job = None
  /\ alive' = FALSE
  /\ Fault
  /\ UNCHANGED <<upload, file, row, del, told, job, posts, tab, cut>>

CrashMedia ==
  /\ upload' = [m \in Media |-> IF upload[m] = "saved" THEN "failed" ELSE upload[m]]
  /\ del' = [m \in Media |-> "none"]
  /\ cut' = cut \union {m \in Media : upload[m] = "saved" \/ del[m] = "unlinked"}
  /\ alive' = TRUE /\ job' = None
  /\ Fault
  /\ UNCHANGED <<file, row, told, posts, tab>>

-----------------------------------------------------------------------------
(* Posts, as far as media go.                                              *)

Rewrite(p, new) ==
  LET table == [posts EXCEPT ![p] = new]
      Kept(r) == r.kept \intersect Links(table)
  IN /\ posts' = table
     /\ seen' = IF seen = None THEN None ELSE [seen EXCEPT !.kept = Kept(seen)]
     /\ reading' = IF reading = None THEN None
                   ELSE [reading EXCEPT !.kept = Kept(reading),
                                        !.whole = @ /\ new.at # "deleted"]

\* What ComposePage and EditPage put into a text: links to media whose upload was answered,
\* or that were listed, whether or not they are still there.
Insertable == {m \in Media : upload[m] = "stored"}

WritePost(p, at, shows) ==
  /\ posts[p].at # "deleted"
  /\ posts[p].at = "none" => \A q \in Posts : q < p => posts[q].at # "none"
  /\ shows \subseteq Insertable
  /\ Rewrite(p, [at |-> at, shows |-> shows])
  /\ UNCHANGED <<service, token, listed, sweep, cut, faults>>

DeletePost(p) ==
  /\ p \in Existing(posts)
  /\ Rewrite(p, [at |-> "deleted", shows |-> {}])
  /\ UNCHANGED <<service, token, listed, sweep, cut, faults>>

-----------------------------------------------------------------------------
(* AdminMediaTab.                                                          *)

\* Mounted, or its posts are stale.
FetchAllPosts ==
  /\ reading = None
  /\ reading' = [page |-> 1, got |-> 0, shows |-> {}, whole |-> TRUE, kept |-> Links(posts)]
  /\ UNCHANGED <<service, posts, token, seen, listed, sweep, cut, faults>>

\* The posts listPosts counts, and the one on page n of them, the newest first.
Visible == {p \in Existing(posts) : token = "valid" \/ posts[p].at = "public"}
OnPage(n) == {p \in Visible : Cardinality({q \in Visible : q > p}) = n - 1}

OnePage(got, total) == TRUE       \* mutant: the first page is taken for all
AllGot(got, total) == got >= total

\* Bound: a page has one post, for the hundred that the tab asks for.
ReadPage ==
  /\ reading # None
  /\ LET items == OnPage(reading.page)
         got == reading.got + Cardinality(items)
         shows == reading.shows \union UNION {posts[p].shows : p \in items}
         whole == reading.whole /\ token = "valid"
     IN IF items = {} \/ AllGot(got, Cardinality(Visible))
        THEN /\ seen' = [shows |-> shows, whole |-> whole, kept |-> reading.kept]
             /\ reading' = None
        ELSE /\ reading' = [page |-> reading.page + 1, got |-> got, shows |-> shows,
                            whole |-> whole, kept |-> reading.kept]
             /\ UNCHANGED seen
  /\ UNCHANGED <<service, posts, token, listed, sweep, cut, faults>>

\* Tried twice.  Where nothing was read before, allPosts stays undefined.
ReadingFails ==
  /\ reading # None
  /\ reading' = None
  /\ seen' = IF seen = None THEN [shows |-> {}, whole |-> FALSE, kept |-> {}] ELSE seen
  /\ Fault
  /\ UNCHANGED <<service, posts, token, listed, sweep, cut>>

ListMedia ==
  /\ token = "valid"
  /\ listed' = row
  /\ UNCHANGED <<service, posts, token, reading, seen, sweep, cut, faults>>

\* loading is over: the media are listed, and the posts were read or could not be.
DeleteAllOrphans ==
  /\ sweep = NoSweep /\ listed # None /\ seen # None
  /\ sweep' = [left |-> listed \ seen.shows, now |-> None]
  /\ UNCHANGED <<service, posts, token, reading, seen, listed, cut, faults>>

\* One after the other: the next deletion is asked for once the last has been answered.
\* One that is refused or finds no row is only reported.
DeleteOrphan(m) ==
  /\ m \in sweep.left /\ (sweep.now # None => del[sweep.now] = "none")
  /\ sweep' = [left |-> sweep.left \ {m}, now |-> IF sweep.left = {m} THEN None ELSE m]
  /\ del' = IF token = "valid" /\ m \in row /\ del[m] = "none"
            THEN [del EXCEPT ![m] = "found"] ELSE del
  /\ UNCHANGED <<upload, file, row, told, alive, job, posts, token, reading, seen, listed,
                 cut, faults>>

TokenExpires ==
  /\ token = "valid" /\ token' = "expired"
  /\ Fault
  /\ UNCHANGED <<service, posts, reading, seen, listed, sweep, cut>>

\* What the tab has read stays in the cache.
SignInAgain ==
  /\ token = "expired" /\ token' = "valid"
  /\ UNCHANGED <<service, posts, reading, seen, listed, sweep, cut, faults>>

Next ==
  \/ \E m \in Media : \/ Save(m) \/ Insert(m) \/ FindForDelete(m) \/ Unlink(m) \/ DeleteRow(m)
                      \/ DeleteOrphan(m)
  \/ AuthorDeleted \/ SelectFiles \/ UnlinkNext \/ DeleteRows \/ AckDeletion \/ AckLost
  \/ LoopEnds \/ CrashMedia
  \/ \E p \in Posts : \/ DeletePost(p)
                      \/ \E at \in {"hidden", "public"}, shows \in SUBSET Media :
                           WritePost(p, at, shows)
  \/ FetchAllPosts \/ ReadPage \/ ReadingFails \/ ListMedia \/ DeleteAllOrphans
  \/ TokenExpires \/ SignInAgain

Spec == Init /\ [][Next]_vars

\* The subscriber goes on with the event while its loop runs.
FairSpec == Spec /\ WF_vars(SelectFiles \/ UnlinkNext \/ DeleteRows \/ AckDeletion)

-----------------------------------------------------------------------------
(* Properties.                                                             *)

\* The state is typed; a row is made by an upload that has come to its end.
TypeOK ==
  /\ upload \in [Media -> {"none", "saved", "stored", "failed"}]
  /\ file \in SUBSET Media
  /\ row \in SUBSET {m \in Media : upload[m] = "stored"}
  /\ del \in [Media -> {"none", "found", "unlinked"}]
  /\ told \in {"no", "pending", "acked"} /\ alive \in BOOLEAN
  /\ job \in [at : {"files", "ack"}, left : SUBSET Media] \union {None}
  /\ posts \in [Posts -> Post]
  /\ token \in {"valid", "expired"}
  /\ reading \in Reading \union {None}
  /\ seen \in Seen \union {None}
  /\ listed \in (SUBSET Media) \union {None}
  /\ sweep \in [left : SUBSET Media, now : Media \union {None}]
  /\ cut \in SUBSET Media
  /\ faults \in Nat

\* A row without its file is being deleted, or its author is, and a file without a row is
\* being uploaded, or was while its author was deleted; unless a statement about it failed.
FilesMatchRows ==
  \A m \in Media \ cut :
    /\ m \in row \ file => del[m] = "unlinked" \/ told = "pending"
    /\ m \in file \ row => upload[m] = "saved" \/ told # "no"

\* The sweep spares what one and the same post has shown ever since its posts were asked
\* for, if they were read as an admin, and none was deleted meanwhile.
SweepSparesShown ==
  [][sweep = NoSweep /\ seen # None /\ seen.whole =>
       \A m \in sweep'.left, p \in Posts : <<p, m>> \notin seen.kept]_vars

\* What a deleted author had uploaded goes, row and file, through any crashes and lost
\* acks; unless an error about it was passed over, or has ended the loop.
DeletionReachesMedia ==
  \A m \in Media :
    (told = "pending" /\ job = None /\ m \in row) ~> (m \notin row \union file \/ m \in cut \/ ~alive)
=============================================================================
