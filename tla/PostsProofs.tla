----------------------------- MODULE PostsProofs -----------------------------
(***************************************************************************)
(* Theorems about Posts and Search, for every set of ids, texts, tags and  *)
(* request slots and every bound.                                          *)
(*    Posts: types; published rows are dated; post.published follows the   *)
(*    post itself; links join rows; a deleted post stays gone.             *)
(*    Search: types; no fault but a lost volume makes the indexer skip an  *)
(*    event; and if nothing disturbs it, the index agrees with the posts   *)
(*    at rest.                                                             *)
(***************************************************************************)
EXTENDS Search, EventStreamProofs

-----------------------------------------------------------------------------
(* Types.  What a request holds depends on where it is.                    *)

Sound(q) ==
  /\ q.at # "idle" => q.post \in Posts
  /\ q.at \in {"announce", "publish"} => q.row \in Row
  /\ q.at = "update" => q.seen \in Seen
  /\ q.at = "newtag" => q.name \in Tags

TInv == TypeOK /\ \A r \in Requests : Sound(req[r])

LEMMA IdleIsSound == Idle \in Request /\ Sound(Idle)
<1>1. NoBody \in Body
  BY DEF NoBody, Body
<1>2. Idle \in Request
  BY <1>1 DEF Idle, Request, Places
<1> QED
  BY <1>2 DEF Idle, Sound

LEMMA TypesInit == Init => TInv
<1> SUFFICES ASSUME Init PROVE TInv
  OBVIOUS
<1>1. << >> \in Seq(Event)
  OBVIOUS
<1>2. req \in [Requests -> Request] /\ \A r \in Requests : Sound(req[r])
  BY IdleIsSound DEF Init
<1>3. faults \in 0 .. MaxFaults
  BY PostConstants DEF Init
<1> QED
  BY <1>1, <1>2, <1>3 DEF Init, TInv, TypeOK

(* A request that becomes sound leaves the requests typed and sound.       *)
LEMMA RequestBecomes ==
  ASSUME TInv, NEW r \in Requests, NEW q \in Request, Sound(q), Become(r, q)
  PROVE  /\ req' \in [Requests -> Request]
         /\ \A s \in Requests : Sound(req'[s])
         /\ \A s \in Requests : req'[s] = IF s = r THEN q ELSE req[s]
BY DEF TInv, TypeOK, Become

(* The row an UPDATE leaves behind is a row.                               *)
LEMMA EditedIsRow ==
  ASSUME NEW row \in Row, NEW body \in Body, NEW seen \in Seen
  PROVE  Edited(row, body, seen) \in Row
<1> DEFINE e == Edited(row, body, seen)
<1>1. e.dated \in BOOLEAN
  BY Zenon DEF Edited
<1>2. e.author \in Authors /\ e.text \in Texts /\ e.status \in Statuses
  BY DEF Edited, Row, Body
<1>3. e = [author |-> e.author, text |-> e.text, status |-> e.status, dated |-> e.dated]
  BY DEF Edited
<1> HIDE DEF e
<1>4. e \in Row
  BY <1>1, <1>2, <1>3 DEF Row
<1> QED
  BY <1>4 DEF e

LEMMA AnnouncementIsEvent ==
  ASSUME NEW q \in Request, q.post \in Posts, q.row \in Row
  PROVE  Announcement(q) \in Event
BY DEF Announcement, Event, Request, Row

THEOREM TypesStep == TInv /\ [Next]_vars => TInv'
<1> SUFFICES ASSUME TInv, [Next]_vars PROVE TInv'
  OBVIOUS
<1> USE PostConstants
<1>0. \A r \in Requests : req[r] \in Request /\ Sound(req[r])
  BY DEF TInv, TypeOK
\* A request moves and the tables stay typed.
<1>1. ASSUME NEW r \in Requests, NEW q \in Request, Sound(q), Become(r, q),
             post' \in [Posts -> Row \union {Absent}], tagged' \in [Posts -> SUBSET Tags],
             tags' \in SUBSET Tags, used' \in SUBSET Posts, log' \in Seq(Event),
             faults' \in 0 .. MaxFaults
      PROVE  TInv'
  BY <1>1, RequestBecomes DEF TInv, TypeOK
\* A request moves and nothing else does.
<1>2. ASSUME NEW r \in Requests, NEW q \in Request, Sound(q), Become(r, q),
             UNCHANGED <<post, tagged, tags, used, log, faults>>
      PROVE  TInv'
  BY <1>1, <1>2 DEF TInv, TypeOK
\* A request ends.
<1>3. ASSUME NEW r \in Requests, Finish(r),
             tagged' \in [Posts -> SUBSET Tags], log' \in Seq(Event), faults' \in 0 .. MaxFaults,
             UNCHANGED <<post, tags, used>>
      PROVE  TInv'
  BY <1>1, <1>3, IdleIsSound DEF Finish, TInv, TypeOK
<1>4. ASSUME NEW r \in Requests, NEW p \in Posts, NEW a \in Authors, NEW body \in Body,
             NEW twice \in BOOLEAN, CreatePost(r, p, a, body, twice)
      PROVE  TInv'
  <2> DEFINE new == [author |-> a, text |-> body.text, status |-> body.status,
                     dated |-> body.status = "published"]
             q == [Idle EXCEPT !.at = "tags", !.post = p, !.row = new, !.twice = twice,
                               !.body = [NoBody EXCEPT !.tags = body.tags],
                               !.left = body.tags]
  <2>1. new \in Row
    <3>1. body.text \in Texts /\ body.status \in Statuses
      BY <1>4 DEF CreatePost, Body, Statuses
    <3>2. (body.status = "published") \in BOOLEAN
      BY Zenon
    <3> QED
      BY <3>1, <3>2 DEF Row
  <2>2. body.tags \in SUBSET Tags
    BY <1>4 DEF CreatePost, Body
  <2>3. [NoBody EXCEPT !.tags = body.tags] \in Body
    BY <2>2 DEF NoBody, Body
  <2>4. /\ post' = [post EXCEPT ![p] = new] /\ Become(r, q)
        /\ used' = used \union {p} /\ UNCHANGED <<tagged, tags, log, faults>>
    BY <1>4 DEF CreatePost
  <2> HIDE DEF new
  <2>5. q \in Request /\ Sound(q)
    BY <2>1, <2>2, <2>3, IdleIsSound DEF Idle, Request, Places, Sound
  <2> HIDE DEF q
  <2> QED
    BY <1>1, <2>1, <2>4, <2>5 DEF TInv, TypeOK
<1>5. ASSUME NEW r \in Requests, NEW p \in Posts, NEW body \in Body,
             NEW twice \in BOOLEAN, FindForUpdate(r, p, body, twice)
      PROVE  TInv'
  <2> DEFINE seen == [public |-> post[p].status = "published", dated |-> post[p].dated]
             q == [Idle EXCEPT !.at = "update", !.post = p, !.body = body, !.seen = seen,
                               !.twice = twice]
  <2>1. seen \in Seen
    <3>1. post[p] \in Row
      BY <1>5 DEF FindForUpdate, TInv, TypeOK
    <3>2. post[p].dated \in BOOLEAN
      BY <3>1 DEF Row
    <3>3. (post[p].status = "published") \in BOOLEAN
      BY Zenon
    <3> QED
      BY <3>2, <3>3 DEF Seen
  <2>2. Become(r, q) /\ UNCHANGED <<post, tagged, tags, used, log, faults>>
    BY <1>5 DEF FindForUpdate
  <2> HIDE DEF seen
  <2>3. q \in Request /\ Sound(q)
    BY <2>1, IdleIsSound DEF Idle, Request, Places, Sound
  <2> HIDE DEF q
  <2> QED
    BY <1>2, <2>2, <2>3
<1>6. ASSUME NEW r \in Requests, NEW p \in Posts, FindForDelete(r, p) PROVE TInv'
  <2> DEFINE q == [Idle EXCEPT !.at = "delete", !.post = p]
  <2>1. q \in Request /\ Sound(q)
    BY IdleIsSound DEF Idle, Request, Places, Sound
  <2>2. Become(r, q) /\ UNCHANGED <<post, tagged, tags, used, log, faults>>
    BY <1>6 DEF FindForDelete
  <2> HIDE DEF q
  <2> QED
    BY <1>2, <2>1, <2>2
<1>7. ASSUME NEW r \in Requests, UpdatePost(r) PROVE TInv'
  <2> DEFINE p == req[r].post
             new == IF post[p] = Absent THEN Absent ELSE Edited(post[p], req[r].body, req[r].seen)
             q == [req[r] EXCEPT !.at = IF req[r].body.tags = Absent THEN "read" ELSE "unlink",
                                 !.body = [NoBody EXCEPT !.tags = req[r].body.tags],
                                 !.row = new, !.left = Wanted(req[r])]
  <2>1. p \in Posts /\ req[r].body \in Body /\ req[r].seen \in Seen
    BY <1>0, <1>7 DEF UpdatePost, Sound, Request
  <2>2. new \in Row \union {Absent}
    BY <2>1, EditedIsRow DEF TInv, TypeOK
  <2>3. [NoBody EXCEPT !.tags = req[r].body.tags] \in Body /\ Wanted(req[r]) \in SUBSET Tags
    BY <2>1 DEF NoBody, Body, Wanted
  <2>4. /\ post' = [post EXCEPT ![p] = new] /\ Become(r, q)
        /\ UNCHANGED <<tagged, tags, used, log, faults>>
    BY <1>7 DEF UpdatePost
  <2> HIDE DEF new
  <2>5. q \in Request /\ Sound(q)
    BY <1>0, <2>1, <2>2, <2>3 DEF Request, Places, Sound
  <2> HIDE DEF p, q
  <2> QED
    BY <1>1, <2>1, <2>2, <2>4, <2>5 DEF TInv, TypeOK
<1>8. ASSUME NEW r \in Requests, UnlinkTags(r) PROVE TInv'
  <2> DEFINE q == [req[r] EXCEPT !.at = "tags"]
  <2>1. q \in Request /\ Sound(q)
    BY <1>0, <1>8 DEF UnlinkTags, Request, Places, Sound
  <2>2. /\ tagged' = [tagged EXCEPT ![req[r].post] = {}] /\ Become(r, q)
        /\ UNCHANGED <<post, tags, used, log, faults>>
    BY <1>8 DEF UnlinkTags
  <2> HIDE DEF q
  <2> QED
    BY <1>1, <2>1, <2>2 DEF TInv, TypeOK
<1>9. ASSUME NEW r \in Requests, FindTag(r) PROVE TInv'
  <2> DEFINE q0 == [req[r] EXCEPT !.at = "link"]
             q1(g) == [req[r] EXCEPT !.left = req[r].left \ {g}]
             q2(g) == [req[r] EXCEPT !.at = "newtag", !.name = g]
  <2>1. q0 \in Request /\ Sound(q0)
    BY <1>0, <1>9 DEF FindTag, Request, Places, Sound
  <2>2. \A g \in req[r].left : /\ q1(g) \in Request /\ Sound(q1(g))
                               /\ q2(g) \in Request /\ Sound(q2(g))
    <3> SUFFICES ASSUME NEW g \in req[r].left
                 PROVE  /\ q1(g) \in Request /\ Sound(q1(g))
                        /\ q2(g) \in Request /\ Sound(q2(g))
      OBVIOUS
    <3>1. g \in Tags /\ req[r] \in Request /\ req[r].at = "tags" /\ req[r].post \in Posts
      BY <1>0, <1>9 DEF FindTag, Request, Sound
    <3> QED
      BY <3>1 DEF Request, Places, Sound
  <2>3. UNCHANGED <<post, tagged, tags, used, log, faults>>
    BY <1>9 DEF FindTag
  <2>4. Become(r, q0) \/ \E g \in req[r].left : Become(r, q1(g)) \/ Become(r, q2(g))
    BY <1>9 DEF FindTag
  <2> HIDE DEF q0, q1, q2
  <2> QED
    BY <1>2, <2>1, <2>2, <2>3, <2>4
<1>10. ASSUME NEW r \in Requests, InsertTag(r) PROVE TInv'
  <2> DEFINE q == [req[r] EXCEPT !.at = "tags", !.left = req[r].left \ {req[r].name},
                                 !.name = Absent]
  <2>1. q \in Request /\ Sound(q)
    BY <1>0, <1>10 DEF InsertTag, Request, Places, Sound
  <2>2. /\ tags' = tags \union {req[r].name} /\ Become(r, q)
        /\ UNCHANGED <<post, tagged, used, log, faults>>
    BY <1>10 DEF InsertTag
  <2>3. req[r].name \in Tags
    BY <1>0, <1>10 DEF InsertTag, Sound
  <2> HIDE DEF q
  <2> QED
    BY <1>1, <2>1, <2>2, <2>3 DEF TInv, TypeOK
<1>11. ASSUME NEW r \in Requests, TagRefused(r) \/ LinkRefused(r) PROVE TInv'
  BY <1>3, <1>11 DEF TagRefused, LinkRefused, TInv, TypeOK
<1>12. ASSUME NEW r \in Requests, LinkTags(r) PROVE TInv'
  <2> DEFINE q == [req[r] EXCEPT !.at = "read", !.body = NoBody]
  <2>1. q \in Request /\ Sound(q)
    BY <1>0, <1>12, IdleIsSound DEF LinkTags, Request, Places, Sound, NoBody, Body
  <2>2. /\ tagged' = [tagged EXCEPT ![req[r].post] = @ \union Wanted(req[r])] /\ Become(r, q)
        /\ UNCHANGED <<post, tags, used, log, faults>>
    BY <1>12 DEF LinkTags
  <2>3. Wanted(req[r]) \in SUBSET Tags
    BY <1>0 DEF Wanted, Request, Body
  <2> HIDE DEF q
  <2> QED
    BY <1>1, <2>1, <2>2, <2>3 DEF TInv, TypeOK
<1>13. ASSUME NEW r \in Requests, ReadTags(r) PROVE TInv'
  <2> DEFINE q == [req[r] EXCEPT !.at = "announce", !.shown = tagged[req[r].post]]
  <2>1. UNCHANGED <<post, tagged, tags, used, log, faults>>
    BY <1>13 DEF ReadTags
  <2>2. CASE Finish(r)
    BY <1>3, <2>1, <2>2 DEF TInv, TypeOK
  <2>3. CASE req[r].row # Absent /\ Become(r, q)
    <3>1. req[r].row \in Row /\ req[r].post \in Posts
      BY <1>0, <1>13, <2>3 DEF ReadTags, Request, Sound
    <3>2. tagged[req[r].post] \in SUBSET Tags
      BY <3>1 DEF TInv, TypeOK
    <3>3. q \in Request /\ Sound(q)
      BY <1>0, <3>1, <3>2 DEF Request, Places, Sound
    <3> HIDE DEF q
    <3> QED
      BY <1>2, <2>1, <2>3, <3>3
  <2> QED
    BY <1>13, <2>2, <2>3 DEF ReadTags
<1>14. ASSUME NEW r \in Requests, DeletePost(r) PROVE TInv'
  <2> DEFINE q == [req[r] EXCEPT !.at = "retract"]
  <2>1. q \in Request /\ Sound(q)
    BY <1>0, <1>14 DEF DeletePost, Request, Places, Sound
  <2>2. /\ post' = [post EXCEPT ![req[r].post] = Absent]
        /\ tagged' = [tagged EXCEPT ![req[r].post] = {}] /\ Become(r, q)
        /\ UNCHANGED <<tags, used, log, faults>>
    BY <1>14 DEF DeletePost
  <2> HIDE DEF q
  <2> QED
    BY <1>1, <2>1, <2>2 DEF TInv, TypeOK
<1>15. ASSUME NEW r \in Requests, Announce(r) PROVE TInv'
  <2> DEFINE q == [req[r] EXCEPT !.at = "publish"]
  <2>1. q \in Request /\ Sound(q)
    BY <1>0, <1>15 DEF Announce, Request, Places, Sound
  <2>2. log' \in Seq(Event)
    <3>1. Announcement(req[r]) \in Event
      BY <1>0, <1>15, AnnouncementIsEvent DEF Announce, Sound
    <3> QED
      BY <1>15, <3>1 DEF Announce, TInv, TypeOK
  <2>3. (Become(r, q) \/ Finish(r)) /\ UNCHANGED <<post, tagged, tags, used, faults>>
    BY <1>15 DEF Announce
  <2> HIDE DEF q
  <2> QED
    BY <1>1, <1>3, <2>1, <2>2, <2>3 DEF TInv, TypeOK
<1>16. ASSUME NEW r \in Requests, AnnouncePublished(r) \/ AnnounceDeleted(r) PROVE TInv'
  <2>1. log' \in Seq(Event)
    <3>1. /\ req[r].post \in Posts
          /\ AnnouncePublished(r) => req[r].row \in Row
      BY <1>0, <1>16 DEF AnnouncePublished, AnnounceDeleted, Sound
    <3>2. CASE AnnouncePublished(r)
      BY <3>1, <3>2 DEF AnnouncePublished, TInv, TypeOK, Event, Row
    <3>3. CASE AnnounceDeleted(r)
      BY <3>1, <3>3 DEF AnnounceDeleted, TInv, TypeOK, Event
    <3> QED
      BY <1>16, <3>2, <3>3
  <2> QED
    BY <1>3, <1>16, <2>1 DEF AnnouncePublished, AnnounceDeleted, TInv, TypeOK
<1>17. CanFail => faults + 1 \in 0 .. MaxFaults
  BY DEF CanFail, TInv, TypeOK
<1>18. ASSUME NEW r \in Requests, PublicationFails(r) PROVE TInv'
  BY <1>3, <1>17, <1>18 DEF PublicationFails, TInv, TypeOK
<1>19. ASSUME NEW a \in Authors, ArchivePosts(a) PROVE TInv'
  <2>1. \A p \in Posts : post[p] # Absent => [post[p] EXCEPT !.status = "archived"] \in Row
    BY DEF TInv, TypeOK, Row, Statuses
  <2>2. post' \in [Posts -> Row \union {Absent}]
    BY <1>19, <2>1 DEF ArchivePosts, TInv, TypeOK
  <2> QED
    BY <1>19, <2>2 DEF ArchivePosts, TInv, TypeOK
<1>20. CASE CrashPosts
  <2>1. req' \in [Requests -> Request] /\ \A r \in Requests : Sound(req'[r])
    BY <1>20, IdleIsSound DEF CrashPosts
  <2> QED
    BY <1>17, <1>20, <2>1 DEF CrashPosts, TInv, TypeOK
<1>21. CASE UNCHANGED vars
  BY <1>21 DEF vars, postVars, TInv, TypeOK
<1> QED
  BY <1>4, <1>5, <1>6, <1>7, <1>8, <1>9, <1>10, <1>11, <1>12, <1>13, <1>14, <1>15, <1>16,
     <1>18, <1>19, <1>20, <1>21 DEF Next, Resume

(* Every reachable state is typed, and every request holds what its place  *)
(* calls for.                                                              *)
THEOREM TypeInvariant == Spec => []TInv
BY TypesInit, TypesStep, PTL DEF Spec

THEOREM TypesCorrect == Spec => []TypeOK
<1>1. TInv => TypeOK
  BY DEF TInv
<1> QED
  BY <1>1, TypeInvariant, PTL

-----------------------------------------------------------------------------
(* A deleted post stays gone.                                              *)

LEMMA OnlyUpdatesWrite ==
  ASSUME TInv, [Next]_vars, NEW gone \in used, post[gone] = Absent
  PROVE  post'[gone] = Absent
<1> USE PostConstants
<1>0. gone \in Posts /\ post \in [Posts -> Row \union {Absent}]
  BY DEF TInv, TypeOK
<1>1. ASSUME NEW r \in Requests, NEW x \in Posts, NEW a \in Authors, NEW body \in Body,
             NEW twice \in BOOLEAN, CreatePost(r, x, a, body, twice)
      PROVE  post'[gone] = Absent
  <2>1. x # gone
    BY <1>1 DEF CreatePost
  <2> QED
    BY <1>0, <1>1, <2>1 DEF CreatePost
<1>2. ASSUME NEW r \in Requests, UpdatePost(r) PROVE post'[gone] = Absent
  BY <1>0, <1>2 DEF UpdatePost
<1>3. ASSUME NEW r \in Requests, DeletePost(r) PROVE post'[gone] = Absent
  BY <1>0, <1>3 DEF DeletePost
<1>4. ASSUME NEW a \in Authors, ArchivePosts(a) PROVE post'[gone] = Absent
  BY <1>0, <1>4 DEF ArchivePosts
<1>5. CASE post' = post
  BY <1>5
<1>6. ASSUME NEW r \in Requests, Resume(r), ~ UpdatePost(r), ~ DeletePost(r)
      PROVE  post' = post
  BY <1>6 DEF Resume, UnlinkTags, FindTag, InsertTag, TagRefused, LinkTags, LinkRefused,
              ReadTags, Announce, AnnouncePublished, AnnounceDeleted
<1>7. ASSUME NEW r \in Requests, NEW x \in Posts, NEW body \in Body, NEW twice \in BOOLEAN,
             FindForUpdate(r, x, body, twice) \/ FindForDelete(r, x)
      PROVE  post' = post
  BY <1>7 DEF FindForUpdate, FindForDelete
<1>8. ASSUME NEW r \in Requests, PublicationFails(r) PROVE post' = post
  BY <1>8 DEF PublicationFails
<1>9. CrashPosts \/ UNCHANGED vars => post' = post
  BY DEF CrashPosts, vars, postVars
<1>10. ASSUME NEW r \in Requests, Resume(r) PROVE post'[gone] = Absent
  BY <1>2, <1>3, <1>5, <1>6, <1>10
<1>11. ASSUME NEW r \in Requests, NEW x \in Posts, NEW body \in Body, NEW twice \in BOOLEAN,
              \/ \E a \in Authors : CreatePost(r, x, a, body, twice)
              \/ FindForUpdate(r, x, body, twice) \/ FindForDelete(r, x)
       PROVE  post'[gone] = Absent
  BY <1>1, <1>5, <1>7, <1>11
<1>12. ASSUME NEW r \in Requests, PublicationFails(r) PROVE post'[gone] = Absent
  BY <1>5, <1>8, <1>12
<1>13. CrashPosts \/ UNCHANGED vars => post'[gone] = Absent
  BY <1>5, <1>9
<1>14. CASE Next
  <2>1. CASE \E r \in Requests, x \in Posts, body \in Body, twice \in BOOLEAN :
                \/ \E a \in Authors : CreatePost(r, x, a, body, twice)
                \/ FindForUpdate(r, x, body, twice) \/ FindForDelete(r, x)
    BY <1>11, <2>1
  <2>2. CASE \E r \in Requests, x \in Posts : FindForDelete(r, x)
    BY <1>5, <2>2 DEF FindForDelete
  <2>3. CASE \E r \in Requests : Resume(r) \/ PublicationFails(r)
    BY <1>10, <1>12, <2>3
  <2>4. CASE (\E a \in Authors : ArchivePosts(a)) \/ CrashPosts
    BY <1>4, <1>13, <2>4
  <2> QED
    BY ONLY <1>14, <2>1, <2>2, <2>3, <2>4 DEF Next
<1> QED
  BY <1>13, <1>14

(* No update, archiving or other request in flight brings a deleted post   *)
(* back.                                                                   *)
THEOREM DeletionIsFinal == Spec => DeletedPostStaysGone
<1>1. TInv /\ [Next]_vars => [\A p \in used : post[p] = Absent => post'[p] = Absent]_vars
  BY OnlyUpdatesWrite
<1> QED
  BY <1>1, TypeInvariant, PTL DEF Spec, DeletedPostStaysGone

-----------------------------------------------------------------------------
(* Publication dates.  An update that found a date must still find it when *)
(* it writes: ids are never given twice, and dates are never taken away.   *)

DatesKept ==
  /\ \A p \in Posts : post[p] # Absent => p \in used
  /\ \A r \in Requests : req[r].at = "update" =>
        /\ req[r].post \in used
        /\ req[r].seen.dated /\ post[req[r].post] # Absent => post[req[r].post].dated

DInv == DatesKept /\ PublishedHasDate

LEMMA DatesInit == Init => DInv
BY PostConstants DEF Init, DInv, DatesKept, PublishedHasDate, Idle

\* Where the table stays and no request reads a row, dates are kept.
LEMMA DatesUntouched ==
  ASSUME DInv, post' = post, used' = used,
         \A r \in Requests : req'[r].at = "update" => req'[r] = req[r]
  PROVE  DInv'
BY DEF DInv, DatesKept, PublishedHasDate

\* Where rows only go, or keep their dates and become no more public.
LEMMA DatesOutlive ==
  ASSUME DInv, used' = used,
         \A p \in Posts : post'[p] # Absent =>
            /\ post[p] # Absent
            /\ post[p].dated => post'[p].dated
            /\ post'[p].status = "published" => post'[p].dated,
         \A r \in Requests : req'[r].at = "update" =>
            req'[r] = req[r] /\ req[r].post \in Posts
  PROVE  DInv'
BY DEF DInv, DatesKept, PublishedHasDate

THEOREM DatesStep == TInv /\ DInv /\ [Next]_vars => DInv'
<1> SUFFICES ASSUME TInv, DInv, [Next]_vars PROVE DInv'
  OBVIOUS
<1> USE PostConstants
<1>0. /\ \A r \in Requests : req[r] \in Request /\ Sound(req[r])
      /\ post \in [Posts -> Row \union {Absent}] /\ req \in [Requests -> Request]
      /\ used \in SUBSET Posts
  BY DEF TInv, TypeOK
\* A request moves on, not to its UPDATE, and the table stays.
<1>1. ASSUME NEW r \in Requests, NEW q, q.at # "update", Become(r, q),
             post' = post, used' = used
      PROVE  DInv'
  BY <1>0, <1>1, DatesUntouched DEF Become
<1>2. Idle.at # "update"
  BY DEF Idle
<1>3. ASSUME NEW r \in Requests, NEW p \in Posts, NEW a \in Authors, NEW body \in Body,
             NEW twice \in BOOLEAN, CreatePost(r, p, a, body, twice)
      PROVE  DInv'
  <2> DEFINE new == [author |-> a, text |-> body.text, status |-> body.status,
                     dated |-> body.status = "published"]
             q == [Idle EXCEPT !.at = "tags", !.post = p, !.row = new, !.twice = twice,
                               !.body = [NoBody EXCEPT !.tags = body.tags],
                               !.left = body.tags]
  <2>1. /\ post' = [post EXCEPT ![p] = new] /\ Become(r, q) /\ used' = used \union {p}
        /\ p \notin used
    BY <1>3 DEF CreatePost
  <2>2. new.status = "published" => new.dated
    OBVIOUS
  <2>3. q.at # "update"
    BY DEF Idle
  <2> HIDE DEF new, q
  <2>4. DatesKept'
    BY <1>0, <2>1, <2>3 DEF Become, DInv, DatesKept
  <2>5. PublishedHasDate'
    BY <1>0, <2>1, <2>2 DEF DInv, PublishedHasDate
  <2> QED
    BY <2>4, <2>5 DEF DInv
<1>4. ASSUME NEW r \in Requests, NEW p \in Posts, NEW body \in Body,
             NEW twice \in BOOLEAN, FindForUpdate(r, p, body, twice)
      PROVE  DInv'
  <2> DEFINE q == [Idle EXCEPT !.at = "update", !.post = p, !.body = body,
                               !.seen = [public |-> post[p].status = "published",
                                         dated |-> post[p].dated],
                               !.twice = twice]
  <2>1. Become(r, q) /\ post' = post /\ used' = used /\ post[p] # Absent
    BY <1>4 DEF FindForUpdate
  <2>2. q.post = p /\ q.seen.dated = post[p].dated
    BY DEF Idle
  <2> HIDE DEF q
  <2>3. p \in used
    BY <2>1 DEF DInv, DatesKept
  <2> QED
    BY <1>0, <2>1, <2>2, <2>3 DEF Become, DInv, DatesKept, PublishedHasDate
<1>5. ASSUME NEW r \in Requests, UpdatePost(r) PROVE DInv'
  <2> DEFINE p == req[r].post
             e == Edited(post[p], req[r].body, req[r].seen)
             new == IF post[p] = Absent THEN Absent ELSE e
             q == [req[r] EXCEPT !.at = IF req[r].body.tags = Absent THEN "read" ELSE "unlink",
                                 !.body = [NoBody EXCEPT !.tags = req[r].body.tags],
                                 !.row = new, !.left = Wanted(req[r])]
  <2>1. /\ post' = [post EXCEPT ![p] = new] /\ Become(r, q) /\ used' = used
        /\ req[r].at = "update" /\ p \in Posts
    BY <1>0, <1>5 DEF UpdatePost, Sound
  <2>2. q.at # "update"
    BY <1>0 DEF Request
  <2>3. post[p].dated => e.dated
    BY DEF Edited
  <2>4. post[p] # Absent /\ e.status = "published" => e.dated
    <3>1. post[p] # Absent => (req[r].seen.dated => post[p].dated)
      BY <2>1 DEF DInv, DatesKept
    <3>2. post[p] # Absent /\ post[p].status = "published" => post[p].dated
      BY <2>1 DEF DInv, PublishedHasDate
    <3>3. req[r].body.status = Absent => e.status = post[p].status
      BY DEF Edited
    <3>4. req[r].body.status # Absent => e.status = req[r].body.status
      BY DEF Edited
    <3>5. e.dated = (post[p].dated \/ (req[r].body.status = "published" /\ ~ req[r].seen.dated))
      BY DEF Edited
    <3> HIDE DEF e, p
    <3> QED
      BY <3>1, <3>2, <3>3, <3>4, <3>5, Zenon
  <2>5. \A s \in Requests : req'[s].at = "update" => req'[s] = req[s] /\ req[s].post \in Posts
    <3> HIDE DEF q
    <3> QED
      BY <1>0, <2>1, <2>2 DEF Become, Sound
  <2> HIDE DEF e, q, p
  <2>6. \A x \in Posts : post'[x] # Absent =>
            /\ post[x] # Absent
            /\ post[x].dated => post'[x].dated
            /\ post'[x].status = "published" => post'[x].dated
    BY <1>0, <2>1, <2>3, <2>4 DEF DInv, PublishedHasDate
  <2> QED
    BY <2>1, <2>5, <2>6, DatesOutlive
<1>6. ASSUME NEW r \in Requests, DeletePost(r) PROVE DInv'
  <2> DEFINE q == [req[r] EXCEPT !.at = "retract"]
  <2>1. /\ post' = [post EXCEPT ![req[r].post] = Absent] /\ Become(r, q) /\ used' = used
        /\ req[r].post \in Posts
    BY <1>0, <1>6 DEF DeletePost, Sound
  <2>2. q.at # "update"
    BY <1>0 DEF Request
  <2> HIDE DEF q
  <2>3. \A s \in Requests : req'[s].at = "update" => req'[s] = req[s] /\ req[s].post \in Posts
    BY <1>0, <2>1, <2>2 DEF Become, Sound
  <2> QED
    BY <1>0, <2>1, <2>3, DatesOutlive DEF DInv, PublishedHasDate
<1>7. ASSUME NEW a \in Authors, ArchivePosts(a) PROVE DInv'
  <2>1. \A x \in Posts : post'[x] # Absent =>
            /\ post[x] # Absent
            /\ post[x].dated => post'[x].dated
            /\ post'[x].status = "published" => post'[x].dated
    <3> TAKE x \in Posts
    <3>1. post'[x] = post[x] \/ (post[x] # Absent /\ post'[x] = [post[x] EXCEPT !.status = "archived"])
      BY <1>7 DEF ArchivePosts
    <3>2. CASE post'[x] = post[x]
      BY <3>2 DEF DInv, PublishedHasDate
    <3>3. CASE post[x] # Absent /\ post'[x] = [post[x] EXCEPT !.status = "archived"]
      <4>1. post[x] \in Row
        BY <1>0, <3>3
      <4> QED
        BY <3>3, <4>1 DEF Row
    <3> QED
      BY <3>1, <3>2, <3>3
  <2>2. \A s \in Requests : req'[s].at = "update" => req'[s] = req[s] /\ req[s].post \in Posts
    BY <1>0, <1>7 DEF ArchivePosts, Sound
  <2> QED
    BY <1>7, <2>1, <2>2, DatesOutlive DEF ArchivePosts
\* The other statements and publications.
<1>8. ASSUME NEW r \in Requests, Resume(r), ~ UpdatePost(r), ~ DeletePost(r) PROVE DInv'
  <2>1. post' = post /\ used' = used
    BY <1>8 DEF Resume, UnlinkTags, FindTag, InsertTag, TagRefused, LinkTags, LinkRefused,
                ReadTags, Announce, AnnouncePublished, AnnounceDeleted
  <2>2. \E q : q.at # "update" /\ Become(r, q)
    <3>1. \A x \in {"tags", "link", "newtag", "read", "announce", "publish"} : x # "update"
      OBVIOUS
    <3>2. CASE Finish(r)
      BY <1>2, <3>2 DEF Finish
    <3>3. CASE UnlinkTags(r) \/ FindTag(r) \/ InsertTag(r)
      BY <1>0, <3>3 DEF UnlinkTags, FindTag, InsertTag, Request
    <3>4. CASE LinkTags(r) \/ ReadTags(r) \/ Announce(r)
      BY <1>0, <3>2, <3>4 DEF LinkTags, ReadTags, Announce, Request
    <3>5. CASE TagRefused(r) \/ LinkRefused(r) \/ AnnouncePublished(r) \/ AnnounceDeleted(r)
      BY <3>2, <3>5 DEF TagRefused, LinkRefused, AnnouncePublished, AnnounceDeleted
    <3> QED
      BY <1>8, <3>3, <3>4, <3>5 DEF Resume
  <2> QED
    BY <1>1, <2>1, <2>2
<1>9. ASSUME NEW r \in Requests, NEW p \in Posts, FindForDelete(r, p) PROVE DInv'
  <2> DEFINE q == [Idle EXCEPT !.at = "delete", !.post = p]
  <2>1. q.at # "update" /\ Become(r, q) /\ post' = post /\ used' = used
    BY <1>9 DEF FindForDelete, Idle
  <2> HIDE DEF q
  <2> QED
    BY <1>1, <2>1
<1>10. ASSUME NEW r \in Requests, PublicationFails(r) PROVE DInv'
  BY <1>1, <1>2, <1>10 DEF PublicationFails, Finish
<1>11. CASE CrashPosts
  BY <1>2, <1>11, DatesUntouched DEF CrashPosts
<1>12. CASE UNCHANGED vars
  BY <1>12, DatesUntouched DEF vars, postVars
<1>13. ASSUME NEW r \in Requests, Resume(r) PROVE DInv'
  BY <1>5, <1>6, <1>8, <1>13
<1> QED
  BY ONLY [Next]_vars, <1>3, <1>4, <1>7, <1>9, <1>10, <1>11, <1>12, <1>13 DEF Next

(* A public post has a publication date, however updates, deletions and    *)
(* archiving overlap.                                                      *)
THEOREM PublicPostsAreDated == Spec => []PublishedHasDate
<1>1. DInv => PublishedHasDate
  BY DEF DInv
<1> QED
  BY <1>1, DatesInit, DatesStep, TypeInvariant, PTL DEF Spec

-----------------------------------------------------------------------------
(* post.published comes after the published post itself: a request that is *)
(* about to announce the publication has announced the post.               *)

Told(l, p, t) ==
  \E j \in DOMAIN l : /\ l[j].post = p
                      /\ l[j].kind \in {"created", "updated"}
                      /\ l[j].status = "published"
                      /\ l[j].text = t

Publishers ==
  \A r \in Requests : req[r].at = "publish" => Told(log, req[r].post, req[r].row.text)

PInv == Publishers /\ PublishedIsAnnounced

LEMMA PublishersInit == Init => PInv
BY DEF Init, PInv, Publishers, PublishedIsAnnounced, Idle

\* One more event leaves what was told told.
LEMMA AppendTells ==
  ASSUME NEW l \in Seq(Event), NEW e \in Event, NEW p, NEW t, Told(l, p, t)
  PROVE  Told(Append(l, e), p, t)
BY DEF Told

\* The stream grows by an event which is no publication or was foretold.
LEMMA AnnouncedAppends ==
  ASSUME log \in Seq(Event), PublishedIsAnnounced, NEW e \in Event,
         log' = Append(log, e),
         e.kind = "published" => Told(log, e.post, e.text)
  PROVE  PublishedIsAnnounced'
<1>1. /\ DOMAIN log = 1 .. Len(log) /\ Len(log) \in Nat
      /\ DOMAIN log' = 1 .. (Len(log) + 1)
      /\ \A i \in 1 .. Len(log) : log'[i] = log[i]
      /\ log'[Len(log) + 1] = e
  OBVIOUS
<1>2. SUFFICES ASSUME NEW i \in DOMAIN log', log'[i].kind = "published"
               PROVE  \E j \in 1 .. (i - 1) :
                         /\ log'[j].post = log'[i].post
                         /\ log'[j].kind \in {"created", "updated"}
                         /\ log'[j].status = "published"
                         /\ log'[j].text = log'[i].text
  BY DEF PublishedIsAnnounced
<1>3. CASE i \in 1 .. Len(log)
  <2>1. PICK j \in 1 .. (i - 1) : /\ log[j].post = log[i].post
                                  /\ log[j].kind \in {"created", "updated"}
                                  /\ log[j].status = "published"
                                  /\ log[j].text = log[i].text
    BY <1>1, <1>2, <1>3 DEF PublishedIsAnnounced
  <2>2. j \in 1 .. Len(log) /\ log'[j] = log[j] /\ log'[i] = log[i]
    BY <1>1, <1>3
  <2> QED
    BY <2>1, <2>2
<1>4. CASE i = Len(log) + 1
  <2>1. PICK j \in 1 .. Len(log) : /\ log[j].post = e.post
                                   /\ log[j].kind \in {"created", "updated"}
                                   /\ log[j].status = "published"
                                   /\ log[j].text = e.text
    BY <1>1, <1>2, <1>4 DEF Told
  <2>2. log'[j] = log[j] /\ log'[i] = e /\ j \in 1 .. (i - 1)
    BY <1>1, <1>4
  <2> QED
    BY <2>1, <2>2
<1> QED
  BY <1>1, <1>3, <1>4

THEOREM PublishersStep == TInv /\ PInv /\ [Next]_vars => PInv'
<1> SUFFICES ASSUME TInv, PInv, [Next]_vars PROVE PInv'
  OBVIOUS
<1> USE PostConstants
<1>0. /\ \A r \in Requests : req[r] \in Request /\ Sound(req[r])
      /\ req \in [Requests -> Request] /\ log \in Seq(Event)
  BY DEF TInv, TypeOK
\* A request moves on, not to a publication, and the stream stays.
<1>1. ASSUME NEW r \in Requests, NEW q, q.at # "publish", Become(r, q), log' = log
      PROVE  PInv'
  BY <1>0, <1>1 DEF Become, PInv, Publishers, PublishedIsAnnounced
<1>2. Idle.at # "publish"
  BY DEF Idle
\* It does so after an event.
<1>3. ASSUME NEW r \in Requests, NEW q, Become(r, q), NEW e \in Event, log' = Append(log, e),
             e.kind = "published" => Told(log, e.post, e.text),
             q.at = "publish" => Told(log', q.post, q.row.text)
      PROVE  PInv'
  <2>1. PublishedIsAnnounced'
    BY <1>0, <1>3, AnnouncedAppends DEF PInv
  <2>2. \A s \in Requests : req[s].at = "publish" => Told(log', req[s].post, req[s].row.text)
    BY <1>0, <1>3, AppendTells DEF PInv, Publishers
  <2>3. Publishers'
    BY <1>0, <1>3, <2>2 DEF Become, Publishers
  <2> QED
    BY <2>1, <2>3 DEF PInv
<1>4. ASSUME NEW r \in Requests, Announce(r) PROVE PInv'
  <2> DEFINE q == [req[r] EXCEPT !.at = "publish"]
             e == Announcement(req[r])
  <2>1. req[r].row \in Row /\ req[r].post \in Posts
    BY <1>0, <1>4 DEF Announce, Sound
  <2>2. e \in Event
    BY <1>0, <2>1, AnnouncementIsEvent
  <2>3. /\ e.kind \in {"created", "updated"} /\ e.post = req[r].post
        /\ e.text = req[r].row.text /\ e.status = req[r].row.status
    BY DEF Announcement
  <2>4. q.post = req[r].post /\ q.row = req[r].row
    BY <1>0 DEF Request
  <2>5. log' = Append(log, e)
    BY <1>4 DEF Announce
  <2>6. CASE GoesPublic(req[r]) /\ Become(r, q)
    <3>1. e.status = "published"
      BY <2>3, <2>6 DEF GoesPublic
    <3> HIDE DEF e, q
    <3>2. Told(log', q.post, q.row.text)
      <4>1. log'[Len(log) + 1] = e /\ Len(log) + 1 \in DOMAIN log'
        BY <1>0, <2>2, <2>5
      <4> QED
        BY <2>3, <2>4, <3>1, <4>1 DEF Told
    <3> QED
      BY <1>3, <2>2, <2>3, <2>5, <2>6, <3>2
  <2>7. CASE Finish(r)
    <3> HIDE DEF e, q
    <3> QED
      BY <1>2, <1>3, <2>2, <2>3, <2>5, <2>7 DEF Finish
  <2> QED
    BY <1>4, <2>6, <2>7 DEF Announce
<1>5. ASSUME NEW r \in Requests, AnnouncePublished(r) PROVE PInv'
  <2> DEFINE e == [kind |-> "published", post |-> req[r].post, author |-> req[r].row.author,
                   text |-> req[r].row.text, tags |-> {}, status |-> Absent]
  <2>1. req[r].row \in Row /\ req[r].post \in Posts /\ req[r].at = "publish"
    BY <1>0, <1>5 DEF AnnouncePublished, Sound
  <2>2. e \in Event /\ e.post = req[r].post /\ e.text = req[r].row.text
    BY <2>1 DEF Event, Row
  <2>3. log' = Append(log, e) /\ Become(r, Idle)
    BY <1>5 DEF AnnouncePublished, Finish
  <2> HIDE DEF e
  <2>4. Told(log, e.post, e.text)
    BY <2>1, <2>2 DEF PInv, Publishers
  <2> QED
    BY <1>2, <1>3, <2>2, <2>3, <2>4
<1>6. ASSUME NEW r \in Requests, AnnounceDeleted(r) PROVE PInv'
  <2> DEFINE e == [kind |-> "deleted", post |-> req[r].post, author |-> Absent,
                   text |-> Absent, tags |-> {}, status |-> Absent]
  <2>1. e \in Event /\ e.kind # "published"
    BY <1>0, <1>6 DEF AnnounceDeleted, Sound, Event
  <2>2. log' = Append(log, e) /\ Become(r, Idle)
    BY <1>6 DEF AnnounceDeleted, Finish
  <2> HIDE DEF e
  <2> QED
    BY <1>2, <1>3, <2>1, <2>2
\* The statements on the database.
<1>7. ASSUME NEW r \in Requests,
             \/ UpdatePost(r) \/ UnlinkTags(r) \/ FindTag(r) \/ InsertTag(r) \/ TagRefused(r)
             \/ LinkTags(r) \/ LinkRefused(r) \/ ReadTags(r) \/ DeletePost(r)
      PROVE  PInv'
  <2>1. log' = log
    BY <1>7 DEF UpdatePost, UnlinkTags, FindTag, InsertTag, TagRefused, LinkTags,
                LinkRefused, ReadTags, DeletePost
  <2>2. \E q : q.at # "publish" /\ Become(r, q)
    <3>1. CASE Finish(r)
      BY <1>2, <3>1 DEF Finish
    <3>2. CASE UpdatePost(r)
      <4> DEFINE new == IF post[req[r].post] = Absent THEN Absent
                        ELSE Edited(post[req[r].post], req[r].body, req[r].seen)
                 q == [req[r] EXCEPT !.at = IF req[r].body.tags = Absent THEN "read" ELSE "unlink",
                                     !.body = [NoBody EXCEPT !.tags = req[r].body.tags],
                                     !.row = new, !.left = Wanted(req[r])]
      <4>1. Become(r, q)
        BY <3>2 DEF UpdatePost
      <4>2. q.at # "publish"
        BY <1>0 DEF Request
      <4> HIDE DEF q
      <4> QED
        BY <4>1, <4>2
    <3>3. CASE UnlinkTags(r) \/ FindTag(r) \/ InsertTag(r) \/ DeletePost(r)
      BY <1>0, <3>3 DEF UnlinkTags, FindTag, InsertTag, DeletePost, Request
    <3>4. CASE LinkTags(r) \/ ReadTags(r)
      BY <1>0, <3>1, <3>4 DEF LinkTags, ReadTags, Request
    <3>5. CASE TagRefused(r) \/ LinkRefused(r)
      BY <3>1, <3>5 DEF TagRefused, LinkRefused
    <3> QED
      BY <1>7, <3>2, <3>3, <3>4, <3>5
  <2> QED
    BY <1>1, <2>1, <2>2
<1>8. ASSUME NEW r \in Requests, NEW p \in Posts, NEW a \in Authors, NEW body \in Body,
             NEW twice \in BOOLEAN, CreatePost(r, p, a, body, twice)
      PROVE  PInv'
  <2> DEFINE new == [author |-> a, text |-> body.text, status |-> body.status,
                     dated |-> body.status = "published"]
             q == [Idle EXCEPT !.at = "tags", !.post = p, !.row = new, !.twice = twice,
                               !.body = [NoBody EXCEPT !.tags = body.tags],
                               !.left = body.tags]
  <2>1. q.at # "publish" /\ Become(r, q) /\ log' = log
    BY <1>8 DEF CreatePost, Idle
  <2> HIDE DEF q
  <2> QED
    BY <1>1, <2>1
<1>9. ASSUME NEW r \in Requests, NEW p \in Posts, NEW body \in Body,
             NEW twice \in BOOLEAN, FindForUpdate(r, p, body, twice)
      PROVE  PInv'
  <2> DEFINE q == [Idle EXCEPT !.at = "update", !.post = p, !.body = body,
                               !.seen = [public |-> post[p].status = "published",
                                         dated |-> post[p].dated],
                               !.twice = twice]
  <2>1. q.at # "publish" /\ Become(r, q) /\ log' = log
    BY <1>9 DEF FindForUpdate, Idle
  <2> HIDE DEF q
  <2> QED
    BY <1>1, <2>1
<1>10. ASSUME NEW r \in Requests, NEW p \in Posts, FindForDelete(r, p) PROVE PInv'
  <2> DEFINE q == [Idle EXCEPT !.at = "delete", !.post = p]
  <2>1. q.at # "publish" /\ Become(r, q) /\ log' = log
    BY <1>10 DEF FindForDelete, Idle
  <2> HIDE DEF q
  <2> QED
    BY <1>1, <2>1
<1>11. ASSUME NEW r \in Requests, PublicationFails(r) PROVE PInv'
  BY <1>1, <1>2, <1>11 DEF PublicationFails, Finish
<1>12. ASSUME NEW a \in Authors, ArchivePosts(a) PROVE PInv'
  BY <1>12 DEF ArchivePosts, PInv, Publishers, PublishedIsAnnounced
<1>13. CASE CrashPosts
  BY <1>2, <1>13 DEF CrashPosts, PInv, Publishers, PublishedIsAnnounced
<1>14. CASE UNCHANGED vars
  BY <1>14 DEF vars, postVars, PInv, Publishers, PublishedIsAnnounced
<1>15. ASSUME NEW r \in Requests, Resume(r) PROVE PInv'
  BY <1>4, <1>5, <1>6, <1>7, <1>15 DEF Resume
<1> QED
  BY ONLY [Next]_vars, <1>8, <1>9, <1>10, <1>11, <1>12, <1>13, <1>14, <1>15 DEF Next

(* Whoever hears that a post was published has been told of the post.      *)
THEOREM PublicationsAreForetold == Spec => []PublishedIsAnnounced
<1>1. PInv => PublishedIsAnnounced
  BY DEF PInv
<1> QED
  BY <1>1, PublishersInit, PublishersStep, TypeInvariant, PTL DEF Spec

-----------------------------------------------------------------------------
(* post_tags joins rows that exist: a request that is about to link has    *)
(* seen or inserted every tag it wants, and tags are never deleted.        *)

TagsFound(q, known) ==
  /\ q.at \in {"unlink", "tags", "newtag"} => Wanted(q) \ q.left \subseteq known
  /\ q.at = "link" => Wanted(q) \subseteq known

LInv == LinksJoinRows /\ \A r \in Requests : TagsFound(req[r], tags)

LEMMA LinksInit == Init => LInv
BY DEF Init, LInv, LinksJoinRows, TagsFound, Idle

THEOREM LinksStep == TInv /\ LInv /\ [Next]_vars => LInv'
<1> SUFFICES ASSUME TInv, LInv, [Next]_vars PROVE LInv'
  OBVIOUS
<1> USE PostConstants
<1>0. /\ \A r \in Requests : req[r] \in Request /\ Sound(req[r])
      /\ req \in [Requests -> Request] /\ post \in [Posts -> Row \union {Absent}]
      /\ tagged \in [Posts -> SUBSET Tags]
  BY DEF TInv, TypeOK
\* A request moves on with the tags it has found; rows with links stay.
<1>1. ASSUME NEW r \in Requests, NEW q, Become(r, q), TagsFound(q, tags'),
             tags \subseteq tags', LinksJoinRows'
      PROVE  LInv'
  BY <1>0, <1>1 DEF Become, LInv, TagsFound
<1>2. TagsFound(Idle, tags')
  BY DEF TagsFound, Idle
\* The same, where the statement changes none of the three tables.
<1>3. ASSUME NEW r \in Requests, NEW q, Become(r, q), TagsFound(q, tags'),
             UNCHANGED <<post, tagged, tags>>
      PROVE  LInv'
  BY <1>1, <1>3 DEF LInv, LinksJoinRows
<1>4. ASSUME NEW r \in Requests, NEW p \in Posts, NEW a \in Authors, NEW body \in Body,
             NEW twice \in BOOLEAN, CreatePost(r, p, a, body, twice)
      PROVE  LInv'
  <2> DEFINE new == [author |-> a, text |-> body.text, status |-> body.status,
                     dated |-> body.status = "published"]
             q == [Idle EXCEPT !.at = "tags", !.post = p, !.row = new, !.twice = twice,
                               !.body = [NoBody EXCEPT !.tags = body.tags],
                               !.left = body.tags]
  <2>1. /\ post' = [post EXCEPT ![p] = new] /\ Become(r, q) /\ UNCHANGED <<tagged, tags>>
        /\ body.tags # Absent
    BY <1>4 DEF CreatePost
  <2>2. new # Absent
    <3>1. body.text \in Texts /\ body.status \in Statuses
      BY <1>4 DEF CreatePost, Body, Statuses
    <3>2. new.dated \in BOOLEAN
      BY Zenon
    <3>3. new = [author |-> new.author, text |-> new.text, status |-> new.status,
                 dated |-> new.dated]
      OBVIOUS
    <3>4. new.author \in Authors /\ new.text \in Texts /\ new.status \in Statuses
      BY <3>1
    <3> HIDE DEF new
    <3>5. new \in Row
      BY <3>2, <3>3, <3>4 DEF Row
    <3> QED
      BY <3>5, AbsentIsNoRow
  <2>3. TagsFound(q, tags')
    BY <2>1 DEF TagsFound, Wanted, Idle, NoBody
  <2> HIDE DEF new, q
  <2>4. LinksJoinRows'
    BY <1>0, <2>1, <2>2 DEF LInv, LinksJoinRows
  <2> QED
    BY <1>1, <2>1, <2>3, <2>4
<1>5. ASSUME NEW r \in Requests, NEW p \in Posts, NEW body \in Body,
             NEW twice \in BOOLEAN, FindForUpdate(r, p, body, twice)
      PROVE  LInv'
  <2> DEFINE q == [Idle EXCEPT !.at = "update", !.post = p, !.body = body,
                               !.seen = [public |-> post[p].status = "published",
                                         dated |-> post[p].dated],
                               !.twice = twice]
  <2>1. Become(r, q) /\ UNCHANGED <<post, tagged, tags>>
    BY <1>5 DEF FindForUpdate
  <2>2. q.at = "update"
    BY DEF Idle
  <2> HIDE DEF q
  <2>3. TagsFound(q, tags')
    BY <2>1, <2>2 DEF TagsFound
  <2> QED
    BY <1>3, <2>1, <2>3
<1>6. ASSUME NEW r \in Requests, NEW p \in Posts, FindForDelete(r, p) PROVE LInv'
  <2> DEFINE q == [Idle EXCEPT !.at = "delete", !.post = p]
  <2>1. Become(r, q) /\ UNCHANGED <<post, tagged, tags>> /\ TagsFound(q, tags')
    BY <1>6 DEF FindForDelete, Idle, TagsFound
  <2> HIDE DEF q
  <2> QED
    BY <1>3, <2>1
<1>7. ASSUME NEW r \in Requests, UpdatePost(r) PROVE LInv'
  <2> DEFINE p == req[r].post
             e == Edited(post[p], req[r].body, req[r].seen)
             new == IF post[p] = Absent THEN Absent ELSE e
             q == [req[r] EXCEPT !.at = IF req[r].body.tags = Absent THEN "read" ELSE "unlink",
                                 !.body = [NoBody EXCEPT !.tags = req[r].body.tags],
                                 !.row = new, !.left = Wanted(req[r])]
  <2>1. /\ post' = [post EXCEPT ![p] = new] /\ Become(r, q) /\ UNCHANGED <<tagged, tags>>
        /\ p \in Posts /\ req[r].body \in Body /\ req[r].seen \in Seen
    BY <1>0, <1>7 DEF UpdatePost, Sound, Request
  <2>2. TagsFound(q, tags')
    <3>1. q.at \in {"read", "unlink"} /\ q.left = Wanted(req[r])
          /\ q.body.tags = req[r].body.tags
      BY <1>0 DEF Request, NoBody
    <3>2. Wanted(q) = q.left
      BY <3>1 DEF Wanted
    <3> HIDE DEF q
    <3> QED
      BY <3>1, <3>2 DEF TagsFound, Wanted
  <2>3. post[p] # Absent => e # Absent
    BY <1>0, <2>1, EditedIsRow, AbsentIsNoRow
  <2> HIDE DEF p, e, q
  <2>4. LinksJoinRows'
    BY <1>0, <2>1, <2>3 DEF LInv, LinksJoinRows
  <2> QED
    BY <1>1, <2>1, <2>2, <2>4
<1>8. ASSUME NEW r \in Requests, UnlinkTags(r) PROVE LInv'
  <2> DEFINE q == [req[r] EXCEPT !.at = "tags"]
  <2>1. /\ tagged' = [tagged EXCEPT ![req[r].post] = {}] /\ Become(r, q)
        /\ UNCHANGED <<post, tags>> /\ req[r].at = "unlink"
    BY <1>8 DEF UnlinkTags
  <2>2. q.at = "tags" /\ q.body = req[r].body /\ q.left = req[r].left
    BY <1>0 DEF Request
  <2> HIDE DEF q
  <2>3. TagsFound(q, tags')
    BY <2>1, <2>2 DEF LInv, TagsFound, Wanted
  <2>4. LinksJoinRows'
    BY <1>0, <2>1 DEF LInv, LinksJoinRows
  <2> QED
    BY <1>1, <2>1, <2>3, <2>4
<1>9. ASSUME NEW r \in Requests, FindTag(r) PROVE LInv'
  <2> DEFINE q0 == [req[r] EXCEPT !.at = "link"]
             q1(g) == [req[r] EXCEPT !.left = req[r].left \ {g}]
             q2(g) == [req[r] EXCEPT !.at = "newtag", !.name = g]
  <2>1. UNCHANGED <<post, tagged, tags>> /\ req[r].at = "tags"
    BY <1>9 DEF FindTag
  <2>2. Wanted(req[r]) \ req[r].left \subseteq tags
    BY <2>1 DEF LInv, TagsFound
  <2>3. CASE req[r].left = {} /\ Become(r, q0)
    <3>1. q0.at = "link" /\ q0.body = req[r].body
      BY <1>0 DEF Request
    <3> HIDE DEF q0
    <3>2. TagsFound(q0, tags')
      BY <2>1, <2>2, <2>3, <3>1 DEF TagsFound, Wanted
    <3> QED
      BY <1>3, <2>1, <2>3, <3>2
  <2>4. ASSUME NEW g \in req[r].left, g \in tags, Become(r, q1(g)) PROVE LInv'
    <3> DEFINE q == q1(g)
    <3>1. q.at = "tags" /\ q.body = req[r].body /\ q.left = req[r].left \ {g}
      BY <1>0, <2>1 DEF Request
    <3>2. Become(r, q)
      BY <2>4
    <3> HIDE DEF q
    <3>3. TagsFound(q, tags')
      BY <2>1, <2>2, <2>4, <3>1 DEF TagsFound, Wanted
    <3> QED
      BY <1>3, <2>1, <3>2, <3>3
  <2>5. ASSUME NEW g \in req[r].left, Become(r, q2(g)) PROVE LInv'
    <3> DEFINE q == q2(g)
    <3>1. q.at = "newtag" /\ q.body = req[r].body /\ q.left = req[r].left
      BY <1>0 DEF Request
    <3>2. Become(r, q)
      BY <2>5
    <3> HIDE DEF q
    <3>3. TagsFound(q, tags')
      BY <2>1, <2>2, <3>1 DEF TagsFound, Wanted
    <3> QED
      BY <1>3, <2>1, <3>2, <3>3
  <2>6. \/ req[r].left = {} /\ Become(r, q0)
        \/ \E g \in req[r].left : (g \in tags /\ Become(r, q1(g))) \/ Become(r, q2(g))
    BY <1>9 DEF FindTag
  <2> HIDE DEF q0, q1, q2
  <2> QED
    BY <2>3, <2>4, <2>5, <2>6
<1>10. ASSUME NEW r \in Requests, InsertTag(r) PROVE LInv'
  <2> DEFINE q == [req[r] EXCEPT !.at = "tags", !.left = req[r].left \ {req[r].name},
                                 !.name = Absent]
  <2>1. /\ tags' = tags \union {req[r].name} /\ Become(r, q) /\ UNCHANGED <<post, tagged>>
        /\ req[r].at = "newtag"
    BY <1>10 DEF InsertTag
  <2>2. q.at = "tags" /\ q.body = req[r].body /\ q.left = req[r].left \ {req[r].name}
    BY <1>0 DEF Request
  <2> HIDE DEF q
  <2>3. TagsFound(q, tags')
    BY <2>1, <2>2 DEF LInv, TagsFound, Wanted
  <2>4. LinksJoinRows'
    BY <2>1 DEF LInv, LinksJoinRows
  <2> QED
    BY <1>1, <2>1, <2>3, <2>4
<1>11. ASSUME NEW r \in Requests, LinkTags(r) PROVE LInv'
  <2> DEFINE q == [req[r] EXCEPT !.at = "read", !.body = NoBody]
             w == Wanted(req[r])
  <2>1. /\ tagged' = [tagged EXCEPT ![req[r].post] = @ \union w] /\ Become(r, q)
        /\ UNCHANGED <<post, tags>> /\ req[r].at = "link" /\ Linkable(req[r])
    BY <1>11 DEF LinkTags
  <2>2. q.at = "read"
    BY <1>0 DEF Request
  <2> HIDE DEF q
  <2>3. TagsFound(q, tags')
    BY <2>2 DEF TagsFound
  <2>4. w \subseteq tags /\ (w = {} \/ post[req[r].post] # Absent)
    BY <2>1 DEF LInv, TagsFound, Linkable
  <2> HIDE DEF w
  <2>5. LinksJoinRows'
    BY <1>0, <2>1, <2>4 DEF LInv, LinksJoinRows
  <2> QED
    BY <1>1, <2>1, <2>3, <2>5
<1>12. ASSUME NEW r \in Requests, ReadTags(r) PROVE LInv'
  <2> DEFINE q == [req[r] EXCEPT !.at = "announce", !.shown = tagged[req[r].post]]
  <2>1. UNCHANGED <<post, tagged, tags>> /\ (Finish(r) \/ Become(r, q))
    BY <1>12 DEF ReadTags
  <2>2. q.at = "announce"
    BY <1>0 DEF Request
  <2> HIDE DEF q
  <2>3. TagsFound(q, tags')
    BY <2>2 DEF TagsFound
  <2> QED
    BY <1>2, <1>3, <2>1, <2>3 DEF Finish
<1>13. ASSUME NEW r \in Requests, DeletePost(r) PROVE LInv'
  <2> DEFINE q == [req[r] EXCEPT !.at = "retract"]
  <2>1. /\ post' = [post EXCEPT ![req[r].post] = Absent]
        /\ tagged' = [tagged EXCEPT ![req[r].post] = {}] /\ Become(r, q) /\ tags' = tags
    BY <1>13 DEF DeletePost
  <2>2. q.at = "retract"
    BY <1>0 DEF Request
  <2> HIDE DEF q
  <2>3. TagsFound(q, tags')
    BY <2>2 DEF TagsFound
  <2>4. LinksJoinRows'
    BY <1>0, <2>1 DEF LInv, LinksJoinRows
  <2> QED
    BY <1>1, <2>1, <2>3, <2>4
<1>14. ASSUME NEW r \in Requests, Announce(r) PROVE LInv'
  <2> DEFINE q == [req[r] EXCEPT !.at = "publish"]
  <2>1. UNCHANGED <<post, tagged, tags>> /\ (Finish(r) \/ Become(r, q))
    BY <1>14 DEF Announce
  <2>2. q.at = "publish"
    BY <1>0 DEF Request
  <2> HIDE DEF q
  <2>3. TagsFound(q, tags')
    BY <2>2 DEF TagsFound
  <2> QED
    BY <1>2, <1>3, <2>1, <2>3 DEF Finish
<1>15. ASSUME NEW r \in Requests,
              \/ TagRefused(r) \/ LinkRefused(r) \/ AnnouncePublished(r)
              \/ AnnounceDeleted(r) \/ PublicationFails(r)
       PROVE  LInv'
  <2>1. UNCHANGED <<post, tagged, tags>> /\ Become(r, Idle)
    BY <1>15 DEF TagRefused, LinkRefused, AnnouncePublished, AnnounceDeleted,
                 PublicationFails, Finish
  <2> QED
    BY <1>2, <1>3, <2>1
<1>16. ASSUME NEW a \in Authors, ArchivePosts(a) PROVE LInv'
  <2>1. \A p \in Posts : post[p] # Absent => [post[p] EXCEPT !.status = "archived"] # Absent
    BY <1>0, AbsentIsNoRow DEF Row, Statuses
  <2>2. LinksJoinRows'
    BY <1>0, <1>16, <2>1 DEF ArchivePosts, LInv, LinksJoinRows
  <2> QED
    BY <1>16, <2>2 DEF ArchivePosts, LInv, TagsFound
<1>17. CASE CrashPosts
  <2>1. LinksJoinRows'
    BY <1>17 DEF CrashPosts, LInv, LinksJoinRows
  <2> QED
    BY <1>2, <1>17, <2>1 DEF CrashPosts, LInv
<1>18. CASE UNCHANGED vars
  BY <1>18 DEF vars, postVars, LInv, LinksJoinRows, TagsFound
<1>19. ASSUME NEW r \in Requests, Resume(r) \/ PublicationFails(r) PROVE LInv'
  BY <1>7, <1>8, <1>9, <1>10, <1>11, <1>12, <1>13, <1>14, <1>15, <1>19 DEF Resume
<1> QED
  BY ONLY [Next]_vars, <1>4, <1>5, <1>6, <1>16, <1>17, <1>18, <1>19 DEF Next

(* A link of post_tags joins a post and a tag that exist.                  *)
THEOREM LinksAreSound == Spec => []LinksJoinRows
<1>1. LInv => LinksJoinRows
  BY DEF LInv
<1> QED
  BY <1>1, LinksInit, LinksStep, TypeInvariant, PTL DEF Spec

-----------------------------------------------------------------------------
(* The search indexer: types.                                              *)

\* An event that describes a post describes all of it.
Telling(e) == e.kind \in {"created", "updated"} => e.text \in Texts /\ e.status \in Statuses

SearchTyped ==
  /\ TInv
  /\ \A s \in DOMAIN log : Telling(log[s])
  /\ index \in [Posts -> Document \union {Absent}]
  /\ files \in BOOLEAN
  /\ durable \in DurableOf(log)
  /\ mode \in Modes
  /\ fresh \in BOOLEAN
  /\ losses \in 0 .. MaxLosses

\* What FaultsSkipNothing says, in every mode.
AllIndexed ==
  \A s \in DOMAIN log :
     /\ log[s].kind = "created"
     /\ Applied(durable, s)
     /\ \A j \in DOMAIN log : log[j].post = log[s].post => log[j].kind # "deleted"
     => index[log[s].post] # Absent

SkipInv == losses = 0 => AllIndexed

(* Only these steps write the log, and they append one event.              *)
LEMMA LogGrows ==
  ASSUME TInv, [Next]_vars
  PROVE  \/ UNCHANGED log
         \/ \E e \in Event : Telling(e) /\ log' = Append(log, e)
<1>0. \A r \in Requests : req[r] \in Request /\ Sound(req[r])
  BY DEF TInv, TypeOK
<1>1. ASSUME NEW r \in Requests, Announce(r)
      PROVE  \E e \in Event : Telling(e) /\ log' = Append(log, e)
  <2>1. req[r] \in Request /\ req[r].post \in Posts /\ req[r].row \in Row
    BY <1>0, <1>1 DEF Announce, Sound
  <2>2. Telling(Announcement(req[r]))
    BY <2>1 DEF Telling, Announcement, Row
  <2> QED
    BY <1>1, <2>1, <2>2, AnnouncementIsEvent DEF Announce
<1>2. ASSUME NEW r \in Requests, AnnouncePublished(r)
      PROVE  \E e \in Event : Telling(e) /\ log' = Append(log, e)
  <2>1. req[r].post \in Posts /\ req[r].row \in Row
    BY <1>0, <1>2 DEF AnnouncePublished, Sound
  <2> DEFINE e == [kind |-> "published", post |-> req[r].post, author |-> req[r].row.author,
                   text |-> req[r].row.text, tags |-> {}, status |-> Absent]
  <2>2. e \in Event /\ Telling(e)
    BY <2>1 DEF Event, Row, Telling
  <2> QED
    BY <1>2, <2>2 DEF AnnouncePublished
<1>3. ASSUME NEW r \in Requests, AnnounceDeleted(r)
      PROVE  \E e \in Event : Telling(e) /\ log' = Append(log, e)
  <2>1. req[r].post \in Posts
    BY <1>0, <1>3 DEF AnnounceDeleted, Sound
  <2> DEFINE e == [kind |-> "deleted", post |-> req[r].post, author |-> Absent,
                   text |-> Absent, tags |-> {}, status |-> Absent]
  <2>2. e \in Event /\ Telling(e)
    BY <2>1 DEF Event, Telling
  <2> QED
    BY <1>3, <2>2 DEF AnnounceDeleted
<1>4. ASSUME NEW r \in Requests,
             \/ Resume(r) /\ ~ Announce(r) /\ ~ AnnouncePublished(r) /\ ~ AnnounceDeleted(r)
             \/ PublicationFails(r)
             \/ \E p \in Posts :
                   \/ \E body \in Body, twice \in BOOLEAN :
                         \/ \E a \in Authors : CreatePost(r, p, a, body, twice)
                         \/ FindForUpdate(r, p, body, twice)
                   \/ FindForDelete(r, p)
      PROVE  UNCHANGED log
  BY <1>4 DEF Resume, CreatePost, FindForUpdate, FindForDelete, UpdatePost, UnlinkTags, FindTag,
     InsertTag, TagRefused, LinkTags, LinkRefused, ReadTags, DeletePost, PublicationFails
<1>5. CASE (\E a \in Authors : ArchivePosts(a)) \/ CrashPosts \/ UNCHANGED vars
  BY <1>5 DEF ArchivePosts, CrashPosts, vars, postVars
<1> QED
  BY <1>1, <1>2, <1>3, <1>4, <1>5 DEF Next, Resume

(* post-service's types hold while the indexer moves.                      *)
LEMMA TypesElsewhere ==
  ASSUME TInv, UNCHANGED postVars, faults' \in 0 .. MaxFaults
  PROVE  TInv'
BY DEF TInv, TypeOK, postVars, Sound

(* What the indexer makes of an event is an index.                         *)
LEMMA IndexedTyped ==
  ASSUME SearchTyped, NEW s \in DOMAIN log
  PROVE  /\ log[s] \in Event /\ Telling(log[s])
         /\ Indexed(log[s]) \in [Posts -> Document \union {Absent}]
         /\ log[s].kind \in {"created", "updated"} => Indexed(log[s])[log[s].post] # Absent
         /\ \A p \in Posts : p # log[s].post => Indexed(log[s])[p] = index[p]
<1>1. log[s] \in Event /\ Telling(log[s])
  BY DEF SearchTyped, TInv, TypeOK
<1> DEFINE new == [text |-> log[s].text, tags |-> log[s].tags,
                   author |-> log[s].author, status |-> log[s].status]
<1>2. log[s].kind \in {"created", "updated"} => new \in Document /\ new # Absent
  BY <1>1, AbsentIsNoDocument DEF Document, Event, Telling
<1> HIDE DEF new
<1>3. log[s].kind \in {"created", "updated"} => Indexed(log[s]) = [index EXCEPT ![log[s].post] = new]
  BY DEF Indexed, new
<1>4. /\ log[s].kind = "deleted" => Indexed(log[s]) = [index EXCEPT ![log[s].post] = Absent]
      /\ log[s].kind = "published" => Indexed(log[s]) = index
  BY DEF Indexed
<1>5. index \in [Posts -> Document \union {Absent}] /\ log[s].post \in Posts
      /\ log[s].kind \in {"created", "updated", "deleted", "published"}
  BY <1>1 DEF SearchTyped, Event
<1> QED
  BY <1>1, <1>2, <1>3, <1>4, <1>5

(* A durable that is let go of is a durable still.                         *)
LEMMA DurableReleased ==
  ASSUME SearchTyped, durable' \in Released
  PROVE  durable' \in DurableOf(log) /\ \A n \in Nat : Applied(durable', n) => Applied(durable, n)
<1>1. log \in Seq(Event) /\ durable \in DurableOf(log)
  BY DEF SearchTyped, TInv, TypeOK
<1> QED
  BY <1>1, DurableOperations, AppliedNumbers DEF Released

(* What SubscribeAll makes is a durable.                                   *)
LEMMA DurableFromTheStart ==
  ASSUME SearchTyped
  PROVE  /\ SubscribeAll(durable) \in DurableOf(log)
         /\ \A s \in DOMAIN log : Applied(SubscribeAll(durable), s) => Applied(durable, s)
<1>1. log \in Seq(Event) /\ durable \in DurableOf(log)
  BY DEF SearchTyped, TInv, TypeOK
<1> QED
  BY <1>1 DEF DurableOf, Consumer, SubscribeAll, Exists, Applied

LEMMA SearchTypesInit == InitSearch => SearchTyped
<1> SUFFICES ASSUME InitSearch PROVE SearchTyped
  OBVIOUS
<1>1. TInv /\ log = << >>
  BY TypesInit DEF InitSearch, Init
<1>2. durable \in DurableOf(log)
  <2>1. << >> \in Seq(Event)
    OBVIOUS
  <2> QED
    BY <1>1, <2>1, DurableInitially DEF InitSearch
<1>3. index \in [Posts -> Document \union {Absent}]
  BY DEF InitSearch, NoDocuments
<1>4. \A s \in DOMAIN log : Telling(log[s])
  BY <1>1
<1>5. mode \in Modes /\ losses \in 0 .. MaxLosses
  BY LossConstant DEF InitSearch, Modes
<1>6. files \in BOOLEAN /\ fresh \in BOOLEAN
  BY Zenon DEF InitSearch
<1> QED
  BY <1>1, <1>2, <1>3, <1>4, <1>5, <1>6 DEF SearchTyped

(* A step of the indexer leaves post-service alone and counts its faults.  *)
LEMMA IndexerApart ==
  ASSUME SearchTyped, NextIndexer
  PROVE  UNCHANGED postVars /\ TInv'
<1>1. faults \in 0 .. MaxFaults /\ MaxFaults \in Nat
  BY PostConstants DEF SearchTyped, TInv, TypeOK
<1>2. UNCHANGED postVars /\ (UNCHANGED faults \/ (CanFail /\ faults' = faults + 1))
  BY DEF NextIndexer, OpenIndex, Attach, Subscribe, SubscribeFails, SubscriptionEnds, CrashIndexer,
     LoseVolume, AckEvent, AckEventLost, HandleEvent, HandleFails
<1>3. faults' \in 0 .. MaxFaults
  BY <1>1, <1>2 DEF CanFail
<1> QED
  BY <1>2, <1>3, TypesElsewhere DEF SearchTyped

(* What an indexer's step does to its durable: it applies a number only by *)
(* handling that event.                                                    *)
LEMMA IndexerDurable ==
  ASSUME SearchTyped, NextIndexer
  PROVE  /\ durable' \in DurableOf(log)
         /\ \/ /\ UNCHANGED index
               /\ \A n \in DOMAIN log : Applied(durable', n) => Applied(durable, n)
            \/ LoseVolume
            \/ \E s \in DOMAIN log : /\ HandleEvent(s)
                                     /\ \A n \in DOMAIN log :
                                          Applied(durable', n) => Applied(durable, n) \/ n = s
<1> DEFINE Quiet == /\ UNCHANGED index
                    /\ \A n \in DOMAIN log : Applied(durable', n) => Applied(durable, n)
<1>0. log \in Seq(Event) /\ durable \in DurableOf(log) /\ DOMAIN log \subseteq Nat
  BY DEF SearchTyped, TInv, TypeOK
<1>1. CASE OpenIndex \/ SubscribeFails
  BY <1>0, <1>1 DEF OpenIndex, SubscribeFails
<1>2. CASE Attach
  <2>1. NoConsumer \in DurableOf(log) /\ \A n \in Nat : ~ Applied(NoConsumer, n)
    BY <1>0, DurableInitially DEF NoConsumer, Applied
  <2> QED
    BY <1>0, <1>2, <2>1 DEF Attach
<1>3. CASE Subscribe
  BY <1>3, DurableFromTheStart DEF Subscribe
<1>4. CASE SubscriptionEnds \/ CrashIndexer \/ LoseVolume
  <2>1. CASE SubscriptionEnds
    BY <1>0, <2>1, DurableOperations, AppliedNumbers DEF SubscriptionEnds
  <2>2. CASE CrashIndexer
    BY <1>0, <2>2, DurableReleased DEF CrashIndexer
  <2>3. CASE LoseVolume
    BY <2>3, DurableReleased DEF LoseVolume
  <2> QED
    BY <1>4, <2>1, <2>2, <2>3
<1>5. CASE AckEvent \/ AckEventLost
  <2>1. durable.open # 0 /\ UNCHANGED index /\ durable' \in {Ack(durable), Return(durable)}
    BY <1>5 DEF AckEvent, AckEventLost
  <2> QED
    BY <1>0, <2>1, DurableOperations, AppliedNumbers
<1>6. ASSUME NEW s, HandleEvent(s) \/ HandleFails(s)
      PROVE  /\ durable' \in DurableOf(log)
             /\ Quiet \/ (/\ s \in DOMAIN log /\ HandleEvent(s)
                          /\ \A n \in DOMAIN log :
                                Applied(durable', n) => Applied(durable, n) \/ n = s)
  <2>1. s \in Deliverable(durable, log)
    BY <1>6 DEF HandleEvent, HandleFails
  <2>2. /\ s \in DOMAIN log
        /\ Receive(durable, s) \in DurableOf(log)
        /\ Return(Receive(durable, s)) \in DurableOf(log)
    BY <1>0, <2>1, DurableOperations
  <2>3. \A n \in DOMAIN log :
          /\ Applied(Receive(durable, s), n) => Applied(durable, n) \/ n = s
          /\ Applied(Return(Receive(durable, s)), n) => Applied(durable, n)
    BY <1>0, <2>1, AppliedNumbers
  <2> QED
    BY <1>6, <2>2, <2>3 DEF HandleEvent, HandleFails
<1> QED
  BY <1>1, <1>2, <1>3, <1>4, <1>5, <1>6 DEF NextIndexer

THEOREM SearchTypesStep == SearchTyped /\ [NextSearch]_searchVars => SearchTyped'
<1> SUFFICES ASSUME SearchTyped, [NextSearch]_searchVars PROVE SearchTyped'
  OBVIOUS
<1>0. log \in Seq(Event) /\ durable \in DurableOf(log) /\ TInv
  BY DEF SearchTyped, TInv, TypeOK
<1>1. CASE [Next]_vars /\ UNCHANGED indexVars
  <2>1. TInv'
    BY <1>0, <1>1, TypesStep
  <2>2. CASE UNCHANGED log
    BY <1>1, <2>1, <2>2 DEF SearchTyped, indexVars
  <2>3. ASSUME NEW e \in Event, Telling(e), log' = Append(log, e) PROVE SearchTyped'
    <3>1. \A s \in DOMAIN log' : Telling(log'[s])
      <4> SUFFICES ASSUME NEW s \in DOMAIN log' PROVE Telling(log'[s])
        OBVIOUS
      <4>1. (s \in DOMAIN log /\ log'[s] = log[s]) \/ log'[s] = e
        BY <1>0, <2>3
      <4> QED
        BY <2>3, <4>1 DEF SearchTyped
    <3>2. durable' \in DurableOf(log')
      BY <1>0, <1>1, <2>3, DurableAppend DEF indexVars
    <3> QED
      BY <1>1, <2>1, <3>1, <3>2 DEF SearchTyped, indexVars
  <2> QED
    BY <1>0, <1>1, <2>2, <2>3, LogGrows
<1>2. CASE NextIndexer
  <2>1. TInv' /\ UNCHANGED log /\ durable' \in DurableOf(log)
    BY <1>2, IndexerApart, IndexerDurable DEF postVars
  <2>2. index' \in [Posts -> Document \union {Absent}]
    <3>1. ASSUME NEW s \in DOMAIN log, HandleEvent(s) PROVE index' = Indexed(log[s])
      BY <3>1 DEF HandleEvent
    <3>2. NoDocuments \in [Posts -> Document \union {Absent}]
      BY DEF NoDocuments
    <3> QED
      BY <1>2, <3>1, <3>2, IndexerDurable, IndexedTyped DEF LoseVolume, SearchTyped
  <2>3. files' \in BOOLEAN /\ fresh' \in BOOLEAN
    <3>1. files' \in {files, TRUE, FALSE} /\ fresh' \in {fresh, ~ files}
      BY <1>2 DEF NextIndexer, OpenIndex, Attach, Subscribe, SubscribeFails, SubscriptionEnds,
         CrashIndexer, LoseVolume, AckEvent, AckEventLost, HandleEvent, HandleFails
    <3> QED
      BY <3>1, Zenon DEF SearchTyped
  <2>4. mode' \in Modes /\ losses' \in 0 .. MaxLosses
    BY <1>2, LossConstant DEF SearchTyped, NextIndexer, OpenIndex, Attach, Subscribe,
       SubscribeFails, SubscriptionEnds, CrashIndexer, LoseVolume, AckEvent, AckEventLost,
       HandleEvent, HandleFails, Modes
  <2> QED
    BY <2>1, <2>2, <2>3, <2>4 DEF SearchTyped
<1> QED
  BY <1>1, <1>2 DEF NextSearch, searchVars, vars

THEOREM SearchTypes == SpecSearch => []SearchTyped
BY SearchTypesInit, SearchTypesStep, PTL DEF SpecSearch

-----------------------------------------------------------------------------
(* The search indexer: faults skip nothing.                                *)

LEMMA SkipInit == InitSearch => SkipInv
BY DEF InitSearch, Init, SkipInv, AllIndexed

LEMMA SkipStep == SearchTyped /\ SkipInv /\ [NextSearch]_searchVars => SkipInv'
<1> SUFFICES ASSUME SearchTyped, SkipInv, [NextSearch]_searchVars, losses' = 0,
                    NEW s \in DOMAIN log', log'[s].kind = "created", Applied(durable', s),
                    \A j \in DOMAIN log' : log'[j].post = log'[s].post => log'[j].kind # "deleted"
             PROVE  index'[log'[s].post] # Absent
  BY DEF SkipInv, AllIndexed
<1>0. log \in Seq(Event) /\ durable \in DurableOf(log) /\ TInv
  BY DEF SearchTyped, TInv, TypeOK
<1>1. CASE [Next]_vars /\ UNCHANGED indexVars
  <2>1. CASE UNCHANGED log
    BY <1>1, <2>1 DEF SkipInv, AllIndexed, indexVars
  <2>2. ASSUME NEW e \in Event, log' = Append(log, e) PROVE index'[log'[s].post] # Absent
    <3>1. s \in DOMAIN log /\ log'[s] = log[s]
      BY <1>0, <1>1, <2>2 DEF indexVars, DurableOf, Consumer, Applied
    <3>2. \A j \in DOMAIN log : j \in DOMAIN log' /\ log'[j] = log[j]
      BY <1>0, <2>2
    <3> QED
      BY <1>1, <3>1, <3>2 DEF SkipInv, AllIndexed, indexVars
  <2> QED
    BY <1>0, <1>1, <2>1, <2>2, LogGrows
<1>2. CASE NextIndexer
  <2>1. UNCHANGED log /\ losses = 0 /\ ~ LoseVolume
    <3>1. losses \in Nat
      BY LossConstant DEF SearchTyped
    <3>2. UNCHANGED losses \/ (LoseVolume /\ losses' = losses + 1)
      BY <1>2 DEF NextIndexer, OpenIndex, Attach, Subscribe, SubscribeFails, SubscriptionEnds,
         CrashIndexer, LoseVolume, AckEvent, AckEventLost, HandleEvent, HandleFails
    <3>3. ~ LoseVolume
      BY <3>1 DEF LoseVolume
    <3> QED
      BY <1>2, <3>2, <3>3, IndexerApart DEF postVars
  <2>2. CASE UNCHANGED index /\ Applied(durable, s)
    BY <2>1, <2>2 DEF SkipInv, AllIndexed
  <2>3. ASSUME NEW t \in DOMAIN log, HandleEvent(t), Applied(durable, s) \/ s = t
        PROVE  index'[log'[s].post] # Absent
    <3>1. log[t].kind # "deleted" \/ log[t].post # log[s].post
      BY <2>1
    <3>2. index' = Indexed(log[t])
      BY <2>3 DEF HandleEvent
    <3>3. CASE log[t].kind = "published"
      <4>1. index' = index /\ s # t
        BY <2>1, <3>2, <3>3 DEF Indexed
      <4> QED
        BY <2>1, <2>3, <4>1 DEF SkipInv, AllIndexed
    <3>4. CASE log[t].post = log[s].post /\ log[t].kind \in {"created", "updated"}
      BY <2>1, <3>2, <3>4, IndexedTyped
    <3>5. CASE log[t].post # log[s].post
      <4>1. index'[log[s].post] = index[log[s].post]
        <5>1. log[s] \in Event
          BY <1>0, <2>1
        <5> QED
          BY <3>2, <3>5, <5>1, IndexedTyped DEF Event
      <4>2. s # t /\ Applied(durable, s)
        BY <2>3, <3>5
      <4> QED
        BY <2>1, <4>1, <4>2 DEF SkipInv, AllIndexed
    <3>6. log[t].kind \in {"created", "updated", "published", "deleted"}
      BY IndexedTyped DEF Event
    <3> QED
      BY <3>1, <3>3, <3>4, <3>5, <3>6
  <2> QED
    BY <1>2, <2>1, <2>2, <2>3, IndexerDurable
<1> QED
  BY <1>1, <1>2 DEF NextSearch, searchVars, vars

(* While the indexer's volume lasts, every post it has been told of is in  *)
(* its index until its deletion is announced, whatever crashes, ends, or   *)
(* is lost or refused on the way: an event counts as read only once it is  *)
(* committed.                                                              *)
THEOREM FaultsAreHarmless == SpecSearch => []FaultsSkipNothing
<1>1. SkipInv => FaultsSkipNothing
  BY DEF SkipInv, AllIndexed, FaultsSkipNothing, NothingSkipped
<1> QED
  BY <1>1, SkipInit, SkipStep, SearchTypes, PTL DEF SpecSearch

-----------------------------------------------------------------------------
(* The search indexer: what the log says.                                  *)

\* What event e says of its post: nothing is left of it, or what it is now.
Word(e) ==
  IF e.kind = "deleted" THEN {} ELSE {[text |-> e.text, tags |-> e.tags, status |-> e.status]}

\* Event s of l describes p.
Speaks(l, p, s) == l[s].post = p /\ l[s].kind # "published"

\* x is what the events of l before number n say of p in the end.
LogSays(l, p, n, x) ==
  \/ /\ \A t \in DOMAIN l : t < n => ~ Speaks(l, p, t)
     /\ x = {}
  \/ \E s \in DOMAIN l :
        /\ s < n
        /\ Speaks(l, p, s)
        /\ \A t \in DOMAIN l : s < t /\ t < n => ~ Speaks(l, p, t)
        /\ x = Word(l[s])

(* Before its first number the log says nothing.                           *)
LEMMA SaysNothing ==
  ASSUME NEW l \in Seq(Event), NEW p \in Posts, NEW n \in {0, 1}
  PROVE  LogSays(l, p, n, {})
BY DEF LogSays

LEMMA SaysNothingElse ==
  ASSUME NEW l \in Seq(Event), NEW p \in Posts, NEW x, LogSays(l, p, 0, x)
  PROVE  x = {}
BY DEF LogSays

(* It says one thing.                                                      *)
LEMMA SaysOneThing ==
  ASSUME NEW l \in Seq(Event), NEW p \in Posts, NEW n \in Nat, NEW x, NEW y,
         LogSays(l, p, n, x), LogSays(l, p, n, y)
  PROVE  x = y
<1>1. \A s, t \in DOMAIN l : s < t \/ t < s \/ s = t
  OBVIOUS
<1> QED
  BY <1>1 DEF LogSays

(* What was said stays said when an event is published.                    *)
LEMMA SaysStill ==
  ASSUME NEW l \in Seq(Event), NEW e \in Event, NEW p \in Posts, NEW n \in Nat, NEW x,
         n <= Len(l) + 1, LogSays(l, p, n, x)
  PROVE  LogSays(Append(l, e), p, n, x)
<1>1. /\ \A t \in DOMAIN l : t \in DOMAIN Append(l, e) /\ Append(l, e)[t] = l[t]
      /\ \A t \in DOMAIN Append(l, e) : t < n => t \in DOMAIN l
  OBVIOUS
<1>2. PICK m : m = Append(l, e)
  OBVIOUS
<1>3. LogSays(m, p, n, x)
  BY <1>1, <1>2 DEF LogSays, Speaks
<1> QED
  BY <1>2, <1>3

(* One more event does not change it unless it describes p, ...            *)
LEMMA SaysOn ==
  ASSUME NEW l \in Seq(Event), NEW p \in Posts, NEW n \in DOMAIN l, NEW x,
         ~ Speaks(l, p, n), LogSays(l, p, n, x)
  PROVE  LogSays(l, p, n + 1, x)
<1>1. \A t \in DOMAIN l : (t < n + 1 <=> t < n \/ t = n) /\ n \in Nat
  OBVIOUS
<1> QED
  BY <1>1 DEF LogSays

(* ... and then it is what that event says.                                *)
LEMMA SaysNow ==
  ASSUME NEW l \in Seq(Event), NEW p \in Posts, NEW n \in DOMAIN l, Speaks(l, p, n)
  PROVE  LogSays(l, p, n + 1, Word(l[n]))
<1>1. n < n + 1 /\ \A t \in DOMAIN l : ~ (n < t /\ t < n + 1)
  OBVIOUS
<1> QED
  BY <1>1 DEF LogSays

(* So publishing an event about another post leaves what is said of p, and *)
(* publishing one about p makes the log say that.                          *)
LEMMA SaysPublished ==
  ASSUME NEW l \in Seq(Event), NEW e \in Event, NEW p \in Posts
  PROVE  /\ \A x : /\ e.post # p \/ e.kind = "published"
                   /\ LogSays(l, p, Len(l) + 1, x)
                   => LogSays(Append(l, e), p, Len(Append(l, e)) + 1, x)
         /\ e.post = p /\ e.kind # "published"
              => LogSays(Append(l, e), p, Len(Append(l, e)) + 1, Word(e))
<1> DEFINE n == Len(l) + 1
<1>1. PICK m : m = Append(l, e)
  OBVIOUS
<1>2. m \in Seq(Event) /\ n \in DOMAIN m /\ m[n] = e /\ Len(m) = n /\ n \in Nat /\ n <= Len(l) + 1
  BY <1>1
<1> HIDE DEF n
<1>3. ASSUME NEW x, LogSays(l, p, n, x), e.post # p \/ e.kind = "published"
      PROVE  LogSays(m, p, Len(m) + 1, x)
  <2>1. LogSays(m, p, n, x)
    BY <1>1, <1>2, <1>3, SaysStill
  <2>2. ~ Speaks(m, p, n)
    BY <1>2, <1>3 DEF Speaks
  <2>3. LogSays(m, p, n + 1, x)
    BY <1>2, <2>1, <2>2, SaysOn
  <2> QED
    BY <1>2, <2>3
<1>4. ASSUME e.post = p, e.kind # "published"
      PROVE  LogSays(m, p, Len(m) + 1, Word(e))
  <2>1. LogSays(m, p, n + 1, Word(m[n]))
    BY <1>2, <1>4, SaysNow DEF Speaks
  <2> QED
    BY <1>2, <2>1
<1> QED
  BY <1>1, <1>3, <1>4 DEF n

-----------------------------------------------------------------------------
(* The search indexer: the index says what the log says.                   *)

\* What the index says of p, in those terms.
Found(p) ==
  IF index[p] = Absent THEN {}
  ELSE {[text |-> index[p].text, tags |-> index[p].tags, status |-> index[p].status]}

\* An index that will be rebuilt: its files are gone, or are new and the
\* durable of the old ones has not been deleted yet.
Rebuilding == ~ files \/ (mode = "opened" /\ fresh)

\* Without faults the index is what the events up to its durable's next say.
IndexReads ==
  /\ ~ files => mode = "down"
  /\ Rebuilding => index = NoDocuments
  /\ ~ Rebuilding => /\ durable.again = {}
                     /\ \A p \in Posts : LogSays(log, p, durable.next, Found(p))

LEMMA IndexReadsInit == InitSearch => IndexReads
BY DEF InitSearch, IndexReads, Rebuilding

(* The indexer handles the next event.                                     *)
LEMMA IndexReadsEvent ==
  ASSUME SearchTyped, IndexReads, NEW s, HandleEvent(s)
  PROVE  IndexReads'
<1>1. ~ Rebuilding /\ ~ Rebuilding' /\ files /\ files'
  BY DEF HandleEvent, IndexReads, Rebuilding
<1>2. /\ log \in Seq(Event) /\ durable \in DurableOf(log)
      /\ durable.again = {} /\ durable.next \in Nat
  BY <1>1 DEF SearchTyped, TInv, TypeOK, IndexReads, DurableOf, Consumer
<1>3. s = durable.next /\ s \in DOMAIN log
  BY <1>2, DurableForward, DurableOperations DEF HandleEvent
<1>4. durable'.next = s + 1 /\ durable'.again = {} /\ UNCHANGED log /\ index' = Indexed(log[s])
  BY <1>2, <1>3 DEF HandleEvent, Receive, postVars
<1>5. ASSUME NEW p \in Posts PROVE LogSays(log, p, s + 1, Found(p)')
  <2>1. LogSays(log, p, s, Found(p))
    BY <1>1, <1>3 DEF IndexReads
  <2>2. log[s] \in Event /\ index \in [Posts -> Document \union {Absent}]
    BY <1>3, IndexedTyped DEF SearchTyped
  <2>3. CASE ~ Speaks(log, p, s)
    <3>1. index'[p] = index[p]
      <4>1. CASE log[s].post # p
        BY <1>3, <1>4, <4>1, IndexedTyped
      <4>2. CASE log[s].kind = "published"
        BY <1>4, <4>2 DEF Indexed
      <4> QED
        BY <2>3, <4>1, <4>2 DEF Speaks
    <3>2. Found(p)' = Found(p)
      BY <3>1 DEF Found
    <3> QED
      BY <1>2, <1>3, <2>1, <2>3, <3>2, SaysOn
  <2>4. CASE Speaks(log, p, s)
    <3>1. CASE log[s].kind = "deleted"
      <4>1. index'[p] = Absent
        BY <1>4, <2>2, <2>4, <3>1 DEF Indexed, Speaks
      <4>2. Found(p)' = Word(log[s])
        BY <3>1, <4>1 DEF Found, Word
      <4> QED
        BY <1>2, <1>3, <2>4, <4>2, SaysNow
    <3>2. CASE log[s].kind \in {"created", "updated"}
      <4>1. index'[p] # Absent
        BY <1>3, <1>4, <2>4, <3>2, IndexedTyped DEF Speaks
      <4>2. index'[p] = [text |-> log[s].text, tags |-> log[s].tags,
                         author |-> log[s].author, status |-> log[s].status]
        BY <1>4, <2>2, <2>4, <3>2 DEF Indexed, Speaks
      <4>3. Found(p)' = Word(log[s])
        BY <3>2, <4>1, <4>2 DEF Found, Word
      <4> QED
        BY <1>2, <1>3, <2>4, <4>3, SaysNow
    <3> QED
      BY <2>2, <2>4, <3>1, <3>2 DEF Speaks, Event
  <2> QED
    BY <2>3, <2>4
<1> QED
  BY <1>1, <1>4, <1>5 DEF IndexReads

LEMMA IndexReadsStep ==
  SearchTyped /\ IndexReads /\ [NextSearch]_searchVars /\ faults = 0 /\ faults' = 0 => IndexReads'
<1> SUFFICES ASSUME SearchTyped, IndexReads, [NextSearch]_searchVars, faults = 0, faults' = 0
             PROVE  IndexReads'
  OBVIOUS
<1>0. log \in Seq(Event) /\ durable \in DurableOf(log) /\ TInv
  BY DEF SearchTyped, TInv, TypeOK
<1>1. CASE [Next]_vars /\ UNCHANGED indexVars
  <2>1. CASE UNCHANGED log
    BY <1>1, <2>1 DEF IndexReads, Rebuilding, Found, indexVars
  <2>2. ASSUME NEW e \in Event, log' = Append(log, e) PROVE IndexReads'
    <3>1. durable.next \in Nat /\ durable.next <= Len(log) + 1
      BY <1>0 DEF DurableOf, Consumer
    <3>2. ~ Rebuilding => \A p \in Posts : LogSays(log', p, durable.next, Found(p))
      BY <1>0, <2>2, <3>1, SaysStill DEF IndexReads
    <3> QED
      BY <1>1, <3>2 DEF IndexReads, Rebuilding, Found, indexVars
  <2> QED
    BY <1>0, <1>1, <2>1, <2>2, LogGrows
<1>2. CASE OpenIndex \/ AckEvent
  <2>1. CASE OpenIndex
    <3>1. fresh' <=> ~ files
      BY <2>1, Zenon DEF OpenIndex
    <3>2. (Rebuilding' <=> Rebuilding) /\ files' /\ UNCHANGED <<log, index, durable>>
      BY <2>1, <3>1 DEF OpenIndex, Rebuilding, postVars
    <3> QED
      BY <3>2 DEF IndexReads, Found
  <2>2. CASE AckEvent
    BY <1>0, <2>2 DEF AckEvent, Ack, IndexReads, Rebuilding, Found, postVars, DurableOf, Consumer
  <2> QED
    BY <1>2, <2>1, <2>2
<1>3. CASE Attach
  <2>1. CASE fresh
    <3>1. /\ Rebuilding /\ durable' = NoConsumer /\ index' = NoDocuments
          /\ \A p \in Posts : index'[p] = Absent
      BY <1>3, <2>1 DEF Attach, IndexReads, Rebuilding, NoDocuments
    <3>2. \A p \in Posts : LogSays(log', p, 0, Found(p)')
      BY <1>0, <1>3, <3>1, SaysNothing DEF Found, Attach, postVars
    <3> QED
      BY <1>3, <3>1, <3>2 DEF Attach, IndexReads, Rebuilding, NoConsumer
  <2>2. CASE ~ fresh
    BY <1>3, <2>2 DEF Attach, IndexReads, Rebuilding, Found, postVars
  <2> QED
    BY <2>1, <2>2
<1>4. CASE Subscribe
  <2>1. /\ ~ Rebuilding /\ ~ Rebuilding' /\ files' /\ UNCHANGED <<log, index>>
        /\ durable.next \in Nat
    BY <1>0, <1>4 DEF Subscribe, IndexReads, Rebuilding, postVars, DurableOf, Consumer
  <2>2. CASE durable.next # 0
    BY <1>4, <2>1, <2>2 DEF Subscribe, SubscribeAll, Exists, IndexReads, Found
  <2>3. CASE durable.next = 0
    <3>1. durable'.next = 1 /\ durable'.again = {}
      BY <1>0, <1>4, <2>1, <2>3 DEF Subscribe, SubscribeAll, Exists, IndexReads, DurableOf, Consumer
    <3>2. ASSUME NEW p \in Posts PROVE LogSays(log', p, 1, Found(p)')
      <4>1. LogSays(log, p, 0, Found(p)) /\ Found(p)' = Found(p)
        BY <2>1, <2>3 DEF IndexReads, Found
      <4> QED
        BY <1>0, <2>1, <4>1, SaysNothing, SaysNothingElse
    <3> QED
      BY <2>1, <3>1, <3>2 DEF IndexReads
  <2> QED
    BY <2>2, <2>3
<1>5. CASE LoseVolume
  BY <1>5 DEF LoseVolume, IndexReads, Rebuilding
<1>6. CASE SubscribeFails \/ SubscriptionEnds \/ CrashIndexer \/ AckEventLost
           \/ \E s \in Numbers : HandleFails(s)
  <2>1. faults' = faults + 1
    BY <1>6 DEF SubscribeFails, SubscriptionEnds, CrashIndexer, AckEventLost, HandleFails
  <2> QED
    BY <2>1
<1>7. ASSUME NEW s, HandleEvent(s) PROVE IndexReads'
  BY <1>7, IndexReadsEvent
<1>8. CASE NextIndexer
  BY <1>2, <1>3, <1>4, <1>5, <1>6, <1>7, <1>8 DEF NextIndexer
<1> QED
  BY <1>1, <1>8 DEF NextSearch, searchVars, vars

-----------------------------------------------------------------------------
(* The search indexer: the log says what the tables say.                   *)

\* Nobody's account goes, and no list names a tag twice.
Undisturbed == Departing = {} /\ ~ Repeats

\* Requests for one post do not overlap, and no two of them are between the
\* look-up and the INSERT of one tag.
InTurn ==
  \A r, q \in Requests :
     \/ req[r].at # "idle" /\ req[q].at # "idle" /\ req[r].post = req[q].post
     \/ req[r].at = "newtag" /\ req[q].at = "newtag" /\ req[r].name = req[q].name
     => r = q

\* What the tables say of p, in the terms of the log.
Kept(p) ==
  IF post[p] = Absent THEN {}
  ELSE {[text |-> post[p].text, tags |-> tagged[p], status |-> post[p].status]}

\* Where a request has written what it has not announced.
Unannounced == {"unlink", "tags", "newtag", "link", "read", "announce", "retract"}

\* What a request that is alone with its post finds in the tables.
Alone(q, table, links, names) ==
  /\ ~ q.twice
  /\ q.at \in {"update", "delete"} => table[q.post] # Absent
  /\ q.at \in Unannounced \ {"retract"} => q.row \in Row /\ q.row = table[q.post]
  /\ q.at \in {"tags", "newtag", "link"} => links[q.post] = {}
  /\ q.at = "newtag" => q.name \notin names
  /\ q.at = "announce" => q.shown = links[q.post]
  /\ q.at = "retract" => table[q.post] = Absent

\* Without faults and disturbances the log says what the tables say, but of
\* the post whose request has yet to announce it.
LogReads ==
  /\ \A r \in Requests : Alone(req[r], post, tagged, tags)
  /\ \A p \in Posts : p \notin used => post[p] = Absent /\ tagged[p] = {}
  /\ \A p \in Posts :
        \/ \E r \in Requests : req[r].at \in Unannounced /\ req[r].post = p
        \/ LogSays(log, p, Len(log) + 1, Kept(p))

LEMMA LogReadsInit == InitSearch => LogReads
<1> SUFFICES ASSUME InitSearch PROVE LogReads
  OBVIOUS
<1>1. \A r \in Requests : Alone(req[r], post, tagged, tags)
  BY DEF InitSearch, Init, Idle, Alone, Unannounced
<1>2. ASSUME NEW p \in Posts PROVE LogSays(log, p, Len(log) + 1, Kept(p))
  <2>1. log = << >> /\ << >> \in Seq(Event) /\ Len(<< >>) + 1 = 1 /\ Kept(p) = {}
    BY DEF InitSearch, Init, Kept
  <2> QED
    BY <2>1, SaysNothing
<1> QED
  BY <1>1, <1>2 DEF InitSearch, Init, LogReads

(* A step of one request leaves the others alone with their posts.         *)
LEMMA OthersStayAlone ==
  ASSUME InTurn', TInv, LogReads, NEW r \in Requests, NEW q \in Requests, q # r,
         req'[q] = req[q],
         \/ UNCHANGED <<post, tagged>>
         \/ /\ req'[r].at # "idle"
            /\ \A p \in Posts : p # req'[r].post => post'[p] = post[p] /\ tagged'[p] = tagged[p],
         req[q].at = "newtag" => req[q].name \notin tags'
  PROVE  Alone(req'[q], post', tagged', tags')
<1>1. Alone(req[q], post, tagged, tags) /\ Sound(req[q])
  BY DEF LogReads, TInv
<1>2. CASE req[q].at = "idle"
  BY <1>1, <1>2 DEF Alone, Unannounced
<1>3. CASE req[q].at # "idle"
  <2>1. req[q].post \in Posts
    BY <1>1, <1>3 DEF Sound
  <2>2. post'[req[q].post] = post[req[q].post] /\ tagged'[req[q].post] = tagged[req[q].post]
    BY <1>3, <2>1 DEF InTurn
  <2> QED
    BY <1>1, <2>2 DEF Alone
<1> QED
  BY <1>2, <1>3

(* The request goes on, or sets out, with a post it has not announced.     *)
LEMMA GoesOn ==
  ASSUME InTurn', TInv, LogReads, NEW r \in Requests,
         \A q \in Requests : q # r => req'[q] = req[q],
         \A q \in Requests : q # r /\ req[q].at = "newtag" => req[q].name \notin tags',
         UNCHANGED log, used \subseteq used',
         req'[r].at \in Unannounced, req'[r].post \in used',
         req[r].at \in Unannounced => req[r].post = req'[r].post,
         \A p \in Posts : p # req'[r].post => post'[p] = post[p] /\ tagged'[p] = tagged[p],
         Alone(req'[r], post', tagged', tags')
  PROVE  LogReads'
<1>1. \A q \in Requests : Alone(req'[q], post', tagged', tags')
  BY OthersStayAlone DEF Unannounced
<1>2. \A p \in Posts : p \notin used' => post'[p] = Absent /\ tagged'[p] = {}
  BY DEF LogReads
<1>3. ASSUME NEW p \in Posts
      PROVE  \/ \E q \in Requests : req'[q].at \in Unannounced /\ req'[q].post = p
             \/ LogSays(log', p, Len(log') + 1, Kept(p)')
  <2>1. CASE p = req'[r].post
    BY <2>1
  <2>2. ASSUME NEW q \in Requests, req[q].at \in Unannounced, req[q].post = p, p # req'[r].post
        PROVE  req'[q].at \in Unannounced /\ req'[q].post = p
    BY <2>2
  <2>3. CASE p # req'[r].post /\ LogSays(log, p, Len(log) + 1, Kept(p))
    <3>1. Kept(p)' = Kept(p)
      BY <2>3 DEF Kept
    <3> QED
      BY <2>3, <3>1
  <2> QED
    BY <2>1, <2>2, <2>3 DEF LogReads
<1> QED
  BY <1>1, <1>2, <1>3 DEF LogReads

(* The request sets out, or publishes, with everything announced.          *)
LEMMA AllAnnounced ==
  ASSUME InTurn', TInv, LogReads, NEW r \in Requests,
         \A q \in Requests : q # r => req'[q] = req[q],
         UNCHANGED <<post, tagged, tags, used>>,
         \A p \in Posts : \/ \E q \in Requests \ {r} : req[q].at \in Unannounced /\ req[q].post = p
                         \/ LogSays(log', p, Len(log') + 1, Kept(p)),
         Alone(req'[r], post, tagged, tags)
  PROVE  LogReads'
<1>1. ASSUME NEW q \in Requests PROVE Alone(req'[q], post', tagged', tags')
  <2>1. req[q].at = "newtag" => req[q].name \notin tags'
    BY DEF LogReads, Alone
  <2> QED
    BY <2>1, OthersStayAlone
<1>2. \A p \in Posts : Kept(p)' = Kept(p)
  BY DEF Kept
<1>3. ASSUME NEW p \in Posts
      PROVE  \/ \E q \in Requests : req'[q].at \in Unannounced /\ req'[q].post = p
             \/ LogSays(log', p, Len(log') + 1, Kept(p)')
  BY <1>2
<1> QED
  BY <1>1, <1>3 DEF LogReads

(* What was said before the request set out, or reached its last           *)
(* publication, is up to the others.                                       *)
LEMMA OthersOwe ==
  ASSUME LogReads, NEW r \in Requests, NEW p \in Posts,
         req[r].at \notin Unannounced \/ req[r].post # p
  PROVE  \/ \E q \in Requests \ {r} : req[q].at \in Unannounced /\ req[q].post = p
         \/ LogSays(log, p, Len(log) + 1, Kept(p))
BY DEF LogReads

(* A request starts on a post that nobody else is at.                      *)
LEMMA LogReadsStarts ==
  ASSUME Undisturbed, InTurn, InTurn', TInv, LogReads, NEW r \in Requests, NEW p \in Posts,
         \/ \E body \in Body, twice \in BOOLEAN :
               \/ \E a \in Authors : CreatePost(r, p, a, body, twice)
               \/ FindForUpdate(r, p, body, twice)
         \/ FindForDelete(r, p)
  PROVE  LogReads'
<1>0. req \in [Requests -> Request] /\ post \in [Posts -> Row \union {Absent}]
      /\ tagged \in [Posts -> SUBSET Tags]
  BY DEF TInv, TypeOK
<1>1. ASSUME NEW body \in Body, NEW twice \in BOOLEAN, NEW a \in Authors,
             CreatePost(r, p, a, body, twice)
      PROVE  LogReads'
  <2> DEFINE new == [author |-> a, text |-> body.text, status |-> body.status,
                     dated |-> body.status = "published"]
  <2>1. /\ post' = [post EXCEPT ![p] = new] /\ p \notin used /\ used' = used \union {p}
        /\ req' = [req EXCEPT ![r] = [Idle EXCEPT !.at = "tags", !.post = p, !.row = new,
                                        !.twice = twice,
                                        !.body = [NoBody EXCEPT !.tags = body.tags],
                                        !.left = body.tags]]
        /\ ~ twice /\ req[r].at = "idle" /\ UNCHANGED <<tagged, tags, log>>
    BY <1>1 DEF CreatePost, Become, Undisturbed
  <2>2. new \in Row
    <3>1. body.text \in Texts /\ body.status \in Statuses
      BY <1>1 DEF CreatePost, Body, Statuses
    <3>2. (body.status = "published") \in BOOLEAN
      BY Zenon
    <3> QED
      BY <3>1, <3>2 DEF Row
  <2> HIDE DEF new
  <2>3. /\ req'[r].at = "tags" /\ req'[r].post = p /\ req'[r].row = new
        /\ req'[r].twice = twice
    BY <1>0, <2>1 DEF Idle
  <2>4. tagged'[p] = {} /\ post'[p] = new
    BY <1>0, <2>1 DEF LogReads
  <2>5. Alone(req'[r], post', tagged', tags')
    BY <2>1, <2>2, <2>3, <2>4 DEF Alone, Unannounced
  <2>6. /\ UNCHANGED log /\ used \subseteq used' /\ req'[r].post \in used'
        /\ req[r].at \notin Unannounced /\ req'[r].at \in Unannounced
    BY <2>1, <2>3 DEF Unannounced
  <2>7. \A o \in Posts : o # req'[r].post => post'[o] = post[o] /\ tagged'[o] = tagged[o]
    BY <1>0, <2>1, <2>3
  <2>8. \A q \in Requests : q # r => req'[q] = req[q]
    BY <2>1
  <2>9. \A q \in Requests : q # r /\ req[q].at = "newtag" => req[q].name \notin tags'
    BY <2>1 DEF LogReads, Alone
  <2>10. req[r].at \in Unannounced => req[r].post = req'[r].post
    BY <2>6
  <2> QED
    BY <2>5, <2>6, <2>7, <2>8, <2>9, <2>10, GoesOn
<1>2. ASSUME NEW body \in Body, NEW twice \in BOOLEAN, FindForUpdate(r, p, body, twice)
      PROVE  LogReads'
  <2>0. ~ twice
    BY <1>2 DEF FindForUpdate, Undisturbed
  <2>1. /\ req[r].at = "idle" /\ UNCHANGED <<post, tagged, tags, used, log>> /\ post[p] # Absent
        /\ req'[r].at = "update" /\ req'[r].post = p /\ req'[r].twice = twice
    BY <1>0, <1>2 DEF FindForUpdate, Become, Idle
  <2>2. Alone(req'[r], post, tagged, tags)
    BY <2>0, <2>1 DEF Alone, Unannounced
  <2>3. \A q \in Requests : q # r => req'[q] = req[q]
    BY <1>0, <1>2 DEF FindForUpdate, Become
  <2> QED
    BY <2>1, <2>2, <2>3, OthersOwe, AllAnnounced DEF Unannounced
<1>3. CASE FindForDelete(r, p)
  <2>1. /\ req[r].at = "idle" /\ UNCHANGED <<post, tagged, tags, used, log>> /\ post[p] # Absent
        /\ req'[r].at = "delete" /\ req'[r].post = p /\ ~ req'[r].twice
    BY <1>0, <1>3 DEF FindForDelete, Become, Idle
  <2>2. Alone(req'[r], post, tagged, tags)
    BY <2>1 DEF Alone, Unannounced
  <2>3. \A q \in Requests : q # r => req'[q] = req[q]
    BY <1>0, <1>3 DEF FindForDelete, Become
  <2> QED
    BY <2>1, <2>2, <2>3, OthersOwe, AllAnnounced DEF Unannounced
<1> QED
  BY <1>1, <1>2, <1>3

(* It goes on to announce the post that it has written.                    *)
LEMMA LogReadsGoesOn ==
  ASSUME Undisturbed, InTurn, InTurn', TInv, LogReads, NEW r \in Requests,
         \/ UpdatePost(r) \/ UnlinkTags(r) \/ FindTag(r) \/ InsertTag(r) \/ LinkTags(r)
         \/ ReadTags(r) \/ DeletePost(r)
  PROVE  LogReads'
<1> DEFINE q == req[r]
<1>0. /\ req \in [Requests -> Request] /\ post \in [Posts -> Row \union {Absent}]
      /\ tagged \in [Posts -> SUBSET Tags] /\ q \in Request /\ Sound(q)
      /\ Alone(q, post, tagged, tags)
  BY DEF TInv, TypeOK, LogReads
<1>1. q.post \in Posts /\ q.at # "retract" /\ UNCHANGED log /\ UNCHANGED used
  BY <1>0 DEF UpdatePost, UnlinkTags, FindTag, InsertTag, LinkTags, ReadTags, DeletePost, Sound
<1>2. post[q.post] # Absent /\ q.post \in used
  <2>1. q.at \in {"update", "delete"} \/ q.at \in Unannounced \ {"retract"}
    BY DEF UpdatePost, UnlinkTags, FindTag, InsertTag, LinkTags, ReadTags, DeletePost, Unannounced
  <2>2. post[q.post] # Absent
    BY <1>0, <2>1, AbsentIsNoRow DEF Alone
  <2> QED
    BY <1>1, <2>2 DEF LogReads
\* What the step does to the other requests,
<1>11. \A p \in Requests : p # r => req'[p] = req[p]
  BY <1>0 DEF UpdatePost, UnlinkTags, FindTag, InsertTag, LinkTags, ReadTags, DeletePost, Become, Finish
<1>12. \A p \in Requests : p # r /\ req[p].at = "newtag" => req[p].name \notin tags'
  <2>1. \A p \in Requests : req[p].at = "newtag" => req[p].name \notin tags
    BY DEF LogReads, Alone
  <2>2. tags' = tags \/ (q.at = "newtag" /\ tags' = tags \union {q.name})
    BY DEF UpdatePost, UnlinkTags, FindTag, InsertTag, LinkTags, ReadTags, DeletePost
  <2> QED
    BY <2>1, <2>2 DEF InTurn
\* ... and what the leaves below have to show of it.
<1>3. ASSUME req'[r].post = q.post, req'[r].twice = q.twice,
             req'[r].at \in Unannounced,
             \A p \in Posts : p # q.post => post'[p] = post[p] /\ tagged'[p] = tagged[p],
             Alone(req'[r], post', tagged', tags')
      PROVE  LogReads'
  BY <1>1, <1>2, <1>3, <1>11, <1>12, GoesOn
<1>4. CASE UpdatePost(r)
  <2> DEFINE new == Edited(post[q.post], q.body, q.seen)
  <2>1. /\ post' = [post EXCEPT ![q.post] = new] /\ UNCHANGED <<tagged, tags>>
        /\ req' = [req EXCEPT ![r] =
                     [q EXCEPT !.at = IF q.body.tags = Absent THEN "read" ELSE "unlink",
                               !.body = [NoBody EXCEPT !.tags = q.body.tags],
                               !.row = new, !.left = Wanted(q)]]
    BY <1>2, <1>4 DEF UpdatePost, Become
  <2>2. new \in Row
    <3>1. post[q.post] \in Row /\ q.body \in Body /\ q.seen \in Seen
      BY <1>0, <1>1, <1>2, <1>4 DEF UpdatePost, Sound, Request
    <3> QED
      BY <3>1, EditedIsRow
  <2> HIDE DEF new
  <2>3. /\ req'[r].post = q.post /\ req'[r].row = new /\ req'[r].twice = q.twice
        /\ req'[r].at \in {"read", "unlink"}
    BY <1>0, <2>1 DEF Request
  <2>4. post'[q.post] = new
    BY <1>0, <1>1, <2>1
  <2>5. Alone(req'[r], post', tagged', tags')
    BY <1>0, <2>2, <2>3, <2>4 DEF Alone, Unannounced
  <2>6. \A p \in Posts : p # q.post => post'[p] = post[p] /\ tagged'[p] = tagged[p]
    BY <1>0, <2>1
  <2> QED
    BY <1>3, <2>3, <2>5, <2>6 DEF Unannounced
<1>5. CASE UnlinkTags(r)
  <2>1. /\ q.at = "unlink" /\ tagged' = [tagged EXCEPT ![q.post] = {}] /\ UNCHANGED <<post, tags>>
        /\ req'[r].at = "tags" /\ req'[r].post = q.post /\ req'[r].row = q.row
        /\ req'[r].twice = q.twice
    BY <1>0, <1>5 DEF UnlinkTags, Become, Request
  <2>2. tagged'[q.post] = {}
    BY <1>0, <1>1, <2>1
  <2>3. Alone(req'[r], post', tagged', tags')
    BY <1>0, <2>1, <2>2 DEF Alone, Unannounced
  <2>4. \A p \in Posts : p # q.post => post'[p] = post[p] /\ tagged'[p] = tagged[p]
    BY <1>0, <2>1
  <2> QED
    BY <1>3, <2>1, <2>3, <2>4 DEF Unannounced
<1>6. CASE FindTag(r)
  <2>1. /\ q.at = "tags" /\ UNCHANGED <<post, tagged, tags>>
        /\ req'[r].post = q.post /\ req'[r].row = q.row /\ req'[r].twice = q.twice
        /\ req'[r].at \in {"link", "tags"} \/ (req'[r].at = "newtag" /\ req'[r].name \notin tags)
    <3> DEFINE n0 == [q EXCEPT !.at = "link"]
               n1(g) == [q EXCEPT !.left = q.left \ {g}]
               n2(g) == [q EXCEPT !.at = "newtag", !.name = g]
               Fits(n) == /\ n.post = q.post /\ n.row = q.row /\ n.twice = q.twice
                          /\ n.at \in {"link", "tags"} \/ (n.at = "newtag" /\ n.name \notin tags)
    <3>1. q.at = "tags" /\ UNCHANGED <<post, tagged, tags>>
      BY <1>6 DEF FindTag
    <3>2. \/ Become(r, n0)
          \/ \E g \in q.left : Become(r, IF g \in tags THEN n1(g) ELSE n2(g))
      BY <1>6 DEF FindTag
    <3>3. Fits(n0) /\ \A g \in q.left : Fits(n1(g)) /\ (g \notin tags => Fits(n2(g)))
      BY <1>0, <3>1 DEF Request
    <3>4. \A n : Become(r, n) => req'[r] = n
      BY <1>0 DEF Become
    <3> HIDE DEF n0, n1, n2
    <3>5. Fits(req'[r])
      BY <3>2, <3>3, <3>4 DEF Become
    <3> QED
      BY <3>1, <3>5
  <2>2. Alone(req'[r], post', tagged', tags')
    BY <1>0, <2>1 DEF Alone, Unannounced
  <2> QED
    BY <1>3, <2>1, <2>2 DEF Unannounced
<1>7. CASE InsertTag(r)
  <2>1. /\ q.at = "newtag" /\ UNCHANGED <<post, tagged>>
        /\ req'[r].post = q.post /\ req'[r].row = q.row /\ req'[r].twice = q.twice
        /\ req'[r].at = "tags"
    BY <1>0, <1>7 DEF InsertTag, Become, Request
  <2>2. Alone(req'[r], post', tagged', tags')
    BY <1>0, <2>1 DEF Alone, Unannounced
  <2> QED
    BY <1>3, <2>1, <2>2 DEF Unannounced
<1>8. CASE LinkTags(r)
  <2>1. /\ q.at = "link" /\ UNCHANGED <<post, tags>>
        /\ \A p \in Posts : p # q.post => tagged'[p] = tagged[p]
        /\ req'[r].post = q.post /\ req'[r].row = q.row /\ req'[r].twice = q.twice
        /\ req'[r].at = "read"
    BY <1>0, <1>8 DEF LinkTags, Become, Request
  <2>2. Alone(req'[r], post', tagged', tags')
    BY <1>0, <2>1 DEF Alone, Unannounced
  <2> QED
    BY <1>3, <2>1, <2>2 DEF Unannounced
<1>9. CASE ReadTags(r)
  <2>1. q.at = "read" /\ q.row # Absent /\ q.row \in Row
    BY <1>0, <1>9, AbsentIsNoRow DEF ReadTags, Alone, Unannounced
  <2>2. /\ UNCHANGED <<post, tagged, tags>>
        /\ req'[r].post = q.post /\ req'[r].row = q.row /\ req'[r].twice = q.twice
        /\ req'[r].at = "announce" /\ req'[r].shown = tagged[q.post]
    BY <1>0, <1>9, <2>1 DEF ReadTags, Become, Request
  <2>3. Alone(req'[r], post', tagged', tags')
    BY <1>0, <2>1, <2>2 DEF Alone, Unannounced
  <2> QED
    BY <1>3, <2>2, <2>3 DEF Unannounced
<1>10. CASE DeletePost(r)
  <2>1. /\ post' = [post EXCEPT ![q.post] = Absent] /\ tagged' = [tagged EXCEPT ![q.post] = {}]
        /\ req'[r].post = q.post /\ req'[r].twice = q.twice /\ req'[r].at = "retract"
    BY <1>0, <1>10 DEF DeletePost, Become, Request
  <2>2. post'[q.post] = Absent
    BY <1>0, <1>1, <2>1
  <2>3. Alone(req'[r], post', tagged', tags')
    BY <1>0, <2>1, <2>2 DEF Alone, Unannounced
  <2>4. \A p \in Posts : p # q.post => post'[p] = post[p] /\ tagged'[p] = tagged[p]
    BY <1>0, <2>1
  <2> QED
    BY <1>3, <2>1, <2>3, <2>4 DEF Unannounced
<1> QED
  BY <1>4, <1>5, <1>6, <1>7, <1>8, <1>9, <1>10

(* It announces what it has written.                                       *)
LEMMA LogReadsPublished ==
  ASSUME Undisturbed, InTurn', TInv, LogReads, NEW r \in Requests,
         Announce(r) \/ AnnouncePublished(r) \/ AnnounceDeleted(r)
  PROVE  LogReads'
<1> DEFINE q == req[r]
<1>0. /\ req \in [Requests -> Request] /\ log \in Seq(Event) /\ q \in Request /\ Sound(q)
      /\ Alone(q, post, tagged, tags) /\ UNCHANGED <<post, tagged, tags, used>>
  BY DEF TInv, TypeOK, LogReads, Announce, AnnouncePublished, AnnounceDeleted
<1>1. Alone(req'[r], post, tagged, tags)
  <2>1. req'[r].at \in {"idle", "publish"} /\ ~ req'[r].twice
    <3>1. ~ q.twice /\ Idle.at = "idle" /\ ~ Idle.twice
      BY <1>0 DEF Alone, Idle
    <3> QED
      BY <1>0, <3>1 DEF Announce, AnnouncePublished, AnnounceDeleted, Finish, Become, Request
  <2> QED
    BY <2>1 DEF Alone, Unannounced
\* Any event that does what the leaves below show brings the log up to date.
<1>2. ASSUME NEW e \in Event, log' = Append(log, e), e.post = q.post,
             \/ e.kind = "published" /\ q.at \notin Unannounced
             \/ e.kind # "published" /\ Kept(q.post) = Word(e)
      PROVE  LogReads'
  <2>1. ASSUME NEW p \in Posts
        PROVE  \/ \E o \in Requests \ {r} : req[o].at \in Unannounced /\ req[o].post = p
               \/ LogSays(log', p, Len(log') + 1, Kept(p))
    <3>1. CASE p = q.post /\ e.kind # "published"
      BY <1>0, <1>2, <3>1, SaysPublished
    <3>2. CASE p # q.post \/ e.kind = "published"
      <4>1. \/ \E o \in Requests \ {r} : req[o].at \in Unannounced /\ req[o].post = p
            \/ LogSays(log, p, Len(log) + 1, Kept(p))
        BY <1>2, <3>2, OthersOwe
      <4> QED
        BY <1>0, <1>2, <3>2, <4>1, SaysPublished
    <3> QED
      BY <3>1, <3>2
  <2>2. \A o \in Requests : o # r => req'[o] = req[o]
    BY <1>0 DEF Announce, AnnouncePublished, AnnounceDeleted, Become, Finish
  <2> QED
    BY <1>0, <1>1, <2>1, <2>2, AllAnnounced
<1>3. CASE Announce(r)
  <2> DEFINE e == Announcement(q)
  <2>1. q.at = "announce" /\ q.post \in Posts /\ q.row \in Row /\ q.row = post[q.post]
        /\ q.shown = tagged[q.post] /\ log' = Append(log, e)
    BY <1>0, <1>3 DEF Announce, Sound, Alone, Unannounced
  <2>2. e \in Event /\ e.post = q.post /\ e.kind \notin {"published", "deleted"}
        /\ e.text = q.row.text /\ e.tags = q.shown /\ e.status = q.row.status
    BY <1>0, <2>1, AnnouncementIsEvent DEF Announcement
  <2> HIDE DEF e
  <2>3. Kept(q.post) = Word(e)
    BY <2>1, <2>2, AbsentIsNoRow DEF Kept, Word
  <2> QED
    BY <1>2, <2>1, <2>2, <2>3
<1>4. CASE AnnouncePublished(r)
  <2> DEFINE e == [kind |-> "published", post |-> q.post, author |-> q.row.author,
                   text |-> q.row.text, tags |-> {}, status |-> Absent]
  <2>1. q.at = "publish" /\ q.post \in Posts /\ q.row \in Row /\ log' = Append(log, e)
    BY <1>0, <1>4 DEF AnnouncePublished, Sound
  <2>2. e \in Event /\ e.post = q.post /\ e.kind = "published"
    BY <2>1 DEF Event, Row
  <2> HIDE DEF e
  <2> QED
    BY <1>2, <2>1, <2>2 DEF Unannounced
<1>5. CASE AnnounceDeleted(r)
  <2> DEFINE e == [kind |-> "deleted", post |-> q.post, author |-> Absent,
                   text |-> Absent, tags |-> {}, status |-> Absent]
  <2>1. q.at = "retract" /\ q.post \in Posts /\ post[q.post] = Absent /\ log' = Append(log, e)
    BY <1>0, <1>5 DEF AnnounceDeleted, Sound, Alone, Unannounced
  <2>2. e \in Event /\ e.post = q.post /\ e.kind = "deleted"
    BY <2>1 DEF Event
  <2> HIDE DEF e
  <2>3. Kept(q.post) = Word(e)
    BY <2>1, <2>2 DEF Kept, Word
  <2> QED
    BY <1>2, <2>1, <2>2, <2>3
<1> QED
  BY <1>3, <1>4, <1>5

(* A request that is alone with its post is refused nothing.               *)
LEMMA NothingRefused ==
  ASSUME TInv, LogReads, NEW r \in Requests
  PROVE  ~ TagRefused(r) /\ ~ LinkRefused(r)
<1>1. Alone(req[r], post, tagged, tags)
  BY DEF LogReads
<1>2. ~ TagRefused(r)
  BY <1>1 DEF TagRefused, Alone
<1>3. ASSUME LinkRefused(r) PROVE FALSE
  <2>1. req[r].at = "link" /\ post[req[r].post] # Absent /\ tagged[req[r].post] = {}
        /\ ~ req[r].twice
    BY <1>1, <1>3, AbsentIsNoRow DEF LinkRefused, Alone, Unannounced
  <2> QED
    BY <1>3, <2>1 DEF LinkRefused, Linkable
<1> QED
  BY <1>2, <1>3

LEMMA LogReadsStep ==
  ASSUME Undisturbed
  PROVE  SearchTyped /\ InTurn /\ InTurn' /\ LogReads /\ [NextSearch]_searchVars
           /\ faults = 0 /\ faults' = 0 => LogReads'
<1> SUFFICES ASSUME SearchTyped, InTurn, InTurn', LogReads, [NextSearch]_searchVars,
                    faults = 0, faults' = 0
             PROVE  LogReads'
  OBVIOUS
<1>0. TInv
  BY DEF SearchTyped
<1>1. ASSUME UNCHANGED postVars PROVE LogReads'
  BY <1>1 DEF LogReads, Kept, postVars
<1>2. ASSUME NEW r \in Requests, Resume(r) PROVE LogReads'
  BY <1>0, <1>2, NothingRefused, LogReadsGoesOn, LogReadsPublished DEF Resume
<1>3. ASSUME NEW r \in Requests, NEW p \in Posts,
             \/ \E body \in Body, twice \in BOOLEAN :
                   \/ \E a \in Authors : CreatePost(r, p, a, body, twice)
                   \/ FindForUpdate(r, p, body, twice)
             \/ FindForDelete(r, p)
      PROVE  LogReads'
  BY <1>0, <1>3, LogReadsStarts
<1>4. /\ \A r \in Requests : ~ PublicationFails(r)
      /\ \A a \in Authors : ~ ArchivePosts(a)
      /\ ~ CrashPosts
  BY DEF PublicationFails, ArchivePosts, CrashPosts, Undisturbed
<1>5. CASE Next
  BY <1>2, <1>3, <1>4, <1>5 DEF Next
<1>6. CASE NextIndexer
  BY <1>1, <1>6, IndexerApart
<1>7. CASE UNCHANGED searchVars
  BY <1>1, <1>7 DEF searchVars
<1> QED
  BY <1>5, <1>6, <1>7 DEF NextSearch

-----------------------------------------------------------------------------
(* The search indexer: the index agrees with the posts.                    *)

QuietInv == faults = 0 => IndexReads /\ LogReads

(* Faults are not undone.                                                  *)
LEMMA FaultsGrow ==
  SearchTyped /\ [NextSearch]_searchVars /\ faults' = 0 => faults = 0
<1> SUFFICES ASSUME SearchTyped, [NextSearch]_searchVars, faults' = 0 PROVE faults = 0
  OBVIOUS
<1>1. faults \in Nat
  BY PostConstants DEF SearchTyped, TInv, TypeOK
<1>2. ASSUME NEW r \in Requests, Resume(r) \/ PublicationFails(r)
      PROVE  faults' \in {faults, faults + 1}
  BY <1>2 DEF Resume, PublicationFails, UpdatePost, UnlinkTags, FindTag, InsertTag, TagRefused,
     LinkTags, LinkRefused, ReadTags, DeletePost, Announce, AnnouncePublished, AnnounceDeleted
<1>3. ASSUME NEW r \in Requests, NEW p \in Posts,
             \/ \E body \in Body, twice \in BOOLEAN :
                   \/ \E a \in Authors : CreatePost(r, p, a, body, twice)
                   \/ FindForUpdate(r, p, body, twice)
             \/ FindForDelete(r, p)
      PROVE  UNCHANGED faults
  BY <1>3 DEF CreatePost, FindForUpdate, FindForDelete
<1>4. ASSUME Next PROVE faults' \in {faults, faults + 1}
  <2>1. ASSUME NEW a \in Authors, ArchivePosts(a) PROVE faults' \in {faults, faults + 1}
    BY <2>1 DEF ArchivePosts
  <2>2. CASE CrashPosts
    BY <2>2 DEF CrashPosts
  <2> QED
    BY <1>2, <1>3, <1>4, <2>1, <2>2 DEF Next
<1>5. ASSUME NextIndexer PROVE faults' \in {faults, faults + 1}
  <2>1. UNCHANGED faults \/ faults' = faults + 1
    BY <1>5 DEF NextIndexer, OpenIndex, Attach, Subscribe, SubscribeFails, SubscriptionEnds,
       CrashIndexer, LoseVolume, AckEvent, AckEventLost, HandleEvent, HandleFails
  <2> QED
    BY <2>1
<1>6. faults' \in {faults, faults + 1}
  BY <1>4, <1>5 DEF NextSearch, searchVars
<1> QED
  BY <1>1, <1>6

(* At rest the log has been read to its end, and it says one thing.        *)
LEMMA RestAgrees == SearchTyped /\ QuietInv => IndexConverges
<1> SUFFICES ASSUME SearchTyped, IndexReads, LogReads, AtRest, NEW p \in Posts
             PROVE  Agrees(p)
  BY DEF QuietInv, IndexConverges
<1>1. ~ Rebuilding /\ durable.next = Len(log) + 1 /\ log \in Seq(Event)
  BY DEF AtRest, Drained, IndexReads, Rebuilding, SearchTyped, TInv, TypeOK
<1>2. LogSays(log, p, Len(log) + 1, Found(p))
  BY <1>1 DEF IndexReads
<1>3. LogSays(log, p, Len(log) + 1, Kept(p))
  BY DEF AtRest, LogReads, Unannounced
<1>4. Found(p) = Kept(p)
  BY <1>1, <1>2, <1>3, SaysOneThing
<1>5. CASE post[p] = Absent
  BY <1>4, <1>5 DEF Found, Kept, Agrees
<1>6. CASE post[p] # Absent
  <2>1. index[p] # Absent
    BY <1>4, <1>6 DEF Found, Kept
  <2>2. [text |-> index[p].text, tags |-> index[p].tags, status |-> index[p].status]
          = [text |-> post[p].text, tags |-> tagged[p], status |-> post[p].status]
    BY <1>4, <1>6, <2>1 DEF Found, Kept
  <2> QED
    BY <1>6, <2>1, <2>2 DEF Agrees
<1> QED
  BY <1>5, <1>6

(* If requests for one post do not overlap, no two race for a new tag,     *)
(* nobody's account goes and nothing fails, the index agrees with the      *)
(* posts whenever both sides are at rest, however many requests for        *)
(* different posts overlap, and also after the indexer has lost its volume *)
(* and started again.                                                      *)
THEOREM SearchConverges ==
  ASSUME Undisturbed
  PROVE  SpecSearch /\ []InTurn => []IndexConverges
<1>1. InitSearch => QuietInv
  BY IndexReadsInit, LogReadsInit DEF QuietInv
<1>2. SearchTyped /\ SearchTyped' /\ InTurn /\ InTurn' /\ QuietInv /\ [NextSearch]_searchVars
        => QuietInv'
  BY IndexReadsStep, LogReadsStep, FaultsGrow DEF QuietInv
<1> QED
  BY <1>1, <1>2, RestAgrees, SearchTypes, PTL DEF SpecSearch
=============================================================================
