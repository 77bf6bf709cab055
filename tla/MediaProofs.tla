------------------------------ MODULE MediaProofs ------------------------------
(***************************************************************************)
(* Theorems about Media, for every set of media and every bound: its       *)
(* types, and that files and rows match unless a statement has failed.     *)
(***************************************************************************)
EXTENDS Media, FiniteSetTheorems, TLAPS

-----------------------------------------------------------------------------
(* Types.                                                                  *)

Jobs == [at : {"files", "ack"}, left : SUBSET Media]

TypedService ==
  /\ upload \in [Media -> {"none", "saved", "stored", "failed"}]
  /\ file \in SUBSET Media
  /\ row \in SUBSET {m \in Media : upload[m] = "stored"}
  /\ del \in [Media -> {"none", "found", "unlinked"}]
  /\ told \in {"no", "pending", "acked"} /\ alive \in BOOLEAN
  /\ job \in Jobs \union {None}
  /\ cut \in SUBSET Media

TypedTab ==
  /\ posts \in [Posts -> Post]
  /\ token \in {"valid", "expired"}
  /\ reading \in Reading \union {None}
  /\ seen \in Seen \union {None}
  /\ listed \in (SUBSET Media) \union {None}
  /\ sweep \in [left : SUBSET Media, now : Media \union {None}]

TInv == TypedService /\ TypedTab /\ faults \in Nat

LEMMA TInvIsTypeOK == TInv <=> TypeOK
BY DEF TInv, TypedService, TypedTab, TypeOK, Jobs

LEMMA TypesInit == Init => TInv
<1> SUFFICES ASSUME Init PROVE TInv
  OBVIOUS
<1>1. TypedService
  BY DEF Init, TypedService
<1>2. sweep \in [left : SUBSET Media, now : Media \union {None}]
  BY DEF Init, NoSweep
<1>3. posts \in [Posts -> Post]
  BY DEF Init, Post
<1>4. TypedTab
  BY <1>2, <1>3 DEF Init, TypedTab
<1> QED
  BY <1>1, <1>4 DEF Init, TInv

LEMMA FaultIsCounted == TInv /\ Fault => faults' \in Nat
BY DEF TInv, Fault

(* A page of posts has some number of them.                                *)
LEMMA PagesAreFinite == \A n : Cardinality(OnPage(n)) \in Nat
<1>1. IsFiniteSet(Posts)
  BY MediaConstants, FS_Interval DEF Posts
<1>2. \A n : OnPage(n) \subseteq Posts
  BY DEF OnPage, Visible, Existing
<1> QED
  BY <1>1, <1>2, FS_Subset, FS_CardinalityType

(* What becomes of the posts and what was read of them.                    *)
LEMMA RewriteIsTyped ==
  ASSUME TInv, NEW p \in Posts, NEW new \in Post, Rewrite(p, new)
  PROVE  /\ posts' \in [Posts -> Post]
         /\ reading' \in Reading \union {None} /\ seen' \in Seen \union {None}
<1> USE DEF TInv, TypedTab
<1> DEFINE K(r) == r.kept \intersect Links([posts EXCEPT ![p] = new])
<1>1. posts' \in [Posts -> Post]
  BY DEF Rewrite
<1>2. ASSUME seen # None PROVE seen' \in Seen
  <2>1. seen \in Seen /\ seen' = [seen EXCEPT !.kept = K(seen)]
    BY <1>2 DEF Rewrite
  <2> QED
    BY <2>1 DEF Seen
<1>3. ASSUME reading # None PROVE reading' \in Reading
  <2> DEFINE w == reading.whole /\ new.at # "deleted"
  <2>1. w \in BOOLEAN
    BY <1>3 DEF Reading
  <2>2. reading \in Reading
        /\ reading' = [reading EXCEPT !.kept = K(reading), !.whole = w]
    BY <1>3 DEF Rewrite
  <2> HIDE DEF w
  <2> QED
    BY <2>1, <2>2 DEF Reading
<1> QED
  BY <1>1, <1>2, <1>3 DEF Rewrite

THEOREM TypesStep == TInv /\ [Next]_vars => TInv'
<1> SUFFICES ASSUME TInv, [Next]_vars PROVE TInv'
  OBVIOUS
<1> USE MediaConstants
<1>0. Fault => faults' \in Nat
  BY FaultIsCounted
<1> USE DEF TInv
<1>1. ASSUME TypedService', UNCHANGED <<posts, tab>>, faults' \in Nat PROVE TInv'
  BY <1>1 DEF TypedTab, tab
<1>2. ASSUME NEW m \in Media, Save(m) \/ Insert(m) PROVE TInv'
  <2>1. TypedService'
    BY <1>2 DEF Save, Insert, Done, TypedService
  <2> QED
    BY <1>0, <1>1, <1>2, <2>1 DEF Save, Insert, Done
<1>3. ASSUME NEW m \in Media, FindForDelete(m) \/ Unlink(m) \/ DeleteRow(m) PROVE TInv'
  <2>1. TypedService'
    BY <1>3 DEF FindForDelete, Unlink, DeleteRow, Done, TypedService
  <2> QED
    BY <1>0, <1>1, <1>3, <2>1 DEF FindForDelete, Unlink, DeleteRow, Done
<1>4. CASE AuthorDeleted \/ LoopEnds \/ AckDeletion \/ AckLost
  <2>1. TypedService'
    BY <1>4 DEF AuthorDeleted, LoopEnds, AckDeletion, AckLost, TypedService
  <2> QED
    BY <1>0, <1>1, <1>4, <2>1 DEF AuthorDeleted, LoopEnds, AckDeletion, AckLost
<1>5. CASE SelectFiles
  <2>1. row \in SUBSET Media
    BY DEF TypedService
  <2>2. job' \in Jobs
    BY <1>5, <2>1 DEF SelectFiles, Jobs
  <2>3. TypedService'
    BY <1>5, <2>1, <2>2 DEF SelectFiles, TypedService
  <2> QED
    BY <1>0, <1>1, <1>5, <2>3 DEF SelectFiles
<1>6. CASE UnlinkNext
  <2>1. job \in Jobs
    BY <1>6 DEF UnlinkNext, TypedService
  <2>2. job' \in Jobs
    BY <1>6, <2>1 DEF UnlinkNext, Jobs
  <2>3. PICK m \in Media : Done(file, file \ {m}, m)
    BY <1>6, <2>1 DEF UnlinkNext, Jobs
  <2>4. TypedService'
    BY <1>6, <2>2, <2>3 DEF UnlinkNext, Done, TypedService
  <2> QED
    BY <1>0, <1>1, <1>6, <2>3, <2>4 DEF UnlinkNext, Done
<1>7. CASE DeleteRows
  <2>1. job' \in Jobs
    BY <1>7 DEF DeleteRows, TypedService, Jobs
  <2>2. TypedService'
    BY <1>7, <2>1 DEF DeleteRows, TypedService
  <2> QED
    BY <1>0, <1>1, <1>7, <2>2 DEF DeleteRows
<1>8. CASE CrashMedia
  <2>1. TypedService'
    BY <1>8 DEF CrashMedia, TypedService
  <2> QED
    BY <1>0, <1>1, <1>8, <2>1 DEF CrashMedia
<1>9. ASSUME NEW p \in Posts, NEW new \in Post, Rewrite(p, new),
             UNCHANGED <<service, token, listed, sweep, cut, faults>>
      PROVE  TInv'
  BY <1>9, RewriteIsTyped DEF service, TypedService, TypedTab
<1>10. ASSUME NEW p \in Posts, DeletePost(p) PROVE TInv'
  <2>1. [at |-> "deleted", shows |-> {}] \in Post
    BY DEF Post
  <2> QED
    BY <1>9, <1>10, <2>1 DEF DeletePost
<1>11. ASSUME NEW p \in Posts, NEW at \in {"hidden", "public"}, NEW shows \in SUBSET Media,
              WritePost(p, at, shows)
       PROVE  TInv'
  <2>1. [at |-> at, shows |-> shows] \in Post
    BY DEF Post
  <2> QED
    BY <1>9, <1>11, <2>1 DEF WritePost
\* The tab moves, and the service and the posts do not.
<1>12. ASSUME TypedTab', UNCHANGED <<service, cut>>, faults' \in Nat PROVE TInv'
  BY <1>12 DEF service, TypedService
<1>13. CASE FetchAllPosts
  <2>1. Links(posts) \subseteq Posts \X Media
    BY DEF Links, Existing
  <2>2. reading' \in Reading
    BY <1>13, <2>1 DEF FetchAllPosts, Reading
  <2> QED
    BY <1>12, <1>13, <2>2 DEF FetchAllPosts, TypedTab
<1>14. CASE ReadPage
  <2> DEFINE items == OnPage(reading.page)
             got == reading.got + Cardinality(items)
             shows == reading.shows \union UNION {posts[p].shows : p \in items}
             whole == reading.whole /\ token = "valid"
  <2>1. reading \in Reading
    BY <1>14 DEF ReadPage, TypedTab
  <2>2. got \in Nat
    BY <2>1, PagesAreFinite DEF Reading
  <2>3. shows \in SUBSET Media
    <3>1. items \subseteq Posts
      BY DEF OnPage, Visible, Existing
    <3>2. \A p \in items : posts[p].shows \in SUBSET Media
      BY <3>1 DEF TypedTab, Post
    <3> QED
      BY <2>1, <3>2 DEF Reading
  <2>4. whole \in BOOLEAN
    BY <2>1 DEF Reading
  <2>5. \/ /\ seen' = [shows |-> shows, whole |-> whole, kept |-> reading.kept]
           /\ reading' = None
        \/ /\ reading' = [page |-> reading.page + 1, got |-> got, shows |-> shows,
                          whole |-> whole, kept |-> reading.kept]
           /\ UNCHANGED seen
    BY <1>14 DEF ReadPage
  <2> HIDE DEF got, shows, whole
  <2>6. reading' \in Reading \union {None} /\ seen' \in Seen \union {None}
    BY <2>1, <2>2, <2>3, <2>4, <2>5 DEF Reading, Seen, TypedTab
  <2> QED
    BY <1>12, <1>14, <2>6 DEF ReadPage, TypedTab
<1>15. CASE ReadingFails
  <2>1. seen' \in Seen \union {None}
    BY <1>15 DEF ReadingFails, Seen, TypedTab
  <2> QED
    BY <1>0, <1>12, <1>15, <2>1 DEF ReadingFails, TypedTab
<1>16. CASE ListMedia \/ DeleteAllOrphans
  <2>1. row \in SUBSET Media
    BY DEF TypedService
  <2> QED
    BY <1>12, <1>16, <2>1 DEF ListMedia, DeleteAllOrphans, TypedTab
<1>17. ASSUME NEW m \in Media, DeleteOrphan(m) PROVE TInv'
  <2>1. del' \in [Media -> {"none", "found", "unlinked"}]
    BY <1>17 DEF DeleteOrphan, TypedService
  <2>2. sweep' \in [left : SUBSET Media, now : Media \union {None}]
    BY <1>17 DEF DeleteOrphan, TypedTab
  <2> QED
    BY <1>17, <2>1, <2>2 DEF DeleteOrphan, TypedService, TypedTab
<1>18. CASE TokenExpires \/ SignInAgain
  BY <1>0, <1>12, <1>18 DEF TokenExpires, SignInAgain, TypedTab
<1>19. CASE UNCHANGED vars
  BY <1>12, <1>19 DEF vars, tab, TypedTab
<1> QED
  BY <1>2, <1>3, <1>4, <1>5, <1>6, <1>7, <1>8, <1>10, <1>11, <1>13, <1>14, <1>15, <1>16,
     <1>17, <1>18, <1>19 DEF Next

LEMMA TypeInvariant == Spec => []TInv
BY TypesInit, TypesStep, PTL DEF Spec

(* Media's state is typed; a row is of an upload that has come to its end. *)
THEOREM TypesCorrect == Spec => []TypeOK
BY TypeInvariant, TInvIsTypeOK, PTL

-----------------------------------------------------------------------------
(* Files and rows.  A file is there before its row is; only media that are *)
(* stored are deleted; what a deletion or the subscriber has unlinked is   *)
(* gone, unless the statement failed; and once the subscriber has deleted  *)
(* the rows of user.deleted, a row without its file is a deletion's.       *)

UploadsOrdered ==
  \A m \in Media :
    /\ upload[m] = "none" => m \notin file
    /\ upload[m] = "saved" => m \in file
    /\ del[m] # "none" => upload[m] = "stored"

JobsSound ==
  job # None => /\ told = "pending"
                /\ \A m \in job.left : upload[m] = "stored"
                /\ job.at = "ack" => job.left = {}

UnlinkedIsGone == \A m \in Media \ cut : del[m] = "unlinked" => m \notin file

RowsGone ==
  job # None /\ job.at = "ack" => \A m \in Media \ cut : m \in row \ file => del[m] = "unlinked"

FInv == UploadsOrdered /\ JobsSound /\ UnlinkedIsGone /\ RowsGone /\ FilesMatchRows

LEMMA FilesInit == Init => FInv
BY DEF Init, FInv, UploadsOrdered, JobsSound, UnlinkedIsGone, RowsGone, FilesMatchRows

LEMMA FilesStep == TInv /\ FInv /\ [Next]_vars => FInv'
<1> SUFFICES ASSUME TInv, FInv, [Next]_vars PROVE FInv'
  OBVIOUS
<1> USE DEF TInv, TypedService, FInv
\* No file, row or deletion is touched.
<1>1. ASSUME UNCHANGED <<service, cut>> PROVE FInv'
  BY <1>1 DEF service, UploadsOrdered, JobsSound, UnlinkedIsGone, RowsGone, FilesMatchRows
<1>2. ASSUME NEW m \in Media, Save(m) \/ Insert(m) PROVE FInv'
  <2>1. UploadsOrdered'
    BY <1>2 DEF Save, Insert, Done, UploadsOrdered
  <2>2. JobsSound'
    BY <1>2 DEF Save, Insert, Done, JobsSound, Jobs
  <2>3. UnlinkedIsGone' /\ RowsGone' /\ FilesMatchRows'
    BY <1>2 DEF Save, Insert, Done, UploadsOrdered, UnlinkedIsGone, RowsGone, FilesMatchRows
  <2> QED
    BY <2>1, <2>2, <2>3
\* A deletion begins.
<1>3. ASSUME NEW m \in Media, m \in row, del[m] = "none", del' = [del EXCEPT ![m] = "found"],
             UNCHANGED <<upload, file, row, told, alive, job, cut>>
      PROVE  FInv'
  <2>1. UploadsOrdered'
    BY <1>3 DEF UploadsOrdered
  <2>2. JobsSound'
    BY <1>3 DEF JobsSound
  <2>3. UnlinkedIsGone' /\ RowsGone' /\ FilesMatchRows'
    BY <1>3 DEF UnlinkedIsGone, RowsGone, FilesMatchRows
  <2> QED
    BY <2>1, <2>2, <2>3
<1>4. ASSUME NEW m \in Media, FindForDelete(m) PROVE FInv'
  BY <1>3, <1>4 DEF FindForDelete
<1>5. ASSUME NEW m \in Media, Unlink(m) PROVE FInv'
  <2>1. UploadsOrdered'
    BY <1>5 DEF Unlink, Done, UploadsOrdered
  <2>2. JobsSound'
    BY <1>5 DEF Unlink, Done, JobsSound
  <2>3. UnlinkedIsGone' /\ RowsGone' /\ FilesMatchRows'
    BY <1>5 DEF Unlink, Done, UploadsOrdered, UnlinkedIsGone, RowsGone, FilesMatchRows
  <2> QED
    BY <2>1, <2>2, <2>3
<1>6. ASSUME NEW m \in Media, DeleteRow(m) PROVE FInv'
  <2>1. UploadsOrdered'
    BY <1>6 DEF DeleteRow, Done, UploadsOrdered
  <2>2. JobsSound'
    BY <1>6 DEF DeleteRow, Done, JobsSound
  <2>3. UnlinkedIsGone' /\ RowsGone' /\ FilesMatchRows'
    BY <1>6 DEF DeleteRow, Done, UploadsOrdered, UnlinkedIsGone, RowsGone, FilesMatchRows
  <2> QED
    BY <2>1, <2>2, <2>3
<1>7. CASE AuthorDeleted \/ LoopEnds \/ AckDeletion \/ AckLost
  <2>1. UploadsOrdered' /\ UnlinkedIsGone'
    BY <1>7 DEF AuthorDeleted, LoopEnds, AckDeletion, AckLost, UploadsOrdered, UnlinkedIsGone
  <2>2. JobsSound'
    BY <1>7 DEF AuthorDeleted, LoopEnds, AckDeletion, AckLost, JobsSound
  <2>3. RowsGone' /\ FilesMatchRows'
    BY <1>7 DEF AuthorDeleted, LoopEnds, AckDeletion, AckLost, JobsSound, RowsGone, FilesMatchRows
  <2> QED
    BY <2>1, <2>2, <2>3
<1>8. CASE SelectFiles
  <2>1. job'.at = "files" /\ job'.left \subseteq row
    BY <1>8 DEF SelectFiles
  <2>2. JobsSound'
    BY <1>8, <2>1 DEF SelectFiles, JobsSound
  <2>3. UploadsOrdered' /\ UnlinkedIsGone' /\ RowsGone' /\ FilesMatchRows'
    BY <1>8, <2>1 DEF SelectFiles, UploadsOrdered, UnlinkedIsGone, RowsGone, FilesMatchRows
  <2> QED
    BY <2>2, <2>3
<1>9. CASE UnlinkNext
  <2>0. job \in Jobs
    BY <1>9 DEF UnlinkNext
  <2>1. PICK m \in job.left : Done(file, file \ {m}, m) /\ job' = [job EXCEPT !.left = @ \ {m}]
    BY <1>9 DEF UnlinkNext
  <2>2. m \in Media /\ upload[m] = "stored" /\ job.at # "ack" /\ told = "pending"
        /\ job'.at = job.at /\ job'.left \subseteq job.left /\ job # None
    BY <1>9, <2>0, <2>1 DEF UnlinkNext, JobsSound, Jobs
  <2>3. JobsSound'
    BY <1>9, <2>1, <2>2 DEF UnlinkNext, JobsSound
  <2>4. UploadsOrdered'
    BY <1>9, <2>1, <2>2 DEF UnlinkNext, Done, UploadsOrdered
  <2>5. UnlinkedIsGone' /\ RowsGone' /\ FilesMatchRows'
    BY <1>9, <2>1, <2>2 DEF UnlinkNext, Done, UnlinkedIsGone, RowsGone, FilesMatchRows
  <2> QED
    BY <2>3, <2>4, <2>5
<1>10. CASE DeleteRows
  <2>1. job'.at = "ack" /\ job'.left = {} /\ told = "pending"
    BY <1>10 DEF DeleteRows, JobsSound, Jobs
  <2>2. JobsSound'
    BY <1>10, <2>1 DEF DeleteRows, JobsSound
  <2>3. UploadsOrdered' /\ UnlinkedIsGone' /\ RowsGone' /\ FilesMatchRows'
    BY <1>10, <2>1 DEF DeleteRows, UploadsOrdered, UnlinkedIsGone, RowsGone, FilesMatchRows
  <2> QED
    BY <2>2, <2>3
<1>11. CASE CrashMedia
  <2>1. JobsSound' /\ RowsGone'
    BY <1>11 DEF CrashMedia, JobsSound, RowsGone
  <2>2. UploadsOrdered' /\ UnlinkedIsGone' /\ FilesMatchRows'
    BY <1>11 DEF CrashMedia, UploadsOrdered, UnlinkedIsGone, FilesMatchRows
  <2> QED
    BY <2>1, <2>2
<1>12. ASSUME NEW m \in Media, DeleteOrphan(m) PROVE FInv'
  <2>1. CASE token = "valid" /\ m \in row /\ del[m] = "none"
    BY <1>3, <1>12, <2>1 DEF DeleteOrphan
  <2>2. CASE ~(token = "valid" /\ m \in row /\ del[m] = "none")
    BY <1>1, <1>12, <2>2 DEF DeleteOrphan, service
  <2> QED
    BY <2>1, <2>2
<1>13. \/ UNCHANGED <<service, cut>>
       \/ \E m \in Media : \/ Save(m) \/ Insert(m) \/ FindForDelete(m) \/ Unlink(m)
                           \/ DeleteRow(m) \/ DeleteOrphan(m)
       \/ AuthorDeleted \/ SelectFiles \/ UnlinkNext \/ DeleteRows \/ AckDeletion \/ AckLost
       \/ LoopEnds \/ CrashMedia
  BY DEF Next, DeletePost, WritePost, FetchAllPosts, ReadPage, ReadingFails, ListMedia,
         DeleteAllOrphans, TokenExpires, SignInAgain, vars
<1> QED
  BY <1>1, <1>2, <1>4, <1>5, <1>6, <1>7, <1>8, <1>9, <1>10, <1>11, <1>12, <1>13

(* Files and rows match: whatever uploads, deletions and the deletion of   *)
(* their author come between each other's statements, a row without its    *)
(* file is on its way out, and a file without a row on its way in or its   *)
(* author's end has come, unless a statement about it has failed.          *)
THEOREM FilesAndRowsMatch == Spec => []FilesMatchRows
<1>1. FInv => FilesMatchRows
  BY DEF FInv
<1> QED
  BY <1>1, FilesInit, FilesStep, TypeInvariant, PTL DEF Spec

-----------------------------------------------------------------------------
(* Pages.  Above(p) is how many posts a listing shows before p; a page has *)
(* the one that a given number of posts come before.                       *)

Later(p) == {q \in Existing(posts) : q > p}
Above(p) == Cardinality(Later(p))

(* Finite sets are well-founded under inclusion, hence numbers are.        *)
LEMMA LeastNumber ==
  ASSUME NEW S \in SUBSET Nat, S # {}
  PROVE  \E x \in S : \A y \in S : x <= y
<1> DEFINE T == {0 .. x : x \in S}
<1>1. \A x \in S : 0 .. x \in FiniteSubsetsOf(Nat)
  <2> SUFFICES ASSUME NEW x \in S PROVE 0 .. x \in FiniteSubsetsOf(Nat)
    OBVIOUS
  <2>1. IsFiniteSet(0 .. x)
    BY FS_Interval
  <2> QED
    BY <2>1 DEF FiniteSubsetsOf
<1>2. T \subseteq FiniteSubsetsOf(Nat) /\ T # {}
  BY <1>1
<1>3. IsWellFoundedOn(StrictSubsetOrdering(Nat), FiniteSubsetsOf(Nat))
  BY FS_StrictSubsetOrderingWellFounded
<1> HIDE DEF T
<1>4. PICK t \in T : \A u \in T : ~(<<u, t>> \in StrictSubsetOrdering(Nat))
  BY <1>2, <1>3, WFMin
<1>5. PICK x \in S : t = 0 .. x
  BY DEF T
<1>6. ASSUME NEW y \in S, y < x PROVE FALSE
  <2>1. 0 .. y \in T /\ 0 .. y \subseteq 0 .. x /\ x \in 0 .. x /\ x \notin 0 .. y
    BY <1>6 DEF T
  <2>2. <<0 .. y, t>> \in StrictSubsetOrdering(Nat)
    BY <1>5, <2>1 DEF StrictSubsetOrdering
  <2> QED
    BY <1>4, <2>1, <2>2
<1> QED
  BY <1>6

LEMMA PostsAreFinite ==
  /\ IsFiniteSet(Existing(posts)) /\ \A p \in Existing(posts) : p \in Nat
  /\ \A p : IsFiniteSet(Later(p)) /\ Above(p) \in Nat
<1>1. IsFiniteSet(Posts) /\ Posts \subseteq Nat
  BY MediaConstants, FS_Interval DEF Posts
<1>2. Existing(posts) \subseteq Posts /\ \A p : Later(p) \subseteq Existing(posts)
  BY DEF Existing, Later
<1>3. IsFiniteSet(Existing(posts))
  BY <1>1, <1>2, FS_Subset
<1> QED
  BY <1>1, <1>2, <1>3, FS_Subset, FS_CardinalityType DEF Above

(* Of two posts the earlier has more before it.                            *)
LEMMA AboveFalls ==
  ASSUME NEW p \in Existing(posts), NEW q \in Existing(posts), p < q
  PROVE  Above(q) < Above(p)
<1>1. p \in Nat /\ q \in Nat /\ IsFiniteSet(Later(p)) /\ Above(p) \in Nat /\ Above(q) \in Nat
  BY PostsAreFinite
<1>2. Later(q) \subseteq Later(p) /\ q \in Later(p) /\ q \notin Later(q)
  <2>1. ASSUME NEW r \in Existing(posts), r > q PROVE r > p
    BY <1>1, <2>1, PostsAreFinite
  <2>2. q > p /\ ~(q > q)
    BY <1>1
  <2> QED
    BY <2>1, <2>2, Zenon DEF Later
<1>3. Above(q) <= Above(p) /\ (Above(q) = Above(p) => Later(q) = Later(p))
  BY <1>1, <1>2, FS_Subset DEF Above
<1> QED
  BY <1>1, <1>2, <1>3

(* Where a post has at least n before it, some post has just n.            *)
LEMMA EveryRankIsTaken ==
  ASSUME NEW n \in Nat, NEW p \in Existing(posts), Above(p) >= n
  PROVE  \E q \in Existing(posts) : Above(q) = n
<1> DEFINE ranks == {Above(q) : q \in {r \in Existing(posts) : Above(r) >= n}}
<1>1. ranks \in SUBSET Nat /\ ranks # {}
  BY PostsAreFinite
<1>2. PICK k \in ranks : \A j \in ranks : k <= j
  BY <1>1, LeastNumber
<1>3. PICK q \in Existing(posts) : Above(q) = k /\ k >= n
  OBVIOUS
<1>4. ASSUME k > n PROVE FALSE
  <2>1. Later(q) \in SUBSET Nat /\ IsFiniteSet(Later(q)) /\ q \in Nat /\ k \in Nat
    BY <1>1, <1>3, PostsAreFinite DEF Later
  <2>2. Later(q) # {}
    BY <1>3, <1>4, <2>1, FS_EmptySet DEF Above
  <2>3. PICK r \in Later(q) : \A s \in Later(q) : r <= s
    BY <2>1, <2>2, LeastNumber
  <2>4. r \in Existing(posts) /\ r > q /\ r \in Nat
    BY <2>1, <2>3 DEF Later
  <2>5. Later(r) = Later(q) \ {r}
    <3>1. ASSUME NEW s \in Existing(posts), s > r PROVE s > q /\ s # r
      BY <2>1, <2>4, <3>1, PostsAreFinite
    <3>2. ASSUME NEW s \in Later(q), s # r PROVE s \in Existing(posts) /\ s > r
      <4>1. s \in Existing(posts) /\ s \in Nat /\ r <= s
        BY <2>1, <2>3 DEF Later
      <4> QED
        BY <2>4, <3>2, <4>1
    <3> QED
      BY <3>1, <3>2, Zenon DEF Later
  <2>6. Above(r) = k - 1
    BY <1>3, <2>1, <2>3, <2>5, FS_RemoveElement DEF Above
  <2>7. Above(r) >= n
    BY <1>4, <2>1, <2>6
  <2>8. Above(r) \in ranks
    BY <2>4, <2>7
  <2> QED
    BY <1>2, <2>1, <2>6, <2>8
<1> QED
  BY <1>1, <1>3, <1>4

(* A page has one post at most, and none only where no post has as many    *)
(* before it.                                                              *)
LEMMA PageHasOne ==
  ASSUME token = "valid", NEW n \in Nat \ {0}
  PROVE  /\ OnPage(n) = {p \in Existing(posts) : Above(p) = n - 1}
         /\ Cardinality(OnPage(n)) <= 1
         /\ OnPage(n) = {} => \A p \in Existing(posts) : Above(p) < n - 1
<1>1. Visible = Existing(posts)
  BY DEF Visible
<1>2. OnPage(n) = {p \in Existing(posts) : Above(p) = n - 1}
  BY <1>1 DEF OnPage, Above, Later
<1>3. \A p, q \in OnPage(n) : p = q
  <2> SUFFICES ASSUME NEW p \in OnPage(n), NEW q \in OnPage(n), p # q PROVE FALSE
    OBVIOUS
  <2>1. p \in Existing(posts) /\ q \in Existing(posts) /\ Above(p) = n - 1 /\ Above(q) = n - 1
    BY <1>2
  <2>2. p \in Nat /\ q \in Nat /\ n - 1 \in Nat
    BY <2>1, PostsAreFinite
  <2>3. p < q \/ q < p
    BY <2>2
  <2> QED
    BY <2>1, <2>2, <2>3, AboveFalls
<1>4. OnPage(n) = {} \/ \E p : OnPage(n) = {p}
  BY <1>3
<1>5. Cardinality(OnPage(n)) <= 1
  BY <1>4, FS_EmptySet, FS_Singleton
<1>6. ASSUME OnPage(n) = {}, NEW p \in Existing(posts), ~(Above(p) < n - 1) PROVE FALSE
  <2>1. n - 1 \in Nat /\ Above(p) >= n - 1
    BY <1>6, PostsAreFinite
  <2> QED
    BY <1>2, <1>6, <2>1, EveryRankIsTaken
<1> QED
  BY <1>2, <1>5, <1>6

-----------------------------------------------------------------------------
(* Reading all posts.  A link that was there all along is in what was      *)
(* read, or on a page that is still to come.                               *)

Covered(r) ==
  /\ r.page \in Nat \ {0} /\ r.got <= r.page - 1
  /\ r.kept \subseteq Links(posts)
  /\ \A l \in r.kept : l[2] \in r.shows \/ Above(l[1]) >= r.page - 1

SInv ==
  /\ reading # None /\ reading.whole => Covered(reading)
  /\ seen # None /\ seen.whole => \A l \in seen.kept : l[2] \in seen.shows

LEMMA SeenInit == Init => SInv
BY DEF Init, SInv

(* A page adds what the posts on it show, and leaves the rest for later.   *)
LEMMA PageIsRead ==
  ASSUME TInv, SInv, ReadPage, reading.whole, token = "valid"
  PROVE  LET items == OnPage(reading.page)
             shows == reading.shows \union UNION {posts[p].shows : p \in items}
         IN  /\ \A l \in reading.kept : l[2] \in shows \/ Above(l[1]) >= reading.page
             /\ items = {} \/ AllGot(reading.got + Cardinality(items), Cardinality(Visible))
                  => \A l \in reading.kept : l[2] \in shows
<1> DEFINE n == reading.page
           items == OnPage(n)
           shows == reading.shows \union UNION {posts[p].shows : p \in items}
<1>1. reading \in Reading /\ Covered(reading) /\ n \in Nat \ {0} /\ reading.got \in Nat
  BY DEF ReadPage, TInv, TypedTab, SInv, Covered, Reading
<1>2. \A l \in reading.kept : l[1] \in Existing(posts) /\ l[2] \in posts[l[1]].shows
  BY <1>1 DEF Covered, Links
<1>3. /\ items = {p \in Existing(posts) : Above(p) = n - 1}
      /\ Cardinality(items) <= 1
      /\ items = {} => \A p \in Existing(posts) : Above(p) < n - 1
  BY <1>1, PageHasOne
<1>4. Cardinality(items) \in Nat
  BY PagesAreFinite
<1>5. ASSUME NEW l \in reading.kept, l[2] \notin shows PROVE Above(l[1]) >= n
  <2>1. l[1] \notin items
    BY <1>2, <1>5
  <2>2. Above(l[1]) >= n - 1 /\ Above(l[1]) # n - 1
    BY <1>1, <1>2, <1>3, <1>5, <2>1 DEF Covered
  <2>3. Above(l[1]) \in Nat
    BY PostsAreFinite
  <2> QED
    BY <1>1, <2>2, <2>3
<1>6. ASSUME items = {} \/ AllGot(reading.got + Cardinality(items), Cardinality(Visible)),
             NEW l \in reading.kept, l[2] \notin shows
      PROVE  FALSE
  <2> DEFINE p == l[1]
  <2>1. Above(p) >= n /\ p \in Existing(posts) /\ Above(p) \in Nat /\ p \in Nat
    BY <1>2, <1>5, <1>6, PostsAreFinite
  <2>2. CASE items = {}
    BY <1>1, <1>3, <2>1, <2>2
  <2>3. CASE reading.got + Cardinality(items) >= Cardinality(Visible)
    <3>1. IsFiniteSet(Later(p)) /\ p \notin Later(p) /\ IsFiniteSet(Existing(posts))
      BY <2>1, PostsAreFinite DEF Later
    <3>2. Cardinality(Later(p) \union {p}) = Above(p) + 1
      BY <3>1, FS_AddElement DEF Above
    <3>3. Later(p) \union {p} \subseteq Existing(posts) /\ Visible = Existing(posts)
      BY <2>1 DEF Later, Visible
    <3>4. Cardinality(Later(p) \union {p}) <= Cardinality(Visible) /\ Cardinality(Visible) \in Nat
      BY <3>1, <3>3, FS_Subset, FS_CardinalityType
    <3> HIDE DEF p
    <3> QED
      BY <1>1, <1>3, <1>4, <2>1, <2>3, <3>2, <3>4 DEF Covered
  <2> QED
    BY <1>6, <2>2, <2>3 DEF AllGot
<1> QED
  BY <1>5, <1>6

(* Posts that are written, not deleted, come before others or stay.        *)
LEMMA RewriteKeepsCovered ==
  ASSUME TInv, SInv, NEW p \in Posts, NEW new \in Post, Rewrite(p, new),
         new.at # "none"
  PROVE  SInv'
<1> USE DEF TInv, TypedTab
<1> DEFINE table == [posts EXCEPT ![p] = new]
<1>1. posts' = table /\ posts \in [Posts -> Post]
  BY DEF Rewrite
<1>2. ASSUME seen' # None, seen'.whole, NEW l \in seen'.kept PROVE l[2] \in seen'.shows
  <2>1. seen \in Seen /\ seen' = [seen EXCEPT !.kept = seen.kept \intersect Links(table)]
    BY <1>2 DEF Rewrite
  <2>2. seen'.whole = seen.whole /\ seen'.shows = seen.shows /\ l \in seen.kept
    BY <1>2, <2>1 DEF Seen
  <2> QED
    BY <1>2, <2>1, <2>2 DEF SInv, Rewrite
<1>3. ASSUME reading' # None, reading'.whole PROVE Covered(reading)'
  <2> DEFINE w == reading.whole /\ new.at # "deleted"
             k == reading.kept \intersect Links(table)
  <2>1. reading \in Reading /\ reading # None /\ reading' = [reading EXCEPT !.kept = k, !.whole = w]
    BY <1>3 DEF Rewrite
  <2>2. reading'.whole = w
    BY <2>1 DEF Reading
  <2>3. reading.whole /\ new.at # "deleted"
    BY <1>3, <2>2, Zenon
  <2> HIDE DEF w
  <2>4. reading'.page = reading.page /\ reading'.got = reading.got
        /\ reading'.shows = reading.shows /\ reading'.kept = k
    BY <2>1 DEF Reading
  <2>5. Covered(reading)
    BY <2>1, <2>3 DEF SInv
  <2>6. Existing(posts) \subseteq Existing(table)
    BY <1>1, <2>3 DEF Existing, Post
  <2>7. ASSUME NEW l \in k PROVE l[2] \in reading.shows \/ Above(l[1])' >= reading.page - 1
    <3> DEFINE now == {q \in Existing(table) : q > l[1]}
    <3>1. l[2] \in reading.shows \/ Above(l[1]) >= reading.page - 1
      BY <2>5, <2>7 DEF Covered
    <3>2. IsFiniteSet(Posts) /\ now \subseteq Posts /\ Later(l[1]) \subseteq now
      <4>1. IsFiniteSet(Posts)
        BY MediaConstants, FS_Interval DEF Posts
      <4>2. now \subseteq Posts
        BY DEF Existing
      <4>3. Later(l[1]) \subseteq now
        BY <2>6 DEF Later
      <4> QED
        BY <4>1, <4>2, <4>3
    <3>3. Above(l[1]) <= Cardinality(now) /\ Cardinality(now) \in Nat /\ Above(l[1]) \in Nat
      BY <3>2, PostsAreFinite, FS_Subset, FS_CardinalityType DEF Above
    <3>4. Above(l[1])' = Cardinality(now)
      BY <1>1 DEF Above, Later
    <3> QED
      BY <2>5, <3>1, <3>3, <3>4 DEF Covered
  <2>8. k \subseteq Links(posts')
    BY <1>1
  <2> HIDE DEF k
  <2> QED
    BY <2>4, <2>5, <2>7, <2>8 DEF Covered
<1> QED
  BY <1>2, <1>3 DEF SInv

LEMMA SeenStep == TInv /\ SInv /\ [Next]_vars => SInv'
<1> SUFFICES ASSUME TInv, SInv, [Next]_vars PROVE SInv'
  OBVIOUS
<1> USE DEF TInv, TypedTab
<1>1. CASE UNCHANGED <<posts, reading, seen>>
  BY <1>1 DEF SInv, Covered, Links, Above, Later
<1>2. ASSUME NEW p \in Posts, DeletePost(p) PROVE SInv'
  <2>1. [at |-> "deleted", shows |-> {}] \in Post
    BY DEF Post
  <2> QED
    BY <1>2, <2>1, RewriteKeepsCovered DEF DeletePost
<1>3. ASSUME NEW p \in Posts, NEW at \in {"hidden", "public"}, NEW shows \in SUBSET Media,
             WritePost(p, at, shows)
      PROVE  SInv'
  <2>1. [at |-> at, shows |-> shows] \in Post
    BY DEF Post
  <2> QED
    BY <1>3, <2>1, RewriteKeepsCovered DEF WritePost
<1>4. CASE FetchAllPosts
  <2>1. /\ reading'.page = 1 /\ reading'.got = 0
        /\ reading'.kept = Links(posts) /\ UNCHANGED <<posts, seen>>
    BY <1>4 DEF FetchAllPosts
  <2>2. \A p : Above(p) \in Nat /\ Above(p)' = Above(p)
    BY <2>1, PostsAreFinite DEF Above, Later
  <2>3. Covered(reading)'
    BY <2>1, <2>2 DEF Covered
  <2> QED
    BY <2>1, <2>3 DEF SInv
<1>5. CASE ReadPage
  <2> DEFINE items == OnPage(reading.page)
             got == reading.got + Cardinality(items)
             shows == reading.shows \union UNION {posts[p].shows : p \in items}
             w == reading.whole /\ token = "valid"
  <2>0. reading # None /\ reading \in Reading /\ UNCHANGED posts
    BY <1>5 DEF ReadPage
  <2>1. \/ /\ items = {} \/ AllGot(got, Cardinality(Visible))
           /\ seen' = [shows |-> shows, whole |-> w, kept |-> reading.kept]
           /\ reading' = None
        \/ /\ reading' = [page |-> reading.page + 1, got |-> got, shows |-> shows,
                          whole |-> w, kept |-> reading.kept]
           /\ UNCHANGED seen
    BY <1>5 DEF ReadPage
  <2>2. ASSUME w
        PROVE  /\ \A l \in reading.kept : l[2] \in shows \/ Above(l[1]) >= reading.page
               /\ items = {} \/ AllGot(got, Cardinality(Visible))
                    => \A l \in reading.kept : l[2] \in shows
    BY <1>5, <2>2, PageIsRead
  <2>3. ASSUME w
        PROVE  Covered(reading) /\ Cardinality(items) <= 1 /\ Cardinality(items) \in Nat
               /\ reading.page \in Nat \ {0} /\ reading.got \in Nat
    <3>1. Covered(reading)
      BY <2>0, <2>3 DEF SInv
    <3> QED
      BY <2>0, <2>3, <3>1, PageHasOne, PagesAreFinite DEF Covered, Reading
  <2>4. \A p : Above(p)' = Above(p)
    BY <2>0 DEF Above, Later
  <2> HIDE DEF items, shows, w
  <2>5. CASE /\ items = {} \/ AllGot(got, Cardinality(Visible))
             /\ seen' = [shows |-> shows, whole |-> w, kept |-> reading.kept]
             /\ reading' = None
    BY <2>2, <2>5 DEF SInv
  <2>6. CASE /\ reading' = [page |-> reading.page + 1, got |-> got, shows |-> shows,
                            whole |-> w, kept |-> reading.kept]
             /\ UNCHANGED seen
    <3>1. reading'.page = reading.page + 1 /\ reading'.got = got /\ reading'.shows = shows
          /\ reading'.whole = w /\ reading'.kept = reading.kept
      BY <2>6
    <3>2. ASSUME w PROVE Covered(reading)'
      <4>1. got <= reading.page /\ reading.page + 1 \in Nat \ {0} /\ reading.page + 1 - 1 = reading.page
        BY <2>3, <3>2 DEF Covered
      <4>2. reading.kept \subseteq Links(posts')
        BY <2>0, <2>3, <3>2 DEF Covered
      <4> HIDE DEF got
      <4>3. reading'.page - 1 = reading.page
        BY <2>3, <3>1, <3>2
      <4>4. ASSUME NEW l \in reading'.kept
            PROVE  l[2] \in reading'.shows \/ Above(l[1])' >= reading'.page - 1
        BY <2>2, <2>4, <3>1, <3>2, <4>3
      <4>5. reading'.page \in Nat \ {0} /\ reading'.got <= reading'.page - 1
        BY <3>1, <4>1, <4>3
      <4>6. reading'.kept \subseteq Links(posts')
        BY <3>1, <4>2
      <4> QED
        BY <4>4, <4>5, <4>6 DEF Covered
    <3> QED
      BY <2>6, <3>1, <3>2 DEF SInv
  <2> QED
    BY <2>1, <2>5, <2>6
<1>6. CASE ReadingFails
  BY <1>6 DEF ReadingFails, SInv
<1>7. \/ UNCHANGED <<posts, reading, seen>> \/ FetchAllPosts \/ ReadPage \/ ReadingFails
      \/ \E p \in Posts : \/ DeletePost(p)
                          \/ \E at \in {"hidden", "public"}, shows \in SUBSET Media :
                               WritePost(p, at, shows)
  BY DEF Next, Save, Insert, FindForDelete, Unlink, DeleteRow, DeleteOrphan, AuthorDeleted,
         SelectFiles, UnlinkNext, DeleteRows, AckDeletion, AckLost, LoopEnds, CrashMedia, ListMedia,
         DeleteAllOrphans, TokenExpires, SignInAgain, tab, vars
<1> QED
  BY <1>1, <1>2, <1>3, <1>4, <1>5, <1>6, <1>7

(* The sweep of orphans spares what one and the same post has shown ever   *)
(* since its posts were asked for, if they were read as an admin and none  *)
(* was deleted meanwhile; however many pages, and whatever is written.     *)
THEOREM SweepSpares == Spec => SweepSparesShown
<1>1. TInv /\ SInv /\ [Next]_vars =>
        [sweep = NoSweep /\ seen # None /\ seen.whole =>
           \A m \in sweep'.left, p \in Posts : <<p, m>> \notin seen.kept]_vars
  <2> SUFFICES ASSUME TInv, SInv, Next, sweep = NoSweep, seen # None, seen.whole,
                      NEW m \in sweep'.left, NEW p \in Posts, <<p, m>> \in seen.kept
               PROVE  FALSE
    OBVIOUS
  <2>1. CASE DeleteAllOrphans
    <3>1. m \notin seen.shows
      BY <2>1 DEF DeleteAllOrphans
    <3>2. <<p, m>>[2] \in seen.shows
      BY DEF SInv
    <3> QED
      BY <3>1, <3>2
  <2>2. CASE UNCHANGED sweep
    BY <2>2 DEF NoSweep
  <2>3. ASSUME NEW o \in Media, DeleteOrphan(o) PROVE FALSE
    BY <2>3 DEF DeleteOrphan, NoSweep
  <2> QED
    BY <2>1, <2>2, <2>3
       DEF Next, Save, Insert, FindForDelete, Unlink, DeleteRow, AuthorDeleted, SelectFiles,
           UnlinkNext, DeleteRows, AckDeletion, AckLost, LoopEnds, CrashMedia, ListMedia,
           DeletePost, WritePost, FetchAllPosts, ReadPage, ReadingFails, TokenExpires,
           SignInAgain, tab
<1> QED
  BY <1>1, SeenInit, SeenStep, TypeInvariant, PTL DEF Spec, SweepSparesShown
=============================================================================
