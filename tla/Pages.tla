-------------------------------- MODULE Pages --------------------------------
(***************************************************************************)
(* What services/frontend/src says about its pages, as tables: which       *)
(* queries a page observes, which calls it offers to whom, which cached    *)
(* answers a call invalidates; and, from the services behind it, which     *)
(* answers a call changes and to whom it is granted.  Browser puts them in *)
(* motion.                                                                 *)
(*                                                                         *)
(* A key of the query cache stands for one set of its parameters.  A call  *)
(* is about one object; mine says whether it belongs to the caller.        *)
(***************************************************************************)

Roles == {"user", "writer", "admin"}       \* and "guest", of nobody

-----------------------------------------------------------------------------
(* The query cache: lib/queryKeys.ts and hooks/queries.                    *)

Keys == {<<"users", "list">>, <<"users", "detail">>,
         <<"posts", "list">>, <<"posts", "detail">>, <<"posts", "admin-media-all">>,
         <<"comments", "list">>, <<"comments", "post">>,
         <<"notifications", "list">>, <<"media", "list">>, <<"media", "list-all">>,
         <<"search", "query">>, <<"health", "status">>}

\* A key invalidates every key it is a prefix of.
All(entity) == {k \in Keys : k[1] = entity}

\* enabled: !!token.
NeedToken == {<<"users", "list">>, <<"posts", "admin-media-all">>, <<"comments", "list">>,
              <<"notifications", "list">>, <<"media", "list">>, <<"media", "list-all">>}

PostCalls == {"createPost", "updatePost", "deletePost"}
CommentCalls == {"createComment", "deleteComment"}
UserCalls == {"updateUser", "updateUserRole", "deleteUser"}
MediaCalls == {"uploadMedia", "deleteMedia"}
Calls == PostCalls \union CommentCalls \union UserCalls \union MediaCalls
           \union {"markAllRead", "changePassword"}

PostsInvalidatedInLists(what) ==    \* mutant: what is cached of the post itself stays
  IF what \in PostCalls THEN All("posts") \ {<<"posts", "detail">>} ELSE {}
PostsInvalidated(what) == IF what \in PostCalls THEN All("posts") ELSE {}

CommentsInvalidated(what) ==
  IF what \in CommentCalls \union {"deletePost"} THEN All("comments") ELSE {}

UsersInvalidated(what) ==
  CASE what = "updateUser" -> {<<"users", "detail">>}
    [] what \in {"updateUserRole", "deleteUser"} -> All("users")
    [] OTHER -> {}

MediaInvalidated(what) == IF what \in MediaCalls THEN All("media") ELSE {}

NoticesInvalidated(what) == IF what = "markAllRead" THEN All("notifications") ELSE {}

Invalidates(what) == PostsInvalidated(what) \union CommentsInvalidated(what)
  \union UsersInvalidated(what) \union MediaInvalidated(what) \union NoticesInvalidated(what)

\* The answers that differ once the call has committed; what events change later is not
\* among them.
Changes(what) ==
  CASE what = "createPost" -> {<<"posts", "list">>, <<"posts", "admin-media-all">>}
    [] what \in {"updatePost", "deletePost"} -> All("posts")
    [] what \in CommentCalls -> All("comments")
    [] what \in UserCalls -> All("users")
    [] what \in MediaCalls -> All("media")
    [] what = "markAllRead" -> All("notifications")
    [] OTHER -> {}

-----------------------------------------------------------------------------
(* The pages.  Shows: the queries they observe.  Offers: the calls their   *)
(* controls make, to a reader of this role, about an object of his or not. *)

AdminTabs == {"admin/users", "admin/posts", "admin/comments", "admin/media"}
Places == {"home", "post", "search", "login", "register", "compose", "edit", "profile",
           "health", "notices"} \union AdminTabs

PostCardShows == {<<"users", "detail">>}                 \* the author's name
HomeShows == {<<"posts", "list">>} \union PostCardShows

\* The cards of posts and of search results, which fetch their post when the mouse is over
\* them.
HasCards == {"home", "search"}

PostShows == {<<"posts", "detail">>, <<"comments", "post">>, <<"users", "detail">>}
PostOffersToWriters(role, mine) ==  \* mutant: of anybody's post
  IF role \in {"admin", "writer"} THEN {"deletePost"} ELSE {}
PostOffers(role, mine) ==
  (IF role = "admin" \/ (role = "writer" /\ mine) THEN {"deletePost"} ELSE {})
    \union (IF role # "guest" THEN {"createComment"} ELSE {})
CommentOffers(role, mine) ==
  IF role = "admin" \/ (role # "guest" /\ mine) THEN {"deleteComment"} ELSE {}

SearchShows == {<<"search", "query">>}

ProfileShows == {<<"users", "detail">>, <<"posts", "list">>}
ProfileOffers(mine) == IF mine THEN {"updateUser", "changePassword"} ELSE {}

MediaGridOffers == {"deleteMedia"}                       \* a button on each item
ComposeShows == {<<"media", "list">>}
ComposeOffers == {"createPost", "uploadMedia"} \union MediaGridOffers

EditShows == {<<"posts", "detail">>, <<"media", "list">>}
EditOffers == {"updatePost", "uploadMedia"} \union MediaGridOffers

UsersTabShows == {<<"users", "list">>}
RoleSwitcherOffers == {"updateUserRole"}
UsersTabOffers(mine) == IF mine THEN {} ELSE {"deleteUser"} \union RoleSwitcherOffers

PostsTabShows == {<<"posts", "list">>, <<"users", "detail">>}
PostsTabOffers == {"updatePost", "deletePost"}

PostTitleShows == {<<"posts", "detail">>}                \* PostTitleCell
CommentsTabShows == {<<"comments", "list">>, <<"posts", "list">>, <<"users", "detail">>}
                      \union PostTitleShows
CommentsTabOffers(role) ==
  {"createComment"} \union (IF role = "admin" THEN {"deleteComment"} ELSE {})

MediaTabShows == {<<"media", "list-all">>, <<"posts", "admin-media-all">>, <<"users", "detail">>}
MediaTabOffers == {"deleteMedia"}

HealthShows == {<<"health", "status">>}

\* The header is over every page: its notifications are observed always, the posts they
\* are about while their panel is open ("notices").
HeaderShows == {<<"notifications", "list">>}
NoticesShows == {<<"posts", "detail">>}                  \* NotificationPostTitle
NoticesOffers(role) == IF role # "guest" THEN {"markAllRead"} ELSE {}

Shows(p) ==
  CASE p = "home" -> HomeShows [] p = "post" -> PostShows [] p = "search" -> SearchShows
    [] p = "profile" -> ProfileShows [] p = "compose" -> ComposeShows [] p = "edit" -> EditShows
    [] p = "admin/users" -> UsersTabShows [] p = "admin/posts" -> PostsTabShows
    [] p = "admin/comments" -> CommentsTabShows [] p = "admin/media" -> MediaTabShows
    [] p = "health" -> HealthShows [] p = "notices" -> NoticesShows
    [] OTHER -> {}

Offers(p, role, mine) ==
  CASE p = "post" -> PostOffers(role, mine) \union CommentOffers(role, mine)
    [] p = "profile" -> ProfileOffers(mine) [] p = "compose" -> ComposeOffers
    [] p = "edit" -> EditOffers [] p = "admin/users" -> UsersTabOffers(mine)
    [] p = "admin/posts" -> PostsTabOffers [] p = "admin/comments" -> CommentsTabOffers(role)
    [] p = "admin/media" -> MediaTabOffers [] p = "notices" -> NoticesOffers(role)
    [] OTHER -> {}

\* The links of Nav and the header, by the route that guards what they lead to.
Guarded == {"compose", "edit", "profile"} \union AdminTabs

\* Where a reader who asks for p gets to.  AdminPage renders a tab only for its role.
Admitted(p, role, signedIn) ==
  CASE p \in Guarded /\ ~signedIn -> "login"
    [] p \in (Guarded \ {"profile"}) /\ signedIn /\ role = "user" -> "home"
    [] p \in AdminTabs /\ signedIn /\ role \notin {"admin", "user"} -> "admin/comments"
    [] p = "notices" /\ role = "guest" -> "home"
    [] OTHER -> p

-----------------------------------------------------------------------------
(* What the services grant, by the role and owner that a token names.      *)

PostGrants(what, role, mine) ==
  role = "admin" \/ (role = "writer" /\ (what = "createPost" \/ mine))

CommentGrants(what, role, mine) == what = "createComment" \/ mine \/ role = "admin"

UserGrants(what, role, mine) == role = "admin" \/ (mine /\ what # "updateUserRole")

MediaGrants(what, role, mine) == what = "uploadMedia" \/ mine \/ role = "admin"

Grants(what, role, mine) ==
  CASE what \in PostCalls -> PostGrants(what, role, mine)
    [] what \in CommentCalls -> CommentGrants(what, role, mine)
    [] what \in UserCalls -> UserGrants(what, role, mine)
    [] what \in MediaCalls -> MediaGrants(what, role, mine)
    [] OTHER -> TRUE

\* Nobody's reads that are answered at all.
Public == All("posts") \union All("comments") \union All("search") \union All("health")

\* The answers a read may get: a draft or a deleted post is not found, nor is a deleted user.
Answers(k, role) ==
  CASE role = "guest" /\ k \notin Public -> {"unauthorized"}
    [] k = <<"users", "list">> /\ role \notin {"admin", "guest"} -> {"denied"}
    [] k = <<"posts", "detail">> \/ (k = <<"users", "detail">> /\ role # "guest") -> {"ok", "denied"}
    [] OTHER -> {"ok"}
=============================================================================
