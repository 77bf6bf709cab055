----------------------------- MODULE BrowserProofs -----------------------------
(***************************************************************************)
(* Theorems about Browser, whichever keys are watched and however many     *)
(* people and faults there are: its types, that services grant what pages  *)
(* offer, that own writes show, and what ends a session.                   *)
(***************************************************************************)
EXTENDS Browser, TLAPS

-----------------------------------------------------------------------------
(* The tables of Pages.                                                    *)

(* A reader is let in where he was sent.                                   *)
LEMMA AdmittedForGood ==
  ASSUME NEW p \in Places, NEW role \in Anyone, NEW in \in BOOLEAN
  PROVE  /\ Admitted(p, role, in) \in Places
         /\ Admitted(Admitted(p, role, in), role, in) = Admitted(p, role, in)
<1> DEFINE at == Admitted(p, role, in)
<1>1. \/ p \in Guarded /\ ~in /\ at = "login"
      \/ p \in (Guarded \ {"profile"}) /\ in /\ role = "user" /\ at = "home"
      \/ p \in AdminTabs /\ in /\ role \notin {"admin", "user"} /\ at = "admin/comments"
      \/ p = "notices" /\ role = "guest" /\ at = "home"
      \/ /\ ~(p \in Guarded /\ ~in)
         /\ ~(p \in (Guarded \ {"profile"}) /\ in /\ role = "user")
         /\ ~(p \in AdminTabs /\ in /\ role \notin {"admin", "user"})
         /\ ~(p = "notices" /\ role = "guest")
         /\ at = p
  BY DEF Admitted, Guarded, AdminTabs
<1>2. Admitted("login", role, in) = "login" /\ Admitted("home", role, in) = "home"
  BY DEF Admitted, Guarded, AdminTabs
<1>3. in /\ role \notin {"admin", "user"} => Admitted("admin/comments", role, in) = "admin/comments"
  BY DEF Admitted, Guarded, AdminTabs
<1>4. {"login", "home", "admin/comments"} \subseteq Places
  BY DEF Places, AdminTabs
<1> HIDE DEF at
<1>5. at = p \/ at = "login" \/ at = "home" \/ (at = "admin/comments" /\ in /\ role \notin {"admin", "user"})
  BY <1>1
<1>6. at \in Places
  BY <1>4, <1>5
<1>7. Admitted(at, role, in) = at
  BY <1>2, <1>3, <1>5 DEF at
<1> QED
  BY <1>6, <1>7 DEF at

(* These pages are open to everybody.                                      *)
LEMMA AlwaysAdmitted ==
  ASSUME NEW p \in {"home", "post"}, NEW role, NEW in
  PROVE  p \in Places /\ Admitted(p, role, in) = p
BY DEF Admitted, Places, Guarded, AdminTabs

LEMMA KeysByEntity ==
  /\ <<"posts", "list">> \in All("posts") /\ <<"posts", "admin-media-all">> \in All("posts")
  /\ <<"users", "list">> \in All("users") /\ <<"users", "detail">> \in All("users")
  /\ \A j \in All("users") : j = <<"users", "list">> \/ j = <<"users", "detail">>
<1>1. <<"posts", "list">> \in All("posts") /\ <<"posts", "admin-media-all">> \in All("posts")
  BY DEF All, Keys
<1>2. <<"users", "list">> \in All("users") /\ <<"users", "detail">> \in All("users")
  BY DEF All, Keys
<1>3. ASSUME NEW j \in Keys, j[1] = "users"
      PROVE  j = <<"users", "list">> \/ j = <<"users", "detail">>
  BY <1>3 DEF Keys
<1> QED
  BY <1>1, <1>2, <1>3 DEF All

(* What a call changes it has invalidated, but for the list of users.      *)
LEMMA ChangedIsInvalidated ==
  ASSUME NEW what \in Calls, NEW k \in Changes(what), k \in Keys
  PROVE  k \in Invalidates(what) \/ (what = "updateUser" /\ k = <<"users", "list">>)
<1>1. CASE what \in PostCalls
  <2>1. Changes(what) \subseteq All("posts")
    BY <1>1, KeysByEntity DEF Changes, PostCalls, CommentCalls, UserCalls, MediaCalls
  <2>2. PostsInvalidated(what) = All("posts")
    BY <1>1 DEF PostsInvalidated
  <2> QED
    BY <2>1, <2>2 DEF Invalidates
<1>2. CASE what \in CommentCalls
  <2>1. Changes(what) = All("comments") /\ CommentsInvalidated(what) = All("comments")
    BY <1>2 DEF Changes, CommentCalls, UserCalls, MediaCalls, CommentsInvalidated
  <2> QED
    BY <2>1 DEF Invalidates
<1>3. CASE what \in UserCalls
  <2>1. Changes(what) = All("users")
    BY <1>3 DEF Changes, UserCalls, CommentCalls, MediaCalls
  <2>2. CASE what = "updateUser"
    BY <2>1, <2>2, KeysByEntity DEF Invalidates, UsersInvalidated
  <2>3. CASE what # "updateUser"
    BY <1>3, <2>1, <2>3 DEF Invalidates, UsersInvalidated, UserCalls
  <2> QED
    BY <2>2, <2>3
<1>4. CASE what \in MediaCalls
  <2>1. Changes(what) = All("media") /\ MediaInvalidated(what) = All("media")
    BY <1>4 DEF Changes, MediaCalls, UserCalls, CommentCalls, MediaInvalidated
  <2> QED
    BY <2>1 DEF Invalidates
<1>5. CASE what = "markAllRead"
  <2>1. Changes(what) = All("notifications") /\ NoticesInvalidated(what) = All("notifications")
    BY <1>5 DEF Changes, MediaCalls, UserCalls, CommentCalls, NoticesInvalidated
  <2> QED
    BY <2>1 DEF Invalidates
<1>6. CASE what = "changePassword"
  BY <1>6 DEF Changes, MediaCalls, UserCalls, CommentCalls
<1> QED
  BY <1>1, <1>2, <1>3, <1>4, <1>5, <1>6 DEF Calls

(* Only a guest's reads go unanswered for want of a token.                 *)
LEMMA AnswersOfReads ==
  ASSUME NEW k, NEW role
  PROVE  /\ Answers(k, role) \subseteq {"ok", "denied", "unauthorized"}
         /\ role # Guest => "unauthorized" \notin Answers(k, role)
BY DEF Answers, Guest

-----------------------------------------------------------------------------
(* Offers and grants.                                                      *)

Excused(what, from, mine) ==
  ~mine /\ \/ what = "deleteMedia" /\ from \in {"compose", "edit"}
           \/ what = "updatePost" /\ from = "edit"

(* What a page offers to whom it lets in, is granted.                      *)
LEMMA OfferedIsGrantedTo ==
  ASSUME NEW p \in Places, NEW role \in Anyone, NEW mine \in BOOLEAN, NEW in \in BOOLEAN,
         p = Admitted(p, role, in), NEW what \in Offers(p, role, mine),
         what \in {"createPost", "createComment", "uploadMedia", "markAllRead"} => mine,
         in => role # Guest
  PROVE  /\ Grants(what, role, mine) \/ Excused(what, p, mine)
         /\ what = "updateUser" => role # Guest
<1>0. role \in {"user", "writer", "admin", "guest"}
  BY DEF Anyone, Roles, Guest
\* Who gets to see these pages.
<1>1. ASSUME p \in {"compose", "edit"}, in PROVE role # "user"
  <2>1. Admitted(p, "user", in) = "home"
    BY <1>1 DEF Admitted, Guarded, AdminTabs
  <2> QED
    BY <1>1, <2>1
<1>2. ASSUME p \in Guarded PROVE in
  <2>1. Admitted(p, role, FALSE) = "login" /\ p # "login"
    BY <1>2 DEF Admitted, Guarded, AdminTabs
  <2> QED
    BY <2>1
<1>3. ASSUME p \in AdminTabs, p # "admin/comments" PROVE role = "admin"
  <2>1. in
    BY <1>2, <1>3 DEF Guarded
  <2>2. role = "user" => Admitted(p, role, in) = "home"
    BY <1>3, <2>1 DEF Admitted, Guarded, AdminTabs
  <2>3. role \in {"writer", "guest"} => Admitted(p, role, in) = "admin/comments"
    BY <1>3, <2>1 DEF Admitted, Guarded, AdminTabs
  <2> QED
    BY <1>0, <1>3, <2>2, <2>3 DEF AdminTabs
\* What is granted.
<1>4. /\ what \in PostCalls /\ PostGrants(what, role, mine) => Grants(what, role, mine)
      /\ what \in CommentCalls /\ CommentGrants(what, role, mine) => Grants(what, role, mine)
      /\ what \in UserCalls /\ UserGrants(what, role, mine) => Grants(what, role, mine)
      /\ what \in MediaCalls /\ MediaGrants(what, role, mine) => Grants(what, role, mine)
      /\ what \in {"markAllRead", "changePassword"} => Grants(what, role, mine)
  BY DEF Grants, PostCalls, CommentCalls, UserCalls, MediaCalls
<1> USE <1>0, <1>4 DEF PostCalls, CommentCalls, UserCalls, MediaCalls, PostGrants, CommentGrants,
                     UserGrants, MediaGrants
<1>5. CASE p = "post"
  BY <1>5 DEF Offers, PostOffers, CommentOffers
<1>6. CASE p = "profile"
  <2>1. what \in {"updateUser", "changePassword"} /\ mine
    BY <1>6 DEF Offers, ProfileOffers
  <2>2. in
    BY <1>2, <1>6 DEF Guarded
  <2> QED
    BY <2>1, <2>2
<1>7. CASE p \in {"compose", "edit"}
  <2>1. in /\ role \in {"writer", "admin"}
    BY <1>1, <1>2, <1>7 DEF Guarded, Guest
  <2>2. \/ p = "compose" /\ what \in {"createPost", "uploadMedia", "deleteMedia"}
        \/ p = "edit" /\ what \in {"updatePost", "uploadMedia", "deleteMedia"}
    BY <1>7 DEF Offers, ComposeOffers, EditOffers, MediaGridOffers
  <2> QED
    BY <2>1, <2>2 DEF Excused
<1>8. CASE p \in AdminTabs \ {"admin/comments"}
  <2>1. role = "admin"
    BY <1>3, <1>8
  <2>2. what \in {"deleteUser", "updateUserRole", "updatePost", "deletePost", "deleteMedia"}
    BY <1>8 DEF Offers, UsersTabOffers, RoleSwitcherOffers, PostsTabOffers, MediaTabOffers, AdminTabs
  <2> QED
    BY <2>1, <2>2
<1>9. CASE p = "admin/comments"
  BY <1>9 DEF Offers, CommentsTabOffers
<1>10. CASE p = "notices"
  BY <1>10 DEF Offers, NoticesOffers
<1>11. Offers(p, role, mine) = {} \/ p \in {"post", "profile", "compose", "edit", "notices"} \union AdminTabs
  BY DEF Offers, AdminTabs
<1> QED
  BY <1>5, <1>6, <1>7, <1>8, <1>9, <1>10, <1>11

-----------------------------------------------------------------------------
(* Types.                                                                  *)

LEMMA AdmitPlace ==
  ASSUME NEW p \in Places, NEW a \in [user : Anyone, token : Anyone]
  PROVE  Admit(p, a) \in Places /\ Admit(Admit(p, a), a) = Admit(p, a)
<1>1. a.user \in Anyone /\ (a.user # Guest /\ a.token # Guest) \in BOOLEAN
  OBVIOUS
<1> QED
  BY <1>1, AdmittedForGood DEF Admit

LEMMA OpenPlaces ==
  \A a : /\ Admit("home", a) = "home" /\ "home" \in Places
        /\ Admit("post", a) = "post" /\ "post" \in Places
BY AlwaysAdmitted DEF Admit

LEMMA SignedOutIsSession == SignedOut \in [user : Anyone, token : Anyone]
BY DEF SignedOut, Anyone

LEMMA RequestIsFetch == \A t \in Anyone : Request(t) \in Fetch
BY DEF Request, Fetch

LEMMA MountedIsFetch ==
  ASSUME TypeOK, NEW keys, NEW t \in Anyone
  PROVE  Mounted(keys, t) \in Fetch \union {None}
BY RequestIsFetch DEF Mounted, TypeOK

THEOREM TypesInit == Init => TypeOK
<1> SUFFICES ASSUME Init PROVE TypeOK
  OBVIOUS
<1>1. place \in Places /\ place = Admit(place, auth)
  BY OpenPlaces DEF Init
<1>2. auth \in [user : Anyone, token : Anyone] /\ key \in Keys
  BY BrowserConstants, SignedOutIsSession DEF Init
<1> QED
  BY <1>1, <1>2 DEF Init, TypeOK

THEOREM TypesStep == TypeOK /\ [Next]_vars => TypeOK'
<1> SUFFICES ASSUME TypeOK, [Next]_vars PROVE TypeOK'
  OBVIOUS
<1> USE BrowserConstants
<1>0. /\ Fault => faults' \in Nat
      /\ Guest \in Anyone /\ Roles \subseteq Anyone
      /\ auth.user \in Anyone /\ auth.token \in Anyone
      /\ fetch # None => fetch \in Fetch /\ fetch.of \in Anyone
      /\ entry # None => entry \in Entry
      /\ call # None => call \in Mutation
  BY DEF TypeOK, Fault, Anyone, Fetch
\* What does not move is typed, and what moves is shown to be.
<1>1. ASSUME UNCHANGED <<place, auth>>, UNCHANGED <<key, opening, issued, dead>>,
             entry' \in Entry \union {None}, fetch' \in Fetch \union {None},
             call' \in Mutation \union {None}, faults' \in Nat
      PROVE  TypeOK'
  BY <1>1 DEF TypeOK, Admit
<1>2. ASSUME auth' \in [user : Anyone, token : Anyone],
             place' \in Places, place' = Admit(place', auth'),
             opening' \in BOOLEAN, UNCHANGED <<key, issued, dead>>,
             entry' \in Entry \union {None}, fetch' \in Fetch \union {None},
             call' \in Mutation \union {None}, faults' \in Nat
      PROVE  TypeOK'
  BY <1>2 DEF TypeOK, Admit
<1>3. ASSUME Expire
      PROVE  /\ auth' \in [user : Anyone, token : Anyone]
             /\ place' \in Places /\ place' = Admit(place', auth')
  BY <1>3, SignedOutIsSession, AdmitPlace DEF Expire, TypeOK
<1>4. ASSUME LeaveEdit, UNCHANGED auth
      PROVE  place' \in Places /\ place' = Admit(place', auth')
  <2>1. place' = "home" \/ place' = place
    BY <1>4 DEF LeaveEdit
  <2>2. place = Admit(place, auth) /\ place \in Places /\ Admit("home", auth) = "home"
        /\ "home" \in Places
    BY OpenPlaces DEF TypeOK
  <2> QED
    BY <1>4, <2>1, <2>2
<1>5. ASSUME NEW again \in BOOLEAN, Fail(again), fetch # None, UNCHANGED auth
      PROVE  fetch' \in Fetch \union {None} /\ place' \in Places /\ place' = Admit(place', auth')
  <2>1. fetch' \in Fetch \union {None}
    BY <1>0, <1>5, RequestIsFetch DEF Fail, Fetch
  <2>2. LeaveEdit \/ UNCHANGED place
    BY <1>5 DEF Fail
  <2> QED
    BY <1>4, <1>5, <2>1, <2>2 DEF TypeOK, Admit
<1>6. CASE Serve
  <2>1. PICK a \in {"ok", "denied", "unauthorized"} :
          fetch' = [fetch EXCEPT !.at = IF a = "denied" /\ @ = "resent" THEN "redenied" ELSE a]
    BY <1>6, AnswersOfReads DEF Serve
  <2>2. fetch' \in Fetch
    BY <1>0, <1>6, <2>1 DEF Serve, Fetch
  <2> QED
    BY <1>1, <1>6, <2>2 DEF Serve, TypeOK
<1>7. CASE Deliver
  <2>1. CASE fetch.at = "ok" /\ fetch' = None
             /\ entry' = [of |-> IF key \in NeedToken THEN fetch.of ELSE Guest,
                          stale |-> FALSE, lacks |-> fetch.lacks]
             /\ UNCHANGED <<place, auth>>
    <3>1. entry' \in Entry
      BY <1>0, <1>7, <2>1 DEF Deliver, Entry, Fetch
    <3> QED
      BY <1>1, <1>7, <2>1, <3>1 DEF Deliver, TypeOK
  <2>2. CASE Fail(fetch.at = "redenied") /\ UNCHANGED <<auth, entry>>
    <3>1. (fetch.at = "redenied") \in BOOLEAN
      OBVIOUS
    <3>2. fetch' \in Fetch \union {None} /\ place' \in Places /\ place' = Admit(place', auth')
      BY <1>5, <1>7, <2>2, <3>1 DEF Deliver
    <3> QED
      BY <1>2, <1>7, <2>2, <3>2 DEF Deliver, TypeOK
  <2>3. CASE fetch' = None /\ UNCHANGED entry /\ (Expire \/ (LeaveEdit /\ UNCHANGED auth))
    <3>1. auth' \in [user : Anyone, token : Anyone] /\ place' \in Places
          /\ place' = Admit(place', auth')
      BY <1>3, <1>4, <2>3 DEF TypeOK
    <3> QED
      BY <1>2, <1>7, <2>3, <3>1 DEF Deliver, TypeOK
  <2> QED
    BY <1>7, <2>1, <2>2, <2>3 DEF Deliver
<1>8. CASE FetchLost
  <2>1. (fetch.at = "resent") \in BOOLEAN
    OBVIOUS
  <2>2. fetch' \in Fetch \union {None} /\ place' \in Places /\ place' = Admit(place', auth')
    BY <1>5, <1>8, <2>1 DEF FetchLost
  <2> QED
    BY <1>0, <1>2, <1>8, <2>2 DEF FetchLost, TypeOK
<1>9. CASE Poll \/ Prefetch
  <2>1. fetch' \in Fetch
    BY <1>0, <1>9, RequestIsFetch DEF Poll, Prefetch
  <2> QED
    BY <1>1, <1>9, <2>1 DEF Poll, Prefetch, TypeOK
<1>10. CASE Age \/ Collect
  <2>1. entry' \in Entry \union {None}
    BY <1>0, <1>10 DEF Age, Collect, Entry
  <2> QED
    BY <1>1, <1>10, <2>1 DEF Age, Collect, TypeOK
<1>11. ASSUME NEW p \in Places, Go(p) PROVE TypeOK'
  <2>1. place' \in Places /\ place' = Admit(place', auth')
    BY <1>11, AdmitPlace DEF Go, TypeOK
  <2>2. fetch' \in Fetch \union {None}
    BY <1>0, <1>11, MountedIsFetch DEF Go
  <2> QED
    BY <1>2, <1>11, <2>1, <2>2 DEF Go, TypeOK
<1>12. CASE OpenPost
  <2>1. fetch' \in Fetch \union {None}
    BY <1>0, <1>12, MountedIsFetch DEF OpenPost, Opened
  <2> QED
    BY <1>2, <1>12, <2>1 DEF OpenPost, Opened, TypeOK, Admit
<1>13. CASE ShowPost
  <2>1. fetch' \in Fetch \union {None}
    BY <1>0, <1>13, MountedIsFetch DEF ShowPost
  <2> QED
    BY <1>2, <1>13, <2>1, OpenPlaces DEF ShowPost, TypeOK
<1>14. ASSUME NEW p \in Roles, SignIn(p) PROVE TypeOK'
  <2>1. fetch' \in Fetch \union {None}
    BY <1>0, <1>14, MountedIsFetch DEF SignIn
  <2>2. place' \in Places /\ place' = Admit(place', auth')
    BY <1>14, OpenPlaces DEF SignIn
  <2>3. auth' \in [user : Anyone, token : Anyone]
    BY <1>0, <1>14 DEF SignIn
  <2> QED
    BY <1>14, <2>1, <2>2, <2>3 DEF SignIn, TypeOK, Admit
<1>15. CASE Logout
  <2>1. fetch' \in Fetch \union {None}
    BY <1>0, <1>15, MountedIsFetch DEF Logout
  <2>2. place' \in Places /\ place' = Admit(place', auth')
    BY <1>15, OpenPlaces DEF Logout
  <2> QED
    BY <1>2, <1>15, <2>1, <2>2, SignedOutIsSession DEF Logout, TypeOK
<1>16. ASSUME NEW p \in Roles, ExpireToken(p) PROVE TypeOK'
  BY <1>0, <1>16 DEF ExpireToken, TypeOK, Admit
<1>17. CASE Reload
  <2>1. auth' \in [user : Anyone, token : Anyone]
    BY <1>17, SignedOutIsSession DEF Reload, TypeOK
  <2>2. place' \in Places /\ place' = Admit(place', auth')
    BY <1>17, <2>1, AdmitPlace DEF Reload, TypeOK
  <2>3. fetch' \in Fetch \union {None}
    BY <1>17, <2>1, RequestIsFetch DEF Reload
  <2> QED
    BY <1>0, <1>2, <1>17, <2>1, <2>2, <2>3 DEF Reload, TypeOK
<1>18. ASSUME NEW what \in Calls, NEW mine \in BOOLEAN, Send(what, mine) PROVE TypeOK'
  <2>1. call' \in Mutation
    BY <1>0, <1>18 DEF Send, Mutation, TypeOK
  <2> QED
    BY <1>1, <1>18, <2>1 DEF Send, TypeOK
<1>19. CASE Commit
  <2>1. call' \in Mutation
    BY <1>0, <1>19 DEF Commit, Mutation
  <2>2. \A e \in Entry : Lacking(call.what, e) \in Entry
    BY <1>0, <1>19 DEF Commit, Lacking, Entry, Mutation
  <2>3. \A f \in Fetch : Lacking(call.what, f) \in Fetch
    BY <1>0, <1>19 DEF Commit, Lacking, Fetch, Mutation
  <2>4. Lacking(call.what, None) = None
    BY DEF Lacking
  <2>5. /\ entry' = entry \/ entry' = Lacking(call.what, entry)
        /\ fetch' = fetch \/ fetch' = Lacking(call.what, fetch)
    BY <1>19 DEF Commit
  <2>6. entry' \in Entry \union {None} /\ fetch' \in Fetch \union {None}
    BY <2>2, <2>3, <2>4, <2>5 DEF TypeOK
  <2> QED
    BY <1>1, <1>19, <2>1, <2>6 DEF Commit, TypeOK
<1>20. CASE Answer
  <2>0. call \in Mutation /\ call' = None /\ faults' \in Nat /\ UNCHANGED <<key, issued, dead>>
    BY <1>0, <1>20 DEF Answer, TypeOK
  <2>1. ASSUME Invalidated PROVE entry' \in Entry \union {None} /\ fetch' \in Fetch \union {None}
    <3>1. entry' \in Entry \union {None}
      BY <1>0, <2>1 DEF Invalidated, Entry
    <3>2. \A f \in Fetch : [f EXCEPT !.lacks = None] \in Fetch
      BY DEF Fetch
    <3> QED
      BY <1>0, <2>1, <3>1, <3>2, RequestIsFetch DEF Invalidated
  <2>2. entry' \in Entry \union {None} /\ fetch' \in Fetch \union {None}
    BY <1>20, <2>1 DEF Answer, TypeOK
  <2>3. ASSUME Continue
        PROVE  /\ auth' \in [user : Anyone, token : Anyone]
               /\ place' \in Places /\ place' = Admit(place', auth') /\ opening' \in BOOLEAN
    <3>1. ASSUME AfterSaving
          PROVE  /\ auth' \in [user : Anyone, token : Anyone]
                 /\ place' \in Places /\ place' = Admit(place', auth') /\ opening' \in BOOLEAN
      <4>1. auth' \in [user : Anyone, token : Anyone]
        BY <2>0, <3>1 DEF AfterSaving, TypeOK, Mutation
      <4> QED
        BY <3>1, <4>1, AdmitPlace DEF AfterSaving, TypeOK
    <3>2. ASSUME AfterDeleting
          PROVE  /\ auth' \in [user : Anyone, token : Anyone]
                 /\ place' \in Places /\ place' = Admit(place', auth') /\ opening' \in BOOLEAN
      BY <3>2, OpenPlaces DEF AfterDeleting, TypeOK
    <3>3. ASSUME UNCHANGED <<place, auth>>, opening' \in BOOLEAN
          PROVE  /\ auth' \in [user : Anyone, token : Anyone]
                 /\ place' \in Places /\ place' = Admit(place', auth') /\ opening' \in BOOLEAN
      BY <3>3 DEF TypeOK, Admit
    <3> QED
      BY <2>3, <3>1, <3>2, <3>3 DEF Continue, AfterPublishing, AfterEditing, TypeOK
  <2>4. /\ auth' \in [user : Anyone, token : Anyone]
        /\ place' \in Places /\ place' = Admit(place', auth') /\ opening' \in BOOLEAN
    BY <1>3, <1>20, <2>3 DEF Answer, TypeOK, Admit
  <2> QED
    BY <1>2, <2>0, <2>2, <2>4
<1>21. CASE CallLost
  <2>1. entry' \in Entry \union {None} /\ fetch' \in Fetch \union {None}
    BY <1>0, <1>21 DEF CallLost, Entry, Fetch
  <2> QED
    BY <1>0, <1>1, <1>21, <2>1 DEF CallLost
<1>22. CASE UNCHANGED vars
  BY <1>1, <1>22 DEF vars, TypeOK
<1> QED
  BY <1>6, <1>7, <1>8, <1>9, <1>10, <1>11, <1>12, <1>13, <1>14, <1>15, <1>16, <1>17, <1>18, <1>19,
     <1>20, <1>21, <1>22 DEF Next

(* Browser's state is typed, and the tab shows no page that its session    *)
(* would be kept from.                                                     *)
THEOREM TypesCorrect == Spec => []TypeOK
BY TypesInit, TypesStep, PTL DEF Spec

-----------------------------------------------------------------------------
(* What requests go back to.  A token has a user; an answer of 401 is to a *)
(* guest, an expired token or a change of password; and a call was offered *)
(* by the page it was made from.                                           *)

From(c) == [user |-> c.user, token |-> c.of]

CallSound(c) ==
  /\ c.what = "updateUser" => c.user # Guest
  /\ c.at = "sent" =>
       /\ c.from = Admit(c.from, From(c)) /\ c.what \in Offers(c.from, c.user, c.mine)
       /\ c.what \in {"createPost", "createComment", "uploadMedia", "markAllRead"} => c.mine
  /\ c.at = "refused" => c.of # c.user \/ Excused(c.what, c.from, c.mine)
  /\ c.at = "unauthorized" => c.of \in dead \union {Guest} \/ c.what = "changePassword"

Sound ==
  /\ auth.token # Guest => auth.user # Guest
  /\ fetch # None /\ fetch.at = "unauthorized" => fetch.of \in dead \union {Guest}
  /\ call # None => CallSound(call)

LEMMA SoundInit == Init => Sound
BY DEF Init, Sound, SignedOut

(* A call that a page offers is sound, and its user is known where it      *)
(* says so.                                                                *)
LEMMA OfferIsSound ==
  ASSUME NEW c \in Mutation, c.from = Admit(c.from, From(c)),
         c.what \in Offers(c.from, c.user, c.mine),
         c.what \in {"createPost", "createComment", "uploadMedia", "markAllRead"} => c.mine
  PROVE  /\ Grants(c.what, c.user, c.mine) \/ Excused(c.what, c.from, c.mine)
         /\ c.what = "updateUser" => c.user # Guest
<1> DEFINE in == c.user # Guest /\ c.of # Guest
<1>1. in \in BOOLEAN /\ (in => c.user # Guest)
  OBVIOUS
<1>2. c.from = Admitted(c.from, c.user, in)
  BY DEF Admit, From
<1>3. c.from \in Places /\ c.user \in Anyone /\ c.mine \in BOOLEAN
  BY DEF Mutation
<1> HIDE DEF in
<1> QED
  BY <1>1, <1>2, <1>3, OfferedIsGrantedTo

LEMMA SoundStep == TypeOK /\ Sound /\ [Next]_vars => Sound'
<1> SUFFICES ASSUME TypeOK, Sound, [Next]_vars PROVE Sound'
  OBVIOUS
<1>0. /\ fetch # None => fetch \in Fetch
      /\ call # None => call \in Mutation
      /\ Guest \notin Roles
  BY DEF TypeOK, Guest, Roles
\* A session that begins or ends.
<1>1. ASSUME auth'.token # Guest => auth'.user # Guest, UNCHANGED <<fetch, call, dead>> PROVE Sound'
  BY <1>1 DEF Sound, CallSound
\* A request that begins, or none.
<1>2. ASSUME auth'.token # Guest => auth'.user # Guest, UNCHANGED <<call, dead>>,
             fetch' = fetch \/ fetch' = None \/ fetch'.at # "unauthorized"
      PROVE  Sound'
  BY <1>2 DEF Sound, CallSound
<1>3. \A keys, t : Mounted(keys, t) = fetch \/ Mounted(keys, t).at # "unauthorized"
  BY DEF Mounted, Request
<1>4. CASE Serve
  <2>1. fetch # None /\ fetch \in Fetch /\ UNCHANGED <<auth, call, dead>>
    BY <1>0, <1>4 DEF Serve
  <2>2. ASSUME fetch.of \notin dead \union {Guest}
        PROVE  \E a \in {"ok", "denied"} :
                 fetch' = [fetch EXCEPT !.at = IF a = "denied" /\ @ = "resent" THEN "redenied" ELSE a]
    BY <1>4, <2>2, AnswersOfReads DEF Serve
  <2>3. fetch'.of = fetch.of
    BY <1>4, <2>1 DEF Serve, Fetch
  <2>4. fetch.of \notin dead \union {Guest} => fetch'.at # "unauthorized"
    BY <2>1, <2>2 DEF Fetch
  <2> QED
    BY <2>1, <2>3, <2>4 DEF Sound, CallSound
<1>5. CASE Deliver
  <2>1. auth' = auth \/ auth' = SignedOut
    BY <1>5 DEF Deliver, Expire
  <2>2. fetch' = None \/ fetch'.at = "resent"
    BY <1>5 DEF Deliver, Fail, Request
  <2> QED
    BY <1>2, <1>5, <2>1, <2>2 DEF Deliver, SignedOut, Sound
<1>6. CASE FetchLost
  <2>1. fetch' = None \/ fetch'.at = "resent"
    BY <1>6 DEF FetchLost, Fail, Request
  <2> QED
    BY <1>2, <1>6, <2>1 DEF FetchLost, Sound
<1>7. CASE Poll \/ Prefetch
  BY <1>2, <1>7 DEF Poll, Prefetch, Request, Sound
<1>8. CASE Age \/ Collect
  BY <1>1, <1>8 DEF Age, Collect, Sound
<1>9. ASSUME NEW p \in Places, Go(p) PROVE Sound'
  BY <1>2, <1>3, <1>9 DEF Go, Sound
<1>10. CASE OpenPost \/ ShowPost
  BY <1>2, <1>3, <1>10 DEF OpenPost, Opened, ShowPost, Sound
<1>11. ASSUME NEW p \in Roles, SignIn(p) PROVE Sound'
  BY <1>0, <1>2, <1>3, <1>11 DEF SignIn
<1>12. CASE Logout
  BY <1>2, <1>3, <1>12 DEF Logout, SignedOut
<1>13. ASSUME NEW p \in Roles, ExpireToken(p) PROVE Sound'
  BY <1>13 DEF ExpireToken, Sound, CallSound
<1>14. CASE Reload
  <2>1. auth'.token # Guest => auth'.user # Guest
    BY <1>14 DEF Reload, SignedOut, Sound
  <2> QED
    BY <1>14, <2>1 DEF Reload, Request, Sound
<1>15. ASSUME NEW what \in Calls, NEW mine \in BOOLEAN, Send(what, mine) PROVE Sound'
  <2>1. auth = [user |-> auth.user, token |-> auth.token] /\ place \in Places
        /\ auth.user \in Anyone /\ auth.token \in Anyone
    BY DEF TypeOK
  <2> DEFINE c == [at |-> "sent", what |-> what, from |-> place, of |-> auth.token,
                   user |-> auth.user, mine |-> mine]
  <2>2. c \in Mutation
    BY <2>1 DEF Mutation
  <2>3. c.from = Admit(c.from, From(c)) /\ c.what \in Offers(c.from, c.user, c.mine)
    BY <1>15, <2>1 DEF Send, From, TypeOK
  <2>4. c.what \in {"createPost", "createComment", "uploadMedia", "markAllRead"} => c.mine
    BY <1>15 DEF Send
  <2>5. c.at = "sent" /\ call' = c /\ UNCHANGED <<auth, fetch, dead>>
    BY <1>15 DEF Send
  <2> HIDE DEF c
  <2>6. c.what = "updateUser" => c.user # Guest
    BY <2>2, <2>3, <2>4, OfferIsSound
  <2> QED
    BY <2>3, <2>4, <2>5, <2>6 DEF Sound, CallSound
<1>16. CASE Commit
  <2>1. call # None /\ call \in Mutation /\ call.at = "sent" /\ CallSound(call)
        /\ UNCHANGED <<auth, dead>>
    BY <1>0, <1>16 DEF Commit, Sound
  <2>2. \A f \in Fetch : Lacking(call.what, f).at = f.at /\ Lacking(call.what, f).of = f.of
    BY DEF Lacking, Fetch
  <2>3. fetch' = fetch \/ fetch' = Lacking(call.what, fetch)
    BY <1>16 DEF Commit
  <2>4. fetch' # None /\ fetch'.at = "unauthorized" => fetch'.of \in dead \union {Guest}
    BY <1>0, <2>2, <2>3 DEF Sound, Lacking
  <2>5. CASE /\ call.of \in dead \union {Guest} \/ call.what = "changePassword"
             /\ call' = [call EXCEPT !.at = "unauthorized"]
    <3>1. CallSound(call')
      BY <2>1, <2>5 DEF CallSound, Mutation
    <3> QED
      BY <2>1, <2>4, <3>1 DEF Sound, CallSound
  <2>6. CASE call' = [call EXCEPT !.at = "done", !.of = Guest, !.mine = FALSE,
                                  !.user = IF call.what = "updateUser" THEN @ ELSE Guest]
    <3>1. CallSound(call')
      BY <2>1, <2>6 DEF CallSound, Mutation
    <3> QED
      BY <2>1, <2>4, <3>1 DEF Sound, CallSound
  <2>7. ASSUME call' = [call EXCEPT !.at = "refused"],
               NEW mine \in IF call.of = call.user THEN {call.mine} ELSE BOOLEAN,
               ~Grants(call.what, call.of, mine)
        PROVE  Sound'
    <3>1. call.of = call.user => Excused(call.what, call.from, call.mine)
      BY <2>1, <2>7, OfferIsSound DEF CallSound
    <3>2. CallSound(call')
      BY <2>1, <2>7, <3>1 DEF CallSound, Mutation, Excused
    <3> QED
      BY <2>1, <2>4, <3>2 DEF Sound, CallSound
  <2> QED
    BY <1>16, <2>5, <2>6, <2>7 DEF Commit
<1>17. CASE Answer
  <2>1. call' = None /\ dead' = dead /\ call # None /\ CallSound(call)
    BY <1>17 DEF Answer, Sound
  <2>2. auth'.token # Guest => auth'.user # Guest
    <3>1. CASE Continue
      BY <2>1, <3>1 DEF Continue, AfterSaving, AfterPublishing, AfterEditing, AfterDeleting, CallSound,
                        Sound, TypeOK
    <3>2. CASE Expire \/ UNCHANGED auth
      BY <3>2 DEF Expire, SignedOut, Sound
    <3> QED
      BY <1>17, <3>1, <3>2 DEF Answer
  <2>3. fetch' # None /\ fetch'.at = "unauthorized" => fetch'.of \in dead' \union {Guest}
    <3>1. CASE Invalidated
      BY <1>0, <2>1, <3>1 DEF Invalidated, Request, Sound, Fetch
    <3>2. CASE UNCHANGED fetch
      BY <2>1, <3>2 DEF Sound
    <3> QED
      BY <1>17, <3>1, <3>2 DEF Answer
  <2> QED
    BY <2>1, <2>2, <2>3 DEF Sound
<1>18. CASE CallLost
  <2>1. fetch' # None => fetch'.at = fetch.at /\ fetch'.of = fetch.of /\ fetch # None
    BY <1>0, <1>18 DEF CallLost, Fetch
  <2> QED
    BY <1>18, <2>1 DEF CallLost, Sound
<1>19. CASE UNCHANGED vars
  BY <1>1, <1>19 DEF vars, Sound
<1> QED
  BY <1>4, <1>5, <1>6, <1>7, <1>8, <1>9, <1>10, <1>11, <1>12, <1>13, <1>14, <1>15, <1>16, <1>17,
     <1>18, <1>19 DEF Next

LEMMA SoundHolds == Spec => [](TypeOK /\ Sound)
BY TypesInit, TypesStep, SoundInit, SoundStep, PTL DEF Spec

(* No service refuses what a page offered, whoever signs in and out        *)
(* meanwhile, but for the mixed session and the two pages the property     *)
(* names.                                                                  *)
THEOREM OffersAreGranted == Spec => []OfferedIsGranted
<1>1. TypeOK /\ Sound => OfferedIsGranted
  BY DEF Sound, CallSound, OfferedIsGranted, Excused
<1> QED
  BY <1>1, SoundHolds, PTL

-----------------------------------------------------------------------------
(* What ends a session.                                                    *)

LEMMA EndsStep ==
  ASSUME TypeOK, Sound, Next, auth.token # Guest, auth'.token = Guest
  PROVE  \/ dead # {}
         \/ call # None /\ call.what = "changePassword" /\ call' = None
         \/ auth.user # Guest /\ place' = "home" /\ UNCHANGED <<entry, call>>
<1> SUFFICES ASSUME dead = {} PROVE \/ call # None /\ call.what = "changePassword" /\ call' = None
                                    \/ auth.user # Guest /\ place' = "home" /\ UNCHANGED <<entry, call>>
  OBVIOUS
<1>1. auth' # auth /\ auth.user # Guest
  BY DEF Sound
<1>2. CASE Deliver
  <2>1. fetch.at = "unauthorized" /\ fetch # None /\ fetch.of # Guest
    BY <1>1, <1>2 DEF Deliver, Expires
  <2> QED
    BY <2>1 DEF Sound
<1>3. ASSUME NEW p \in Roles, SignIn(p) PROVE FALSE
  BY <1>3 DEF SignIn, Roles, Guest
<1>4. CASE Logout
  BY <1>1, <1>4 DEF Logout
<1>5. CASE Reload
  BY <1>1, <1>5 DEF Reload
<1>6. CASE Answer
  <2>1. call # None /\ call' = None /\ CallSound(call)
    BY <1>6 DEF Answer, Sound
  <2>2. CASE Continue
    BY <1>1, <2>2 DEF Continue, AfterSaving, AfterPublishing, AfterEditing, AfterDeleting, TypeOK
  <2>3. CASE call.at = "unauthorized" /\ Expires(call.of)
    BY <2>1, <2>3 DEF CallSound, Expires
  <2> QED
    BY <1>1, <1>6, <2>2, <2>3 DEF Answer
<1>7. ASSUME NEW p \in Places, Go(p) PROVE FALSE
  BY <1>1, <1>7 DEF Go
<1>8. ASSUME NEW p \in Roles, ExpireToken(p) PROVE FALSE
  BY <1>1, <1>8 DEF ExpireToken
<1>9. ASSUME NEW what \in Calls, NEW mine \in BOOLEAN, Send(what, mine) PROVE FALSE
  BY <1>1, <1>9 DEF Send
<1>10. ~(Serve \/ FetchLost \/ Poll \/ Prefetch \/ Age \/ Collect \/ OpenPost \/ ShowPost
           \/ Commit \/ CallLost)
  BY <1>1 DEF Serve, FetchLost, Poll, Prefetch, Age, Collect, OpenPost, ShowPost, Commit, CallLost
<1> QED
  BY <1>2, <1>3, <1>4, <1>5, <1>6, <1>7, <1>8, <1>9, <1>10 DEF Next

(* A session ends by signing out, by an answer to an expired token or by a *)
(* change of password; never by a guest's 401 that comes late.             *)
THEOREM SessionsOutliveGuests == Spec => SessionOutlivesGuests
<1>1. TypeOK /\ Sound /\ [Next]_vars =>
        [auth.token # Guest /\ auth'.token = Guest =>
           \/ dead # {}
           \/ call # None /\ call.what = "changePassword" /\ call' = None
           \/ auth.user # Guest /\ place' = "home" /\ UNCHANGED <<entry, call>>]_vars
  BY EndsStep
<1> QED
  BY <1>1, SoundHolds, PTL DEF Spec, SessionOutlivesGuests

-----------------------------------------------------------------------------
(* Own writes.  What an entry that is fresh, or a request, still lacks is  *)
(* of a mutation that has committed and is not answered yet.               *)

Awaited(l) ==
  \/ l = None
  \/ l = "updateUser" /\ key = <<"users", "list">>
  \/ call # None /\ call.at = "done" /\ call.what = l /\ key \in Changes(l)

WritesAwaited ==
  /\ entry # None /\ ~entry.stale => Awaited(entry.lacks)
  /\ fetch # None => Awaited(fetch.lacks)

LEMMA WritesStep == TypeOK /\ WritesAwaited /\ [Next]_vars => WritesAwaited'
<1> SUFFICES ASSUME TypeOK, WritesAwaited, [Next]_vars PROVE WritesAwaited'
  OBVIOUS
<1>0. /\ fetch # None => fetch \in Fetch
      /\ entry # None => entry \in Entry
      /\ call # None => call \in Mutation
      /\ key \in Keys /\ Awaited(None) /\ Awaited(None)'
  BY DEF TypeOK, Awaited
\* While the mutation stays where it is.
<1>1. ASSUME UNCHANGED <<key, call>>,
             entry' = None \/ entry' = entry \/ entry'.stale
               \/ (fetch # None /\ entry'.lacks = fetch.lacks),
             fetch' = None \/ fetch' = fetch \/ fetch'.lacks = None
               \/ (fetch # None /\ fetch'.lacks = fetch.lacks)
      PROVE  WritesAwaited'
  BY <1>0, <1>1 DEF WritesAwaited, Awaited
<1>2. \A keys, t : Mounted(keys, t) = fetch \/ Mounted(keys, t).lacks = None
  BY DEF Mounted, Request
<1>3. ASSUME NEW again, Fail(again) PROVE fetch' = None \/ fetch'.lacks = None
  BY <1>3 DEF Fail, Request
<1>4. CASE Serve
  <2>1. fetch'.lacks = fetch.lacks
    BY <1>0, <1>4 DEF Serve, Fetch
  <2> QED
    BY <1>1, <1>4, <2>1 DEF Serve
<1>5. CASE Deliver
  <2>1. CASE fetch.at = "ok"
    <3>1. entry'.lacks = fetch.lacks /\ fetch' = None /\ fetch # None
      BY <1>5, <2>1 DEF Deliver
    <3> QED
      BY <1>1, <1>5, <3>1 DEF Deliver
  <2>2. CASE fetch.at # "ok"
    <3>1. (fetch' = None \/ fetch'.lacks = None) /\ entry' = entry
      BY <1>3, <1>5, <2>2 DEF Deliver
    <3> QED
      BY <1>1, <1>5, <3>1 DEF Deliver
  <2> QED
    BY <2>1, <2>2
<1>6. CASE FetchLost
  BY <1>1, <1>3, <1>6 DEF FetchLost
<1>7. CASE Poll \/ Prefetch
  BY <1>1, <1>7 DEF Poll, Prefetch, Request
<1>8. CASE Age \/ Collect
  <2>1. entry' = None \/ entry'.stale
    BY <1>0, <1>8 DEF Age, Collect, Entry
  <2> QED
    BY <1>1, <1>8, <2>1 DEF Age, Collect
<1>9. ASSUME NEW p \in Places, Go(p) PROVE WritesAwaited'
  BY <1>1, <1>2, <1>9 DEF Go
<1>10. CASE OpenPost \/ ShowPost
  BY <1>1, <1>2, <1>10 DEF OpenPost, Opened, ShowPost
<1>11. ASSUME NEW p \in Roles, SignIn(p) PROVE WritesAwaited'
  BY <1>1, <1>2, <1>11 DEF SignIn
<1>12. CASE Logout
  BY <1>1, <1>2, <1>12 DEF Logout
<1>13. ASSUME NEW p \in Roles, ExpireToken(p) PROVE WritesAwaited'
  BY <1>1, <1>13 DEF ExpireToken
<1>14. CASE Reload
  BY <1>0, <1>14 DEF Reload, Request, WritesAwaited
<1>15. ASSUME NEW what \in Calls, NEW mine \in BOOLEAN, Send(what, mine) PROVE WritesAwaited'
  BY <1>15 DEF Send, WritesAwaited, Awaited
<1>16. CASE Commit
  <2>0. call # None /\ call \in Mutation /\ call.at = "sent" /\ key' = key /\ call' # None
    <3>1. call # None /\ call \in Mutation /\ call.at = "sent" /\ key' = key
      BY <1>0, <1>16 DEF Commit
    <3>2. call' \in Mutation
      BY <1>16, <3>1 DEF Commit, Mutation, Anyone
    <3> QED
      BY <3>1, <3>2, NoneIsNothing
  \* Nothing was awaited before.
  <2>1. /\ entry # None /\ ~entry.stale =>
             entry.lacks = None \/ (entry.lacks = "updateUser" /\ key = <<"users", "list">>)
        /\ fetch # None =>
             fetch.lacks = None \/ (fetch.lacks = "updateUser" /\ key = <<"users", "list">>)
    BY <2>0 DEF WritesAwaited, Awaited
  <2>2. CASE UNCHANGED <<entry, fetch>>
    BY <2>0, <2>1, <2>2 DEF WritesAwaited, Awaited
  <2>3. CASE /\ call' = [call EXCEPT !.at = "done", !.of = Guest, !.mine = FALSE,
                                     !.user = IF call.what = "updateUser" THEN @ ELSE Guest]
             /\ entry' = Lacking(call.what, entry) /\ fetch' = Lacking(call.what, fetch)
    <3>1. call'.at = "done" /\ call'.what = call.what
      BY <2>0, <2>3 DEF Mutation
    <3>2. key \in Changes(call.what) => Awaited(call.what)'
      BY <2>0, <3>1 DEF Awaited
    <3>3. CASE key \in Changes(call.what)
      <4>1. /\ entry' # None => entry'.lacks = call.what
            /\ fetch' # None => fetch'.lacks = call.what
        <5>1. ASSUME NEW e \in Entry \union Fetch \union {None}, Lacking(call.what, e) # None
              PROVE  Lacking(call.what, e).lacks = call.what
          <6>1. e # None /\ Lacking(call.what, e) = [e EXCEPT !.lacks = call.what]
            BY <3>3, <5>1 DEF Lacking
          <6> QED
            BY <5>1, <6>1 DEF Entry, Fetch
        <5>2. entry \in Entry \union {None} /\ fetch \in Fetch \union {None}
          BY <1>0
        <5> QED
          BY <2>3, <5>1, <5>2
      <4> QED
        BY <3>1, <3>2, <3>3, <4>1 DEF WritesAwaited, Awaited
    <3>4. CASE key \notin Changes(call.what)
      <4>1. UNCHANGED <<entry, fetch>>
        BY <2>3, <3>4 DEF Lacking
      <4> QED
        BY <2>2, <4>1
    <3> QED
      BY <3>3, <3>4
  <2> QED
    BY <1>16, <2>2, <2>3 DEF Commit
<1>17. CASE Answer
  <2>0. call # None /\ call \in Mutation /\ key' = key /\ call' = None
    BY <1>0, <1>17 DEF Answer
  <2>1. CASE Invalidated
    <3>1. entry' # None => entry'.stale
      BY <1>0, <2>1 DEF Invalidated, Entry
    <3>2. fetch' # None => fetch'.lacks = None
      BY <1>0, <2>1 DEF Invalidated, Request, Fetch
    <3> QED
      BY <1>0, <3>1, <3>2 DEF WritesAwaited
  <2>2. CASE UNCHANGED <<entry, fetch>> /\ (call.at = "done" => key \notin Invalidates(call.what))
    <3>1. ASSUME NEW l, Awaited(l) PROVE Awaited(l)'
      <4>1. CASE call.at = "done" /\ call.what = l /\ key \in Changes(l)
        BY <1>0, <2>0, <2>2, <4>1, ChangedIsInvalidated DEF Awaited, Mutation
      <4> QED
        BY <2>0, <3>1, <4>1 DEF Awaited
    <3> QED
      BY <2>2, <3>1 DEF WritesAwaited
  <2> QED
    BY <1>17, <2>1, <2>2 DEF Answer
<1>18. CASE CallLost
  <2>1. /\ entry' # None => entry'.lacks = None
        /\ fetch' # None => fetch'.lacks = None
    BY <1>0, <1>18 DEF CallLost, Entry, Fetch
  <2> QED
    BY <1>0, <2>1 DEF WritesAwaited
<1>19. CASE UNCHANGED vars
  BY <1>1, <1>19 DEF vars
<1> QED
  BY <1>4, <1>5, <1>6, <1>7, <1>8, <1>9, <1>10, <1>11, <1>12, <1>13, <1>14, <1>15, <1>16, <1>17,
     <1>18, <1>19 DEF Next

(* The reader of a tab sees what was written in it, as soon as the write   *)
(* is answered and the cache says it is fresh.                             *)
THEOREM OwnWritesAreShown == Spec => []OwnWritesShow
<1>1. Init => WritesAwaited
  BY DEF Init, WritesAwaited
<1>2. TypeOK /\ WritesAwaited => OwnWritesShow
  BY DEF WritesAwaited, Awaited, OwnWritesShow
<1> QED
  BY <1>1, <1>2, TypesInit, TypesStep, WritesStep, PTL DEF Spec
=============================================================================
