------------------------------- MODULE Browser -------------------------------
(***************************************************************************)
(* One tab of services/frontend: the session AuthContext keeps, the pages, *)
(* and react-query's cache between them and the services.                  *)
(*                                                                         *)
(* One key of the cache is watched, chosen at the start; the others behave *)
(* alike and do not meet it.  People take turns at the tab.  A read or a   *)
(* write is a request that is served and answered in separate steps, so    *)
(* that sessions, pages and other answers come in between.                 *)
(*                                                                         *)
(* There is one person of each role, and a token is named by whom it was   *)
(* issued to: a person signs in again only until it has expired.           *)
(***************************************************************************)
EXTENDS Pages, Naturals, FiniteSets

CONSTANTS
  Watched,     \* bound: the keys to choose from
  None,        \* nothing cached, nothing in flight
  MaxPeople,   \* bound: people who sign in
  MaxFaults    \* bound: lost requests, reloads and expired tokens

ASSUME BrowserConstants ==
  Watched \subseteq Keys /\ None \notin Calls /\ {MaxPeople, MaxFaults} \subseteq Nat

VARIABLES
  key,      \* the watched key
  place,    \* the page the tab shows
  opening,  \* does the loader of post/:id run?
  auth,     \* AuthContext's state
  issued,   \* who has been given a token
  dead,     \* whose token has expired
  entry,    \* what the cache holds for key
  fetch,    \* the request for key in flight
  call,     \* a mutation in flight
  faults

vars == <<key, place, opening, auth, issued, dead, entry, fetch, call, faults>>

Guest == "guest"              \* no user, no token
Anyone == Roles \union {Guest}

(***************************************************************************)
(* An entry, and a request for one.                                        *)
(*   of      whose token it was fetched with; Guest for what needs none    *)
(*   stale   invalidated, or older than staleTime                          *)
(*   lacks   the mutation of this tab that it should show and does not     *)
(*           (history)                                                     *)
(***************************************************************************)
Entry == [of : Anyone, stale : BOOLEAN, lacks : Calls \union {None}]
Fetch == [at : {"sent", "resent", "ok", "denied", "redenied", "unauthorized"},
          of : Anyone, lacks : Calls \union {None}]

(***************************************************************************)
(* A mutation: from which page, by which token and user, about an object   *)
(* of the user's or not.                                                   *)
(***************************************************************************)
Mutation == [at : {"sent", "done", "refused", "unauthorized"}, what : Calls, from : Places,
             of : Anyone, user : Anyone, mine : BOOLEAN]

ASSUME NoneIsNothing == None \notin Entry \union Fetch \union Mutation

SignedOut == [user |-> Guest, token |-> Guest]

Init ==
  /\ key \in Watched
  /\ place = "home"
  /\ opening = FALSE
  /\ auth = SignedOut
  /\ issued = {} /\ dead = {}
  /\ entry = None /\ fetch = None /\ call = None
  /\ faults = 0

Fault == faults < MaxFaults /\ faults' = faults + 1

Admit(p, a) == Admitted(p, a.user, a.user # Guest /\ a.token # Guest)

-----------------------------------------------------------------------------
(* Queries.                                                                *)

Enabled(token) == key \in NeedToken => token # Guest

Active == key \in Shows(place) \union HeaderShows /\ Enabled(auth.token)

Request(token) == [at |-> "sent", of |-> token, lacks |-> None]

\* An observer of one of keys mounts, or is enabled.
Mounted(keys, token) ==
  IF key \in keys /\ Enabled(token) /\ fetch = None /\ (entry = None \/ entry.stale)
  THEN Request(token) ELSE fetch

\* What the cache does when a call that invalidates key is answered.  A query nobody
\* observes is only marked.  One that is observed is fetched again, in place of an older
\* fetch, unless that is its first: then nothing is promised of what it brings.
Invalidated ==
  /\ entry' = IF entry = None THEN None ELSE [entry EXCEPT !.stale = TRUE]
  /\ fetch' = IF Active /\ (entry # None \/ fetch = None) THEN Request(auth.token)
              ELSE IF fetch = None THEN None ELSE [fetch EXCEPT !.lacks = None]

Serve ==
  /\ fetch # None /\ fetch.at \in {"sent", "resent"}
  /\ LET asGuest == fetch.of = Guest \/ fetch.of \in dead IN
       \E a \in Answers(key, IF asGuest THEN Guest ELSE fetch.of)
               \* Behind the mesh an expired token is refused where none is needed.
               \union (IF fetch.of \in dead THEN {"unauthorized"} ELSE {}) :
         fetch' = [fetch EXCEPT !.at = IF a = "denied" /\ @ = "resent" THEN "redenied" ELSE a]
  /\ UNCHANGED <<key, place, opening, auth, issued, dead, entry, call, faults>>

\* apiFetch tells of a 401 as auth:expired if it had sent a token, whichever that was.
ExpiresAlways(token) == TRUE        \* mutant: a guest's 401 too
Expires(token) == token # Guest

\* apiUpload tells nobody.
Tells(what) == what # "uploadMedia"

ExpireInPlace == auth' = SignedOut /\ UNCHANGED place    \* mutant: the page stays
Expire == auth' = SignedOut /\ place' = Admit(place, SignedOut)

\* The EditPage gives up when its post cannot be loaded.
LeaveEdit == place' = IF place = "edit" /\ key = <<"posts", "detail">> THEN "home" ELSE place

\* Any error but 401 is tried again once.
Fail(again) ==
  IF again THEN fetch' = None /\ LeaveEdit
           ELSE fetch' = [Request(fetch.of) EXCEPT !.at = "resent"] /\ UNCHANGED place

Deliver ==
  /\ fetch # None
  /\ \/ /\ fetch.at = "ok"
        /\ entry' = [of |-> IF key \in NeedToken THEN fetch.of ELSE Guest,
                     stale |-> FALSE, lacks |-> fetch.lacks]
        /\ fetch' = None
        /\ UNCHANGED <<place, auth>>
     \/ /\ fetch.at \in {"denied", "redenied"}
        /\ Fail(fetch.at = "redenied")
        /\ UNCHANGED <<auth, entry>>
     \/ /\ fetch.at = "unauthorized"
        /\ fetch' = None
        /\ IF Expires(fetch.of) THEN Expire ELSE LeaveEdit /\ UNCHANGED auth
        /\ UNCHANGED entry
  /\ UNCHANGED <<key, opening, issued, dead, call, faults>>

FetchLost ==
  /\ fetch # None /\ fetch.at \in {"sent", "resent"}
  /\ Fail(fetch.at = "resent") /\ Fault
  /\ UNCHANGED <<key, opening, auth, issued, dead, entry, call>>

PollHealth ==                       \* mutant: notifications are not polled
  /\ key = <<"health", "status">>
  /\ Active /\ fetch = None
  /\ fetch' = Request(auth.token)
  /\ UNCHANGED <<key, place, opening, auth, issued, dead, entry, call, faults>>

\* refetchInterval of the notifications, and the button of HealthPage.
Poll ==
  /\ key \in {<<"notifications", "list">>, <<"health", "status">>}
  /\ Active /\ fetch = None
  /\ fetch' = Request(auth.token)
  /\ UNCHANGED <<key, place, opening, auth, issued, dead, entry, call, faults>>

\* PostCard and SearchResultCard, when the mouse is over them.
Prefetch ==
  /\ key = <<"posts", "detail">> /\ place \in HasCards
  /\ fetch = None
  /\ fetch' = Request(auth.token)
  /\ UNCHANGED <<key, place, opening, auth, issued, dead, entry, call, faults>>

\* staleTime.
Age ==
  /\ entry # None /\ ~entry.stale
  /\ entry' = [entry EXCEPT !.stale = TRUE]
  /\ UNCHANGED <<key, place, opening, auth, issued, dead, fetch, call, faults>>

\* gcTime.
Collect ==
  /\ entry # None /\ ~Active /\ fetch = None
  /\ entry' = None
  /\ UNCHANGED <<key, place, opening, auth, issued, dead, fetch, call, faults>>

-----------------------------------------------------------------------------
(* Pages.                                                                  *)

\* Bound: of the pages that neither show key nor offer a call about it only the first.
Concerns(what) == Invalidates(what) \union Changes(what)
Visited == [k \in Keys |-> {"home"} \union
  {p \in Places : \/ k \in Shows(p)
                  \/ \E r \in Roles, mine \in BOOLEAN :
                       \E what \in Offers(p, r, mine) : k \in Concerns(what)}]

Go(p) ==
  /\ p \in Visited[key] \ {"post", place}
  /\ place' = Admit(p, auth)
  /\ opening' = FALSE
  /\ fetch' = Mounted(Shows(place'), auth.token)
  /\ UNCHANGED <<key, auth, issued, dead, entry, call, faults>>

\* The loader of post/:id reads as a guest, before PostPage mounts.
Opened == /\ opening' = TRUE
          /\ fetch' = Mounted({<<"posts", "detail">>}, Guest)

OpenPost ==
  /\ "post" \in Visited[key] /\ ~opening
  /\ Opened
  /\ UNCHANGED <<key, place, auth, issued, dead, entry, call, faults>>

ShowPost ==
  /\ opening /\ (key = <<"posts", "detail">> => fetch = None)
  /\ place' = "post" /\ opening' = FALSE
  /\ fetch' = Mounted(PostShows, auth.token)
  /\ UNCHANGED <<key, auth, issued, dead, entry, call, faults>>

-----------------------------------------------------------------------------
(* Sessions.                                                               *)

\* login and LoginPage's handleSubmit, wherever the tab is by the time of the answer.
SignIn(p) ==
  /\ p \notin dead /\ Cardinality(issued \union {p}) <= MaxPeople
  /\ auth' = [user |-> p, token |-> p]
  /\ place' = "home" /\ opening' = FALSE
  /\ fetch' = Mounted(HomeShows \union HeaderShows, p)
  /\ issued' = issued \union {p}
  /\ UNCHANGED <<key, dead, entry, call, faults>>

\* The cache stays as it is.
Logout ==
  /\ auth.user # Guest
  /\ auth' = SignedOut
  /\ place' = "home" /\ opening' = FALSE
  /\ fetch' = Mounted(HomeShows, Guest)
  /\ UNCHANGED <<key, issued, dead, entry, call, faults>>

ExpireToken(p) ==
  /\ p \in issued \ dead
  /\ dead' = dead \union {p}
  /\ Fault
  /\ UNCHANGED <<key, place, opening, auth, issued, entry, fetch, call>>

\* sessionStorage holds a session only if user and token are both there.
Reload ==
  /\ place # "post"
  /\ auth' = IF auth.user # Guest /\ auth.token # Guest THEN auth ELSE SignedOut
  /\ place' = Admit(place, auth')
  /\ opening' = FALSE
  /\ entry' = None /\ call' = None
  /\ fetch' = IF key \in Shows(place') \union HeaderShows /\ Enabled(auth'.token)
              THEN Request(auth'.token) ELSE None
  /\ Fault
  /\ UNCHANGED <<key, issued, dead>>

-----------------------------------------------------------------------------
(* Mutations.                                                              *)

\* The object of a call: the item of a media library that shows whose list was cached, what
\* a creation makes is one's own, otherwise anybody's.
Send(what, mine) ==
  /\ call = None
  /\ what \in Offers(place, auth.user, mine)
  /\ key \in Invalidates(what) \union Changes(what) \/ what = "changePassword"
  /\ what \in {"createPost", "createComment", "uploadMedia", "markAllRead"} => mine
  /\ what = "deleteMedia" /\ key = <<"media", "list">> /\ place # "admin/media"
       => entry # None /\ mine = (entry.of = auth.user)
  /\ call' = [at |-> "sent", what |-> what, from |-> place, of |-> auth.token,
              user |-> auth.user, mine |-> mine]
  /\ UNCHANGED <<key, place, opening, auth, issued, dead, entry, fetch, faults>>

Lacking(what, e) ==
  IF e # None /\ key \in Changes(what) THEN [e EXCEPT !.lacks = what] ELSE e

Commit ==
  /\ call # None /\ call.at = "sent"
  /\ \/ /\ call.of \in dead \union {Guest} \/ call.what = "changePassword"  \* or a wrong password
        /\ call' = [call EXCEPT !.at = "unauthorized"]
        /\ UNCHANGED <<entry, fetch>>
     \/ /\ call.of \notin dead \union {Guest}
        /\ \E mine \in IF call.of = call.user THEN {call.mine} ELSE BOOLEAN :
             IF Grants(call.what, call.of, mine)
             THEN /\ call' = [call EXCEPT !.at = "done", !.of = Guest, !.mine = FALSE,
                                        !.user = IF call.what = "updateUser" THEN @ ELSE Guest]
                  /\ entry' = Lacking(call.what, entry)
                  /\ fetch' = Lacking(call.what, fetch)
             ELSE call' = [call EXCEPT !.at = "refused"] /\ UNCHANGED <<entry, fetch>>
  /\ UNCHANGED <<key, place, opening, auth, issued, dead, faults>>

\* What a page does once its mutation has succeeded.
AfterSaving ==                       \* saveProfile: in whatever session there is by now
  auth' = [auth EXCEPT !.user = call.user] /\ place' = Admit(place, auth') /\ UNCHANGED opening
AfterPublishing == opening' = TRUE /\ UNCHANGED <<place, auth>>       \* ComposePage
AfterEditing == opening' = TRUE /\ UNCHANGED <<place, auth>>          \* EditPage
AfterDeleting == place' = "home" /\ opening' = FALSE /\ UNCHANGED auth \* PostPage

Continue ==
  CASE call.what = "updateUser" -> AfterSaving
    [] call.what = "createPost" -> AfterPublishing
    [] call.what = "updatePost" /\ call.from = "edit" -> AfterEditing
    [] call.what = "deletePost" /\ call.from = "post" -> AfterDeleting
    [] OTHER -> UNCHANGED <<place, opening, auth>>

Answer ==
  /\ call # None /\ call' = None
  /\ \/ /\ call.at = "done"
        /\ IF key \in Invalidates(call.what) THEN Invalidated ELSE UNCHANGED <<entry, fetch>>
        /\ Continue
     \/ call.at = "refused" /\ UNCHANGED <<place, opening, auth, entry, fetch>>
     \/ /\ call.at = "unauthorized"
        /\ IF Expires(call.of) /\ Tells(call.what) THEN Expire ELSE UNCHANGED <<place, auth>>
        /\ UNCHANGED <<opening, entry, fetch>>
  /\ UNCHANGED <<key, issued, dead, faults>>

\* The page shows an error, whether or not the call has committed.
CallLost ==
  /\ call # None /\ call' = None
  /\ entry' = IF entry = None THEN None ELSE [entry EXCEPT !.lacks = None]
  /\ fetch' = IF fetch = None THEN None ELSE [fetch EXCEPT !.lacks = None]
  /\ Fault
  /\ UNCHANGED <<key, place, opening, auth, issued, dead>>

Next ==
  \/ Serve \/ Deliver \/ FetchLost \/ Poll \/ Prefetch \/ Age \/ Collect
  \/ \E p \in Places : Go(p)
  \/ OpenPost \/ ShowPost
  \/ \E p \in Roles : SignIn(p) \/ ExpireToken(p)
  \/ Logout \/ Reload
  \/ \E what \in Calls, mine \in BOOLEAN : Send(what, mine)
  \/ Commit \/ Answer \/ CallLost

Spec == Init /\ [][Next]_vars

\* Requests are answered, sooner or later before another click replaces them, and the
\* interval comes round.
FairSpec == Spec /\ WF_vars(Serve) /\ SF_vars(Deliver) /\ WF_vars(Poll)

-----------------------------------------------------------------------------
(* Properties.                                                             *)

\* The state is typed, and the tab shows no page that RequireAuth or AdminPage would keep
\* its session from.
TypeOK ==
  /\ key \in Keys
  /\ place \in Places /\ place = Admit(place, auth)
  /\ opening \in BOOLEAN
  /\ auth \in [user : Anyone, token : Anyone]
  /\ dead \in SUBSET issued /\ issued \in SUBSET Roles
  /\ entry \in Entry \union {None}
  /\ fetch \in Fetch \union {None}
  /\ call \in Mutation \union {None}
  /\ faults \in Nat

\* Once a mutation of this tab is answered, what the cache holds as fresh shows it, unless
\* it was being fetched at that moment.  Only a list of users is not told of a profile.
OwnWritesShow ==
  entry # None /\ ~entry.stale /\ entry.lacks # None /\ call = None =>
    entry.lacks = "updateUser" /\ key = <<"users", "list">>

\* No service refuses what a page offered, unless its session is of two people, the item is
\* from a list cached in another's session, or the address is another's post to edit.
OfferedIsGranted ==
  call # None /\ call.at = "refused" =>
    \/ call.of # call.user
    \/ ~call.mine /\ \/ call.what = "deleteMedia" /\ call.from \in {"compose", "edit"}
                     \/ call.what = "updatePost" /\ call.from = "edit"

\* Notifications cached in an earlier session give way, again and again, to those of the
\* current one, as long as its token is accepted.
NoticesBecomeMine ==
  []<>(key = <<"notifications", "list">> /\ auth.token \notin dead \union {Guest} =>
         entry # None /\ entry.of = auth.token)

\* A session ends by signing out, by an answer to a token that has expired, or by a wrong
\* current password; never by an answer to a guest.
SessionOutlivesGuests ==
  [][auth.token # Guest /\ auth'.token = Guest =>
       \/ dead # {}
       \/ call # None /\ call.what = "changePassword" /\ call' = None
       \/ auth.user # Guest /\ place' = "home" /\ UNCHANGED <<entry, call>>]_vars
=============================================================================
