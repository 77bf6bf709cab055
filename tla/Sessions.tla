------------------------------ MODULE Sessions ------------------------------
(***************************************************************************)
(* Login sessions of auth-service (services/auth/src/services/auth.ts):    *)
(* login, refresh and changePassword over the credentials and              *)
(* refresh_tokens tables, user.deleted taking both away, and the restarts  *)
(* that change the key refresh tokens are hashed with.                     *)
(*                                                                         *)
(* Each statement on the database is a step of its own; what a request has *)
(* read stays with it.  bcrypt and the signature touch no shared state and *)
(* belong to the step before them.  A password is the number of the change *)
(* that set it.  The flag credentials.active is never cleared anywhere and *)
(* is left out.                                                            *)
(***************************************************************************)
EXTENDS Integers, FiniteSets

CONSTANTS
  Users,        \* account ids
  Tokens,       \* the refresh tokens randomUUID() may return
  Keys,         \* the values DATABASE_URL may have when the service starts
  Requests,     \* slots for HTTP requests in flight
  Absent,       \* no row, no token
  Exclusive,    \* is there at most one request per account at a time?
  MaxChanges,   \* bound: password changes
  MaxRestarts   \* bound: restarts

ASSUME SessionConstants ==
  /\ Absent \notin Nat /\ Absent \notin Tokens /\ Absent \notin Users
  /\ Exclusive \in BOOLEAN
  /\ MaxChanges \in Nat /\ MaxRestarts \in Nat

VARIABLES
  password,   \* credentials: the password of each account, Absent for no row
  table,      \* refresh_tokens
  expired,    \* tokens past their expires_at
  key,        \* the HMAC key of the running process
  req,        \* requests in flight
  changes,    \* password changes committed so far
  restarts,   \* restarts so far
  parent,     \* history: the token each token was exchanged for
  issued,     \* history: tokens handed out
  acked       \* history: the last password change each account was told of

vars == <<password, table, expired, key, req, changes, restarts, parent, issued, acked>>

\* A row of refresh_tokens.  since is history: the password its chain of
\* refreshes goes back to.
Row == [token : Tokens, user : Users, key : Keys, since : Nat]

\* A request between two statements: what it does next, for whom, with which
\* token and on the strength of which password.
Request == [next  : {"idle", "insert", "find", "rotate", "update", "revoke"},
            user  : Users \union {Absent},
            token : Tokens \union {Absent},
            since : Nat]

Idle == [next |-> "idle", user |-> Absent, token |-> Absent, since |-> 0]

Init ==
  /\ password = [u \in Users |-> 0]
  /\ table = {}
  /\ expired = {}
  /\ key \in Keys
  /\ req = [r \in Requests |-> Idle]
  /\ changes = 0
  /\ restarts = 0
  /\ parent = [t \in Tokens |-> Absent]
  /\ issued = {}
  /\ acked = [u \in Users |-> 0]

RowsOf(u) == {row \in table : row.user = u}

Free(r, u) ==
  /\ req[r].next = "idle"
  /\ Exclusive => \A q \in Requests : req[q].user # u

Proceed(r, next) == req' = [req EXCEPT ![r] = [@ EXCEPT !.next = next]]

Finish(r) == req' = [req EXCEPT ![r] = Idle]

-----------------------------------------------------------------------------
\* login: find the credential, compare the password, sign.
Login(r, u) ==
  /\ Free(r, u)
  /\ password[u] # Absent
  /\ req' = [req EXCEPT ![r] = [next |-> "insert", user |-> u, token |-> Absent,
                                since |-> password[u]]]
  /\ UNCHANGED <<password, table, expired, key, changes, restarts, parent, issued, acked>>

\* refresh: find the row by the token's hash and expiry.  A hash made with
\* another key does not match.
FindToken(r, row) ==
  /\ Free(r, row.user)
  /\ row.key = key
  /\ row.token \notin expired
  /\ req' = [req EXCEPT ![r] = [next |-> "find", user |-> row.user, token |-> row.token,
                                since |-> row.since]]
  /\ UNCHANGED <<password, table, expired, key, changes, restarts, parent, issued, acked>>

\* refresh: find the credential of the row.
FindAccount(r) ==
  /\ req[r].next = "find"
  /\ IF password[req[r].user] # Absent THEN Proceed(r, "rotate") ELSE Finish(r)
  /\ UNCHANGED <<password, table, expired, key, changes, restarts, parent, issued, acked>>

\* Mutant: the row is left for the expiry to clean up.
KeepOld(r) ==
  /\ req[r].next = "rotate"
  /\ Proceed(r, "insert")
  /\ UNCHANGED <<password, table, expired, key, changes, restarts, parent, issued, acked>>

\* refresh: delete the row, whether or not it is still there.
DeleteOld(r) ==
  /\ req[r].next = "rotate"
  /\ table' = {row \in table : row.token # req[r].token}
  /\ Proceed(r, "insert")
  /\ UNCHANGED <<password, expired, key, changes, restarts, parent, issued, acked>>

\* Mutant: the columns of the new row are swapped.
InsertUntyped(r) ==
  /\ req[r].next = "insert"
  /\ password[req[r].user] # Absent
  /\ \E t \in Tokens \ issued :
        /\ table' = table \union
             {[token |-> t, user |-> req[r].token, key |-> key, since |-> req[r].since]}
        /\ issued' = issued \union {t}
        /\ parent' = [parent EXCEPT ![t] = req[r].token]
  /\ Finish(r)
  /\ UNCHANGED <<password, expired, key, changes, restarts, acked>>

\* login and refresh: insert the new row and answer.
InsertToken(r) ==
  LET u == req[r].user IN
  /\ req[r].next = "insert"
  /\ password[u] # Absent
  /\ \E t \in Tokens \ issued :
        /\ table' = table \union
             {[token |-> t, user |-> u, key |-> key, since |-> req[r].since]}
        /\ issued' = issued \union {t}
        /\ parent' = [parent EXCEPT ![t] = req[r].token]
  /\ Finish(r)
  /\ UNCHANGED <<password, expired, key, changes, restarts, acked>>

\* The foreign key finds no credential: 500.
InsertRefused(r) ==
  /\ req[r].next = "insert"
  /\ password[req[r].user] = Absent
  /\ Finish(r)
  /\ UNCHANGED <<password, table, expired, key, changes, restarts, parent, issued, acked>>

-----------------------------------------------------------------------------
\* changePassword: find the credential, compare, hash the new password.
ChangePassword(r, u) ==
  /\ Free(r, u)
  /\ password[u] # Absent
  /\ changes + Cardinality({q \in Requests : req[q].next = "update"}) < MaxChanges
  /\ req' = [req EXCEPT ![r] = [next |-> "update", user |-> u, token |-> Absent,
                                since |-> password[u]]]
  /\ UNCHANGED <<password, table, expired, key, changes, restarts, parent, issued, acked>>

\* changePassword: UPDATE credentials, which may match no row any more.
UpdatePassword(r) ==
  LET u == req[r].user IN
  /\ req[r].next = "update"
  /\ changes' = changes + 1
  /\ password' = IF password[u] = Absent THEN password
                 ELSE [password EXCEPT ![u] = changes + 1]
  /\ req' = [req EXCEPT ![r] = [@ EXCEPT !.next = "revoke", !.since = changes + 1]]
  /\ UNCHANGED <<table, expired, key, restarts, parent, issued, acked>>

\* Mutant: only the tokens that have expired are deleted.
RevokeExpired(r) ==
  LET u == req[r].user IN
  /\ req[r].next = "revoke"
  /\ table' = {row \in table : row.user = u => row.token \notin expired}
  /\ acked' = [acked EXCEPT ![u] = IF @ < req[r].since THEN req[r].since ELSE @]
  /\ Finish(r)
  /\ UNCHANGED <<password, expired, key, changes, restarts, parent, issued>>

\* changePassword: delete all the account's refresh tokens and answer.
RevokeTokens(r) ==
  LET u == req[r].user IN
  /\ req[r].next = "revoke"
  /\ table' = table \ RowsOf(u)
  /\ acked' = [acked EXCEPT ![u] = IF @ < req[r].since THEN req[r].since ELSE @]
  /\ Finish(r)
  /\ UNCHANGED <<password, expired, key, changes, restarts, parent, issued>>

-----------------------------------------------------------------------------
\* The user.deleted subscriber deletes the credential; its refresh tokens
\* go with it (ON DELETE CASCADE).
DeleteCredential(u) ==
  /\ password[u] # Absent
  /\ password' = [password EXCEPT ![u] = Absent]
  /\ table' = table \ RowsOf(u)
  /\ UNCHANGED <<expired, key, req, changes, restarts, parent, issued, acked>>

\* Thirty days pass for a token.
Expire(t) ==
  /\ t \in issued \ expired
  /\ expired' = expired \union {t}
  /\ UNCHANGED <<password, table, key, req, changes, restarts, parent, issued, acked>>

\* The process dies and comes back, with the DATABASE_URL of that moment.
Restart(k) ==
  /\ restarts < MaxRestarts
  /\ restarts' = restarts + 1
  /\ key' = k
  /\ req' = [r \in Requests |-> Idle]
  /\ UNCHANGED <<password, table, expired, changes, parent, issued, acked>>

-----------------------------------------------------------------------------
Next ==
  \/ \E r \in Requests :
        \/ \E u \in Users : Login(r, u) \/ ChangePassword(r, u)
        \/ \E row \in table : FindToken(r, row)
        \/ FindAccount(r)
        \/ DeleteOld(r)
        \/ InsertToken(r)
        \/ InsertRefused(r)
        \/ UpdatePassword(r)
        \/ RevokeTokens(r)
  \/ \E u \in Users : DeleteCredential(u)
  \/ \E t \in Tokens : Expire(t)
  \/ \E k \in Keys : Restart(k)

Spec == Init /\ [][Next]_vars

-----------------------------------------------------------------------------
TypeOK ==
  /\ password \in [Users -> Nat \union {Absent}]
  /\ table \in SUBSET Row
  /\ expired \in SUBSET Tokens
  /\ key \in Keys
  /\ req \in [Requests -> Request]
  /\ \A r \in Requests : req[r].next # "idle" => req[r].user \in Users
  /\ changes \in Nat
  /\ restarts \in 0 .. MaxRestarts
  /\ parent \in [Tokens -> Tokens \union {Absent}]
  /\ issued \in SUBSET Tokens
  /\ acked \in [Users -> Nat]

(***************************************************************************)
(* No session outlives its account: a login or refresh that read the       *)
(* credential before user.deleted took it away cannot leave a refresh      *)
(* token behind afterwards.                                                *)
(***************************************************************************)
SessionsHaveAccounts == \A row \in table : password[row.user] # Absent

(***************************************************************************)
(* Rotation: once a refresh has answered with a successor, the token it    *)
(* was given is not in the table any more, however requests overlap and    *)
(* wherever the process dies.                                              *)
(***************************************************************************)
SpentTokensGone == \A t \in issued : \A row \in table : row.token # parent[t]

(***************************************************************************)
(* One refresh token buys one successor.  Only so while the requests of an *)
(* account do not overlap: refresh does not look at the number of rows its *)
(* DELETE took away (auth.ts:110).                                         *)
(***************************************************************************)
OneSuccessor ==
  \A s, t \in issued : parent[s] = parent[t] /\ parent[s] # Absent => s = t

(***************************************************************************)
(* auth.ts:150, "Invalidate all refresh tokens to force re-login on other  *)
(* sessions": when changePassword has answered, no refresh token is left   *)
(* of a session that began with an earlier password.                       *)
(***************************************************************************)
PasswordChangeEndsSessions == \A row \in table : row.since >= acked[row.user]
=============================================================================
