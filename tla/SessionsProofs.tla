--------------------------- MODULE SessionsProofs ---------------------------
(***************************************************************************)
(* Theorems about Sessions, for every set of accounts, tokens, keys and    *)
(* request slots and every bound: its types, that sessions go with their   *)
(* accounts, that a spent refresh token is gone, and, as long as the       *)
(* requests of an account do not overlap, that a token buys one successor  *)
(* and that a password change ends the earlier sessions.                   *)
(***************************************************************************)
EXTENDS Sessions, TLAPS

-----------------------------------------------------------------------------
(* The inductive invariants.                                               *)

(***************************************************************************)
(* Tokens a row, a request or a history names have been handed out, and a  *)
(* request that is about to insert has the row of its own token behind it. *)
(***************************************************************************)
TokensIssued ==
  /\ \A row \in table : row.token \in issued
  /\ \A r \in Requests : req[r].token \in issued \union {Absent}
  /\ \A t \in issued : parent[t] \in issued \union {Absent}

Rotated ==
  \A r \in Requests : req[r].next = "insert" =>
     \A row \in table : row.token # req[r].token

\* A token is one account's, whoever holds it.
OneOwner ==
  /\ \A a, b \in table : a.token = b.token => a.user = b.user
  /\ \A r \in Requests : \A row \in table : row.token = req[r].token => row.user = req[r].user
  /\ \A r, q \in Requests :
        req[r].token = req[q].token /\ req[r].token # Absent => req[r].user = req[q].user

\* The requests of an account do not overlap.
Alone == \A r, q \in Requests : req[r].user = req[q].user /\ req[r].user # Absent => r = q

\* A token a request holds has no successor yet.
Unspent == \A r \in Requests : \A t \in issued : parent[t] = req[r].token => parent[t] = Absent

Succession == OneOwner /\ Alone /\ Unspent /\ OneSuccessor

(***************************************************************************)
(* Passwords are numbered in the order of their changes, and what a        *)
(* request has read is no older than the last change its account was told  *)
(* of.                                                                     *)
(***************************************************************************)
PasswordsOrdered ==
  /\ \A u \in Users : password[u] # Absent => acked[u] <= password[u] /\ password[u] <= changes
  /\ \A r \in Requests : req[r].next = "revoke" =>
        /\ req[r].since <= changes
        /\ password[req[r].user] # Absent => req[r].since <= password[req[r].user]
  /\ \A r \in Requests : req[r].next \notin {"idle", "revoke"} =>
        acked[req[r].user] <= req[r].since

-----------------------------------------------------------------------------
(* Types.                                                                  *)

LEMMA IdleIsRequest == Idle \in Request /\ Idle.next = "idle"
BY DEF Idle, Request

THEOREM TypesInit == Init => TypeOK
BY SessionConstants, IdleIsRequest DEF Init, TypeOK, Row

(* A step that moves one request, and leaves it idle or with an account,   *)
(* keeps the requests typed.                                               *)
LEMMA RequestMoves ==
  ASSUME TypeOK, NEW r \in Requests, NEW q \in Request,
         q.next # "idle" => q.user \in Users,
         req' = [req EXCEPT ![r] = q]
  PROVE  /\ req' \in [Requests -> Request]
         /\ \A s \in Requests : req'[s].next # "idle" => req'[s].user \in Users
BY DEF TypeOK

THEOREM TypesStep == TypeOK /\ [Next]_vars => TypeOK'
<1> SUFFICES ASSUME TypeOK, [Next]_vars PROVE TypeOK'
  OBVIOUS
<1> USE SessionConstants
<1>1. ASSUME NEW r \in Requests, NEW u \in Users, Login(r, u) PROVE TypeOK'
  <2> DEFINE q == [next |-> "insert", user |-> u, token |-> Absent, since |-> password[u]]
  <2>1. q \in Request
    BY <1>1 DEF Login, TypeOK, Request
  <2>2. req' = [req EXCEPT ![r] = q]
    BY <1>1 DEF Login
  <2>3. q.user \in Users
    OBVIOUS
  <2> HIDE DEF q
  <2>4. /\ req' \in [Requests -> Request]
        /\ \A s \in Requests : req'[s].next # "idle" => req'[s].user \in Users
    BY <2>1, <2>2, <2>3, RequestMoves
  <2> QED
    BY <1>1, <2>4 DEF Login, TypeOK
<1>2. ASSUME NEW r \in Requests, NEW u \in Users, ChangePassword(r, u) PROVE TypeOK'
  <2> DEFINE q == [next |-> "update", user |-> u, token |-> Absent, since |-> password[u]]
  <2>1. q \in Request
    BY <1>2 DEF ChangePassword, TypeOK, Request
  <2>2. req' = [req EXCEPT ![r] = q]
    BY <1>2 DEF ChangePassword
  <2>3. q.user \in Users
    OBVIOUS
  <2> HIDE DEF q
  <2>4. /\ req' \in [Requests -> Request]
        /\ \A s \in Requests : req'[s].next # "idle" => req'[s].user \in Users
    BY <2>1, <2>2, <2>3, RequestMoves
  <2> QED
    BY <1>2, <2>4 DEF ChangePassword, TypeOK
<1>3. ASSUME NEW r \in Requests, NEW row \in table, FindToken(r, row) PROVE TypeOK'
  <2> DEFINE q == [next |-> "find", user |-> row.user, token |-> row.token, since |-> row.since]
  <2>0. row \in Row
    BY DEF TypeOK
  <2>1. q \in Request /\ q.user \in Users
    BY <2>0 DEF Row, Request
  <2>2. req' = [req EXCEPT ![r] = q]
    BY <1>3 DEF FindToken
  <2> HIDE DEF q
  <2>4. /\ req' \in [Requests -> Request]
        /\ \A s \in Requests : req'[s].next # "idle" => req'[s].user \in Users
    BY <2>1, <2>2, RequestMoves
  <2> QED
    BY <1>3, <2>4 DEF FindToken, TypeOK
<1>4. ASSUME NEW r \in Requests, NEW q \in Request,
             q.next # "idle" => q.user \in Users,
             req' = [req EXCEPT ![r] = q],
             password' \in [Users -> Nat \union {Absent}], table' \in SUBSET Row,
             UNCHANGED <<expired, key, restarts>>,
             changes' \in Nat, issued' \in SUBSET Tokens,
             parent' \in [Tokens -> Tokens \union {Absent}], acked' \in [Users -> Nat]
      PROVE  TypeOK'
  <2>1. /\ req' \in [Requests -> Request]
        /\ \A s \in Requests : req'[s].next # "idle" => req'[s].user \in Users
    BY <1>4, RequestMoves
  <2> QED
    BY <1>4, <2>1 DEF TypeOK
<1>5. ASSUME NEW r \in Requests,
             Finish(r) \/ (req[r].next # "idle" /\ \E n \in {"insert", "rotate"} : Proceed(r, n)),
             UNCHANGED <<password, table, expired, key, changes, restarts, parent, issued, acked>>
      PROVE  TypeOK'
  <2>1. CASE Finish(r)
    BY <1>4, <1>5, <2>1, IdleIsRequest DEF Finish, TypeOK
  <2>2. ASSUME NEW n \in {"insert", "rotate"}, req[r].next # "idle", Proceed(r, n) PROVE TypeOK'
    <3> DEFINE q == [req[r] EXCEPT !.next = n]
    <3>1. q \in Request /\ q.user \in Users
      BY <2>2 DEF TypeOK, Request
    <3>2. req' = [req EXCEPT ![r] = q]
      BY <2>2 DEF Proceed
    <3> HIDE DEF q
    <3> QED
      BY <1>4, <1>5, <3>1, <3>2 DEF TypeOK
  <2> QED
    BY <1>5, <2>1, <2>2
<1>6. ASSUME NEW r \in Requests, FindAccount(r) PROVE TypeOK'
  BY <1>5, <1>6 DEF FindAccount
<1>7. ASSUME NEW r \in Requests, InsertRefused(r) PROVE TypeOK'
  BY <1>5, <1>7 DEF InsertRefused
<1>8. ASSUME NEW r \in Requests, DeleteOld(r) PROVE TypeOK'
  <2> DEFINE q == [req[r] EXCEPT !.next = "insert"]
  <2>1. q \in Request /\ q.user \in Users
    BY <1>8 DEF DeleteOld, TypeOK, Request
  <2>2. req' = [req EXCEPT ![r] = q] /\ table' \in SUBSET Row
    BY <1>8 DEF DeleteOld, Proceed, TypeOK
  <2> HIDE DEF q
  <2> QED
    BY <1>4, <1>8, <2>1, <2>2 DEF DeleteOld, TypeOK
<1>9. ASSUME NEW r \in Requests, InsertToken(r) PROVE TypeOK'
  <2>1. PICK t \in Tokens \ issued :
          /\ table' = table \union {[token |-> t, user |-> req[r].user, key |-> key,
                                     since |-> req[r].since]}
          /\ issued' = issued \union {t}
          /\ parent' = [parent EXCEPT ![t] = req[r].token]
    BY <1>9 DEF InsertToken
  <2>2. req[r] \in Request /\ req[r].user \in Users
    BY <1>9 DEF InsertToken, TypeOK
  <2>3. table' \in SUBSET Row
    BY <2>1, <2>2 DEF TypeOK, Row, Request
  <2>4. issued' \in SUBSET Tokens /\ parent' \in [Tokens -> Tokens \union {Absent}]
    BY <2>1, <2>2 DEF TypeOK, Request
  <2> QED
    BY <1>4, <1>9, <2>3, <2>4, IdleIsRequest DEF InsertToken, Finish, TypeOK
<1>10. ASSUME NEW r \in Requests, UpdatePassword(r) PROVE TypeOK'
  <2> DEFINE q == [req[r] EXCEPT !.next = "revoke", !.since = changes + 1]
  <2>0. req[r] \in Request /\ req[r].user \in Users /\ changes + 1 \in Nat
    BY <1>10 DEF UpdatePassword, TypeOK
  <2>1. q \in Request /\ q.user \in Users
    BY <2>0 DEF Request
  <2>2. req' = [req EXCEPT ![r] = q]
    BY <1>10 DEF UpdatePassword
  <2>3. password' \in [Users -> Nat \union {Absent}] /\ changes' \in Nat
    BY <1>10 DEF UpdatePassword, TypeOK
  <2> HIDE DEF q
  <2> QED
    BY <1>4, <1>10, <2>1, <2>2, <2>3 DEF UpdatePassword, TypeOK
<1>11. ASSUME NEW r \in Requests, RevokeTokens(r) PROVE TypeOK'
  <2>1. req[r] \in Request /\ req[r].user \in Users
    BY <1>11 DEF RevokeTokens, TypeOK
  <2>2. acked' \in [Users -> Nat]
    BY <1>11, <2>1 DEF RevokeTokens, TypeOK, Request
  <2>3. table' \in SUBSET Row
    BY <1>11 DEF RevokeTokens, TypeOK
  <2> QED
    BY <1>4, <1>11, <2>2, <2>3, IdleIsRequest DEF RevokeTokens, Finish, TypeOK
<1>12. ASSUME NEW u \in Users, DeleteCredential(u) PROVE TypeOK'
  BY <1>12 DEF DeleteCredential, TypeOK
<1>13. ASSUME NEW t \in Tokens, Expire(t) PROVE TypeOK'
  BY <1>13 DEF Expire, TypeOK
<1>14. ASSUME NEW k \in Keys, Restart(k) PROVE TypeOK'
  BY <1>14, IdleIsRequest DEF Restart, TypeOK
<1>15. CASE UNCHANGED vars
  BY <1>15 DEF vars, TypeOK
<1> QED
  BY <1>1, <1>2, <1>3, <1>6, <1>7, <1>8, <1>9, <1>10, <1>11, <1>12, <1>13, <1>14, <1>15
     DEF Next

(* Every reachable state is typed.                                         *)
THEOREM TypesCorrect == Spec => []TypeOK
BY TypesInit, TypesStep, PTL DEF Spec

-----------------------------------------------------------------------------
(* Sessions and their accounts.                                            *)

LEMMA AccountsStep == TypeOK /\ SessionsHaveAccounts /\ [Next]_vars => SessionsHaveAccounts'
<1> SUFFICES ASSUME TypeOK, SessionsHaveAccounts, [Next]_vars PROVE SessionsHaveAccounts'
  OBVIOUS
<1> USE SessionConstants DEF SessionsHaveAccounts
<1>1. ASSUME table' \subseteq table, UNCHANGED password PROVE SessionsHaveAccounts'
  BY <1>1
<1>2. ASSUME NEW r \in Requests, NEW u \in Users, Login(r, u) \/ ChangePassword(r, u)
      PROVE  SessionsHaveAccounts'
  BY <1>1, <1>2 DEF Login, ChangePassword
<1>3. ASSUME NEW r \in Requests, NEW row \in table, FindToken(r, row) PROVE SessionsHaveAccounts'
  BY <1>1, <1>3 DEF FindToken
<1>4. ASSUME NEW r \in Requests,
             FindAccount(r) \/ DeleteOld(r) \/ InsertRefused(r) \/ RevokeTokens(r)
      PROVE  SessionsHaveAccounts'
  BY <1>1, <1>4 DEF FindAccount, DeleteOld, InsertRefused, RevokeTokens
<1>5. ASSUME NEW r \in Requests, InsertToken(r) PROVE SessionsHaveAccounts'
  BY <1>5 DEF InsertToken
<1>6. ASSUME NEW r \in Requests, UpdatePassword(r) PROVE SessionsHaveAccounts'
  <2>1. changes + 1 # Absent
    BY DEF TypeOK
  <2> QED
    BY <1>6, <2>1 DEF UpdatePassword, TypeOK, Row
<1>7. ASSUME NEW u \in Users, DeleteCredential(u) PROVE SessionsHaveAccounts'
  BY <1>7 DEF DeleteCredential, RowsOf, TypeOK, Row
<1>8. ASSUME NEW t \in Tokens, Expire(t) PROVE SessionsHaveAccounts'
  BY <1>1, <1>8 DEF Expire
<1>9. ASSUME NEW k \in Keys, Restart(k) PROVE SessionsHaveAccounts'
  BY <1>1, <1>9 DEF Restart
<1>10. CASE UNCHANGED vars
  BY <1>1, <1>10 DEF vars
<1> QED
  BY <1>2, <1>3, <1>4, <1>5, <1>6, <1>7, <1>8, <1>9, <1>10 DEF Next

(* No refresh token outlives its account: the foreign key refuses the row  *)
(* of a login or refresh that was under way when user.deleted was handled. *)
THEOREM SessionsGoWithAccounts == Spec => []SessionsHaveAccounts
<1>1. Init => SessionsHaveAccounts
  BY DEF Init, SessionsHaveAccounts
<1> QED
  BY <1>1, AccountsStep, TypesCorrect, PTL DEF Spec

-----------------------------------------------------------------------------
(* Rotation.                                                               *)

Rotation == TokensIssued /\ Rotated /\ SpentTokensGone

(* Steps that hand out no token.                                           *)
LEMMA RotationKept ==
  ASSUME TypeOK, Rotation, NEW r \in Requests, NEW q \in Request,
         req' = [req EXCEPT ![r] = q],
         q.token \in issued \union {Absent},
         q.next = "insert" => \A row \in table' : row.token # q.token,
         table' \subseteq table, UNCHANGED <<issued, parent>>
  PROVE  Rotation'
BY DEF Rotation, TokensIssued, Rotated, SpentTokensGone, TypeOK

LEMMA RotationStep == TypeOK /\ Rotation /\ [Next]_vars => Rotation'
<1> SUFFICES ASSUME TypeOK, Rotation, [Next]_vars PROVE Rotation'
  OBVIOUS
<1> USE SessionConstants
<1>0. /\ \A row \in table : row \in Row /\ row.token \in issued /\ row.token \in Tokens
      /\ \A r \in Requests : req[r] \in Request /\ req[r].token \in issued \union {Absent}
      /\ Idle \in Request /\ Idle.token = Absent /\ Idle.next = "idle"
  BY IdleIsRequest DEF Rotation, TokensIssued, TypeOK, Row, Idle
<1>1. ASSUME NEW r \in Requests, NEW u \in Users, Login(r, u) PROVE Rotation'
  <2> DEFINE q == [next |-> "insert", user |-> u, token |-> Absent, since |-> password[u]]
  <2>1. q \in Request /\ q.token = Absent
    BY <1>1 DEF Login, TypeOK, Request
  <2>2. /\ req' = [req EXCEPT ![r] = q]
        /\ table' \subseteq table /\ UNCHANGED <<issued, parent>>
    BY <1>1 DEF Login
  <2> HIDE DEF q
  <2> QED
    BY <1>0, <2>1, <2>2, RotationKept
<1>2. ASSUME NEW r \in Requests, NEW u \in Users, ChangePassword(r, u) PROVE Rotation'
  <2> DEFINE q == [next |-> "update", user |-> u, token |-> Absent, since |-> password[u]]
  <2>1. q \in Request /\ q.token = Absent
    BY <1>2 DEF ChangePassword, TypeOK, Request
  <2>2. /\ req' = [req EXCEPT ![r] = q]
        /\ table' \subseteq table /\ UNCHANGED <<issued, parent>>
    BY <1>2 DEF ChangePassword
  <2> HIDE DEF q
  <2> QED
    BY <1>0, <2>1, <2>2, RotationKept
<1>3. ASSUME NEW r \in Requests, NEW row \in table, FindToken(r, row) PROVE Rotation'
  <2> DEFINE q == [next |-> "find", user |-> row.user, token |-> row.token, since |-> row.since]
  <2>1. q \in Request /\ q.token \in issued /\ q.next = "find"
    BY <1>0 DEF Row, Request
  <2>2. /\ req' = [req EXCEPT ![r] = q]
        /\ table' \subseteq table /\ UNCHANGED <<issued, parent>>
    BY <1>3 DEF FindToken
  <2> HIDE DEF q
  <2> QED
    BY <2>1, <2>2, RotationKept
<1>4. ASSUME NEW r \in Requests, Finish(r), table' \subseteq table, UNCHANGED <<issued, parent>>
      PROVE  Rotation'
  BY <1>0, <1>4, RotationKept DEF Finish
<1>5. ASSUME NEW r \in Requests, FindAccount(r) PROVE Rotation'
  <2> DEFINE q == [req[r] EXCEPT !.next = "rotate"]
  <2>1. q \in Request /\ q.token \in issued \union {Absent} /\ q.next = "rotate"
    BY <1>0 DEF Request
  <2>2. /\ Finish(r) \/ req' = [req EXCEPT ![r] = q]
        /\ table' \subseteq table /\ UNCHANGED <<issued, parent>>
    BY <1>5 DEF FindAccount, Proceed
  <2> HIDE DEF q
  <2> QED
    BY <1>4, <2>1, <2>2, RotationKept
<1>6. ASSUME NEW r \in Requests, DeleteOld(r) PROVE Rotation'
  <2> DEFINE q == [req[r] EXCEPT !.next = "insert"]
  <2>1. q \in Request /\ q.token = req[r].token /\ q.token \in issued \union {Absent}
    BY <1>0 DEF Request
  <2>2. /\ req' = [req EXCEPT ![r] = q]
        /\ table' = {row \in table : row.token # req[r].token} /\ UNCHANGED <<issued, parent>>
    BY <1>6 DEF DeleteOld, Proceed
  <2> HIDE DEF q
  <2>3. table' \subseteq table /\ \A row \in table' : row.token # q.token
    BY <2>1, <2>2
  <2> QED
    BY <2>1, <2>2, <2>3, RotationKept
<1>7. ASSUME NEW r \in Requests, InsertToken(r) PROVE Rotation'
  <2>1. PICK t \in Tokens \ issued :
          /\ table' = table \union {[token |-> t, user |-> req[r].user, key |-> key,
                                     since |-> req[r].since]}
          /\ issued' = issued \union {t}
          /\ parent' = [parent EXCEPT ![t] = req[r].token]
    BY <1>7 DEF InsertToken
  <2>2. req[r].next = "insert" /\ req' = [req EXCEPT ![r] = Idle]
    BY <1>7 DEF InsertToken, Finish
  <2>3. \A row \in table : row.token # req[r].token /\ row.token # t
    BY <1>0, <2>1, <2>2 DEF Rotation, Rotated
  <2>4. \A s \in Requests : req'[s].token \in issued \union {Absent}
    BY <1>0, <2>2 DEF TypeOK
  <2>5. t # req[r].token /\ t # Absent
    BY <1>0, <2>1
  <2>6. parent'[t] = req[r].token /\ \A s \in issued : parent'[s] = parent[s]
    BY <2>1 DEF TypeOK
  <2>7. TokensIssued'
    BY <1>0, <2>1, <2>4, <2>6 DEF Rotation, TokensIssued
  <2>8. Rotated'
    <3> SUFFICES ASSUME NEW s \in Requests, req'[s].next = "insert", NEW row \in table'
                 PROVE  row.token # req'[s].token
      BY DEF Rotated
    <3>1. s # r /\ req'[s] = req[s]
      BY <1>0, <2>2 DEF TypeOK
    <3> QED
      BY <2>1, <2>4, <2>5, <3>1 DEF Rotation, Rotated
  <2>9. SpentTokensGone'
    <3> SUFFICES ASSUME NEW s \in issued', NEW row \in table' PROVE row.token # parent'[s]
      BY DEF SpentTokensGone
    <3>1. CASE s = t
      BY <2>1, <2>3, <2>5, <2>6, <3>1
    <3>2. CASE s \in issued
      BY <2>1, <2>5, <2>6, <3>2 DEF Rotation, TokensIssued, SpentTokensGone
    <3> QED
      BY <2>1, <3>1, <3>2
  <2> QED
    BY <2>7, <2>8, <2>9 DEF Rotation
<1>8. ASSUME NEW r \in Requests, InsertRefused(r) PROVE Rotation'
  BY <1>4, <1>8 DEF InsertRefused
<1>9. ASSUME NEW r \in Requests, UpdatePassword(r) PROVE Rotation'
  <2> DEFINE q == [req[r] EXCEPT !.next = "revoke", !.since = changes + 1]
  <2>0. changes + 1 \in Nat
    BY DEF TypeOK
  <2>1. q \in Request /\ q.token \in issued \union {Absent} /\ q.next = "revoke"
    BY <1>0, <2>0 DEF Request
  <2>2. /\ req' = [req EXCEPT ![r] = q]
        /\ table' \subseteq table /\ UNCHANGED <<issued, parent>>
    BY <1>9 DEF UpdatePassword
  <2> HIDE DEF q
  <2> QED
    BY <2>1, <2>2, RotationKept
<1>10. ASSUME NEW r \in Requests, RevokeTokens(r) PROVE Rotation'
  BY <1>4, <1>10 DEF RevokeTokens
<1>11. ASSUME table' \subseteq table, UNCHANGED <<req, issued, parent>> PROVE Rotation'
  BY <1>11 DEF Rotation, TokensIssued, Rotated, SpentTokensGone
<1>12. ASSUME NEW u \in Users, DeleteCredential(u) PROVE Rotation'
  BY <1>11, <1>12 DEF DeleteCredential
<1>13. ASSUME NEW t \in Tokens, Expire(t) PROVE Rotation'
  BY <1>11, <1>13 DEF Expire
<1>14. ASSUME NEW k \in Keys, Restart(k) PROVE Rotation'
  BY <1>0, <1>14 DEF Restart, Rotation, TokensIssued, Rotated, SpentTokensGone
<1>15. CASE UNCHANGED vars
  BY <1>11, <1>15 DEF vars
<1> QED
  BY <1>1, <1>2, <1>3, <1>5, <1>6, <1>7, <1>8, <1>9, <1>10, <1>12, <1>13, <1>14, <1>15
     DEF Next

LEMMA RotationInit == Init => Rotation
BY DEF Init, Rotation, TokensIssued, Rotated, SpentTokensGone, Idle

(* A refresh token that has been exchanged is not in the table, however    *)
(* requests overlap and wherever the process dies.                         *)
THEOREM SpentTokensStayGone == Spec => []SpentTokensGone
<1>1. Rotation => SpentTokensGone
  BY DEF Rotation
<1> QED
  BY <1>1, RotationInit, RotationStep, TypesCorrect, PTL DEF Spec

-----------------------------------------------------------------------------
(* Accounts whose requests do not overlap.                                 *)

LEMMA SuccessionInit == Init => Succession
BY DEF Init, Succession, OneOwner, Alone, Unspent, OneSuccessor, Idle

(* Steps that hand out no token, by a request that goes on, begins for an  *)
(* account nobody else is busy with, or ends.                              *)
LEMMA SuccessionKept ==
  ASSUME TypeOK, Rotation, Succession, NEW r \in Requests, NEW q \in Request,
         req' = [req EXCEPT ![r] = q],
         \/ q.user = req[r].user /\ q.token = req[r].token
         \/ q.token = Absent /\ \A s \in Requests : req[s].user # q.user \/ q.user = Absent
         \/ /\ \E row \in table : row.user = q.user /\ row.token = q.token
            /\ \A s \in Requests : req[s].user # q.user,
         table' \subseteq table, UNCHANGED <<issued, parent>>
  PROVE  Succession'
<1> USE SessionConstants
<1>0. /\ \A s \in Requests : req'[s] = IF s = r THEN q ELSE req[s]
      /\ \A row \in table : row.token \in Tokens
  BY DEF TypeOK, Row
<1>1. CASE q.user = req[r].user /\ q.token = req[r].token
  <2>1. \A s \in Requests : req'[s].user = req[s].user /\ req'[s].token = req[s].token
    BY <1>0, <1>1
  <2> QED
    BY <2>1 DEF Succession, OneOwner, Alone, Unspent, OneSuccessor
<1>2. CASE q.token = Absent /\ \A s \in Requests : req[s].user # q.user \/ q.user = Absent
  <2>1. OneOwner'
    BY <1>0, <1>2 DEF Succession, OneOwner
  <2>2. Alone'
    BY <1>0, <1>2 DEF Succession, Alone
  <2>3. Unspent' /\ OneSuccessor'
    BY <1>0, <1>2 DEF Succession, Unspent, OneSuccessor
  <2> QED
    BY <2>1, <2>2, <2>3 DEF Succession
<1>3. ASSUME NEW row \in table, row.user = q.user, row.token = q.token,
             \A s \in Requests : req[s].user # q.user
      PROVE  Succession'
  <2>1. OneOwner'
    <3>1. \A a \in table' : a.token = q.token => a.user = q.user
      BY <1>3 DEF Succession, OneOwner
    <3>2. \A s \in Requests : req[s].token = q.token => req[s].user = q.user
      BY <1>3 DEF Succession, OneOwner
    <3> QED
      BY <1>0, <3>1, <3>2 DEF Succession, OneOwner
  <2>2. Alone'
    BY <1>0, <1>3 DEF Succession, Alone
  <2>3. Unspent'
    BY <1>0, <1>3 DEF Succession, Unspent, Rotation, SpentTokensGone
  <2>4. OneSuccessor'
    BY DEF Succession, OneSuccessor
  <2> QED
    BY <2>1, <2>2, <2>3, <2>4 DEF Succession
<1> QED
  BY <1>1, <1>2, <1>3

LEMMA SuccessionStep ==
  ASSUME Exclusive
  PROVE  TypeOK /\ Rotation /\ Succession /\ [Next]_vars => Succession'
<1> SUFFICES ASSUME TypeOK, Rotation, Succession, [Next]_vars PROVE Succession'
  OBVIOUS
<1> USE SessionConstants
<1>0. /\ \A row \in table : row \in Row
      /\ \A r \in Requests : req[r] \in Request
      /\ Idle \in Request /\ Idle.token = Absent /\ Idle.user = Absent
  BY IdleIsRequest DEF TypeOK, Idle
<1>1. ASSUME NEW r \in Requests, NEW u \in Users, Login(r, u) PROVE Succession'
  <2> DEFINE q == [next |-> "insert", user |-> u, token |-> Absent, since |-> password[u]]
  <2>1. q \in Request /\ q.token = Absent /\ q.user = u
    BY <1>1 DEF Login, TypeOK, Request
  <2>2. /\ req' = [req EXCEPT ![r] = q] /\ \A s \in Requests : req[s].user # u
        /\ table' \subseteq table /\ UNCHANGED <<issued, parent>>
    BY <1>1 DEF Login, Free
  <2> HIDE DEF q
  <2> QED
    BY <2>1, <2>2, SuccessionKept
<1>2. ASSUME NEW r \in Requests, NEW u \in Users, ChangePassword(r, u) PROVE Succession'
  <2> DEFINE q == [next |-> "update", user |-> u, token |-> Absent, since |-> password[u]]
  <2>1. q \in Request /\ q.token = Absent /\ q.user = u
    BY <1>2 DEF ChangePassword, TypeOK, Request
  <2>2. /\ req' = [req EXCEPT ![r] = q] /\ \A s \in Requests : req[s].user # u
        /\ table' \subseteq table /\ UNCHANGED <<issued, parent>>
    BY <1>2 DEF ChangePassword, Free
  <2> HIDE DEF q
  <2> QED
    BY <2>1, <2>2, SuccessionKept
<1>3. ASSUME NEW r \in Requests, NEW row \in table, FindToken(r, row) PROVE Succession'
  <2> DEFINE q == [next |-> "find", user |-> row.user, token |-> row.token, since |-> row.since]
  <2>1. q \in Request /\ q.user = row.user /\ q.token = row.token
    BY <1>0 DEF Row, Request
  <2>2. /\ req' = [req EXCEPT ![r] = q] /\ \A s \in Requests : req[s].user # row.user
        /\ table' \subseteq table /\ UNCHANGED <<issued, parent>>
    BY <1>3 DEF FindToken, Free
  <2> HIDE DEF q
  <2> QED
    BY <2>1, <2>2, SuccessionKept
<1>4. ASSUME NEW r \in Requests, Finish(r), table' \subseteq table, UNCHANGED <<issued, parent>>
      PROVE  Succession'
  BY <1>0, <1>4, SuccessionKept DEF Finish
<1>5. ASSUME NEW r \in Requests, NEW n \in {"rotate", "insert"}, Proceed(r, n),
             table' \subseteq table, UNCHANGED <<issued, parent>>
      PROVE  Succession'
  <2> DEFINE q == [req[r] EXCEPT !.next = n]
  <2>1. q \in Request /\ q.user = req[r].user /\ q.token = req[r].token
    BY <1>0 DEF Request
  <2>2. req' = [req EXCEPT ![r] = q]
    BY <1>5 DEF Proceed
  <2> HIDE DEF q
  <2> QED
    BY <1>5, <2>1, <2>2, SuccessionKept
<1>6. ASSUME NEW r \in Requests, FindAccount(r) PROVE Succession'
  BY <1>4, <1>5, <1>6 DEF FindAccount
<1>7. ASSUME NEW r \in Requests, DeleteOld(r) PROVE Succession'
  BY <1>5, <1>7 DEF DeleteOld
<1>8. ASSUME NEW r \in Requests, InsertToken(r) PROVE Succession'
  <2>1. PICK t \in Tokens \ issued :
          /\ table' = table \union {[token |-> t, user |-> req[r].user, key |-> key,
                                     since |-> req[r].since]}
          /\ issued' = issued \union {t}
          /\ parent' = [parent EXCEPT ![t] = req[r].token]
    BY <1>8 DEF InsertToken
  <2>2. /\ req[r].user \in Users /\ req[r].user # Absent
        /\ \A s \in Requests : req'[s] = IF s = r THEN Idle ELSE req[s]
    BY <1>8 DEF InsertToken, Finish, TypeOK
  <2>3. /\ \A row \in table : row.token # t
        /\ \A s \in Requests : req[s].token # t
        /\ parent'[t] = req[r].token /\ \A s \in issued : parent'[s] = parent[s]
    BY <2>1 DEF Rotation, TokensIssued, TypeOK
  <2>4. OneOwner'
    <3>1. \A a, b \in table' : a.token = b.token => a.user = b.user
      BY <2>1, <2>3 DEF Succession, OneOwner
    <3>2. \A s \in Requests : req'[s].token # t
      BY <1>0, <2>1, <2>2, <2>3
    <3>3. \A s \in Requests : \A row \in table' :
             row.token = req'[s].token => row.user = req'[s].user
      <4> SUFFICES ASSUME NEW s \in Requests, NEW row \in table', row.token = req'[s].token
                   PROVE  row.user = req'[s].user
        OBVIOUS
      <4>1. row \in table /\ row.token \in Tokens
        BY <1>0, <2>1, <3>2 DEF Row
      <4>2. s # r
        BY <1>0, <2>2, <4>1
      <4> QED
        BY <2>2, <4>1, <4>2 DEF Succession, OneOwner
    <3>4. \A s, q \in Requests : req'[s].token = req'[q].token /\ req'[s].token # Absent
                                   => req'[s].user = req'[q].user
      BY <1>0, <2>2 DEF Succession, OneOwner
    <3> QED
      BY <3>1, <3>3, <3>4 DEF OneOwner
  <2>5. Alone'
    BY <1>0, <2>2 DEF Succession, Alone
  <2>6. Unspent'
    <3> SUFFICES ASSUME NEW s \in Requests, NEW c \in issued', parent'[c] = req'[s].token
                 PROVE  parent'[c] = Absent
      BY DEF Unspent
    <3>1. CASE s = r
      BY <1>0, <2>2, <3>1
    <3>2. CASE s # r /\ c = t
      <4>1. req[r].token = req[s].token
        BY <2>2, <2>3, <3>2
      <4> QED
        BY <2>2, <2>3, <3>2, <4>1 DEF Succession, OneOwner, Alone
    <3>3. CASE s # r /\ c \in issued
      BY <2>2, <2>3, <3>3 DEF Succession, Unspent
    <3> QED
      BY <2>1, <3>1, <3>2, <3>3
  <2>7. OneSuccessor'
    <3>1. \A c \in issued : parent'[c] = parent'[t] => parent'[t] = Absent
      BY <2>3 DEF Succession, Unspent
    <3> QED
      BY <2>1, <2>3, <3>1 DEF Succession, OneSuccessor
  <2> QED
    BY <2>4, <2>5, <2>6, <2>7 DEF Succession
<1>9. ASSUME NEW r \in Requests, InsertRefused(r) PROVE Succession'
  BY <1>4, <1>9 DEF InsertRefused
<1>10. ASSUME NEW r \in Requests, UpdatePassword(r) PROVE Succession'
  <2> DEFINE q == [req[r] EXCEPT !.next = "revoke", !.since = changes + 1]
  <2>0. changes + 1 \in Nat
    BY DEF TypeOK
  <2>1. q \in Request /\ q.user = req[r].user /\ q.token = req[r].token
    BY <1>0, <2>0 DEF Request
  <2>2. /\ req' = [req EXCEPT ![r] = q]
        /\ table' \subseteq table /\ UNCHANGED <<issued, parent>>
    BY <1>10 DEF UpdatePassword
  <2> HIDE DEF q
  <2> QED
    BY <2>1, <2>2, SuccessionKept
<1>11. ASSUME NEW r \in Requests, RevokeTokens(r) PROVE Succession'
  BY <1>4, <1>11 DEF RevokeTokens
<1>12. ASSUME table' \subseteq table, UNCHANGED <<req, issued, parent>> PROVE Succession'
  BY <1>12 DEF Succession, OneOwner, Alone, Unspent, OneSuccessor
<1>13. ASSUME NEW u \in Users, DeleteCredential(u) PROVE Succession'
  BY <1>12, <1>13 DEF DeleteCredential
<1>14. ASSUME NEW t \in Tokens, Expire(t) PROVE Succession'
  BY <1>12, <1>14 DEF Expire
<1>15. ASSUME NEW k \in Keys, Restart(k) PROVE Succession'
  <2>1. \A s \in Requests : req'[s].user = Absent /\ req'[s].token = Absent
    BY <1>0, <1>15 DEF Restart
  <2>2. UNCHANGED <<table, issued, parent>> /\ \A row \in table : row.token # Absent
    BY <1>0, <1>15 DEF Restart, Row
  <2> QED
    BY <2>1, <2>2 DEF Succession, OneOwner, Alone, Unspent, OneSuccessor
<1>16. CASE UNCHANGED vars
  BY <1>12, <1>16 DEF vars
<1> QED
  BY <1>1, <1>2, <1>3, <1>6, <1>7, <1>8, <1>9, <1>10, <1>11, <1>13, <1>14, <1>15, <1>16
     DEF Next

LEMMA SuccessionHolds == Exclusive => (Spec => []Succession)
<1> SUFFICES ASSUME Exclusive PROVE Spec => []Succession
  OBVIOUS
<1>1. TypeOK /\ Rotation /\ Succession /\ [Next]_vars => Succession'
  BY SuccessionStep
<1> QED
  BY <1>1, SuccessionInit, RotationInit, RotationStep, TypesCorrect, PTL DEF Spec

(* As long as an account's requests do not overlap, a refresh token is     *)
(* exchanged for one successor at most.                                    *)
THEOREM OneTokenOneSuccessor == Exclusive => (Spec => []OneSuccessor)
<1> SUFFICES ASSUME Exclusive PROVE Spec => []OneSuccessor
  OBVIOUS
<1>1. Spec => []Succession
  BY SuccessionHolds
<1>2. Succession => OneSuccessor
  BY DEF Succession
<1> QED
  BY <1>1, <1>2, PTL

-----------------------------------------------------------------------------
(* Password changes.                                                       *)

Changed == PasswordsOrdered /\ PasswordChangeEndsSessions

LEMMA ChangedInit == Init => Changed
BY SessionConstants DEF Init, Changed, PasswordsOrdered, PasswordChangeEndsSessions, Idle

(* Steps on nothing but requests, by which one request ends, goes on or    *)
(* begins with what it has just read.                                      *)
LEMMA ChangedKept ==
  ASSUME TypeOK, Changed, NEW r \in Requests, NEW q \in Request,
         req' = [req EXCEPT ![r] = q],
         \/ q.next = "idle"
         \/ q.next \notin {"idle", "revoke"} /\ acked[q.user] <= q.since,
         table' \subseteq table, UNCHANGED <<password, changes, acked>>
  PROVE  Changed'
<1>1. \A s \in Requests : req'[s] = IF s = r THEN q ELSE req[s]
  BY DEF TypeOK
<1>2. PasswordsOrdered'
  BY <1>1 DEF Changed, PasswordsOrdered
<1>3. PasswordChangeEndsSessions'
  BY DEF Changed, PasswordChangeEndsSessions
<1> QED
  BY <1>2, <1>3 DEF Changed

LEMMA ChangedStep == TypeOK /\ Alone /\ Changed /\ [Next]_vars => Changed'
<1> SUFFICES ASSUME TypeOK, Alone, Changed, [Next]_vars PROVE Changed'
  OBVIOUS
<1> USE SessionConstants
<1>0. /\ \A row \in table : row \in Row
      /\ \A r \in Requests : req[r] \in Request
      /\ Idle \in Request /\ Idle.next = "idle"
  BY IdleIsRequest DEF TypeOK
<1>1. ASSUME NEW r \in Requests, NEW u \in Users, Login(r, u) PROVE Changed'
  <2> DEFINE q == [next |-> "insert", user |-> u, token |-> Absent, since |-> password[u]]
  <2>1. q \in Request
    BY <1>1 DEF Login, TypeOK, Request
  <2>2. q.next = "insert" /\ acked[q.user] <= q.since
    BY <1>1 DEF Login, Changed, PasswordsOrdered
  <2>3. /\ req' = [req EXCEPT ![r] = q]
        /\ table' \subseteq table /\ UNCHANGED <<password, changes, acked>>
    BY <1>1 DEF Login
  <2> HIDE DEF q
  <2> QED
    BY <2>1, <2>2, <2>3, ChangedKept
<1>2. ASSUME NEW r \in Requests, NEW u \in Users, ChangePassword(r, u) PROVE Changed'
  <2> DEFINE q == [next |-> "update", user |-> u, token |-> Absent, since |-> password[u]]
  <2>1. q \in Request
    BY <1>2 DEF ChangePassword, TypeOK, Request
  <2>2. q.next = "update" /\ acked[q.user] <= q.since
    BY <1>2 DEF ChangePassword, Changed, PasswordsOrdered
  <2>3. /\ req' = [req EXCEPT ![r] = q]
        /\ table' \subseteq table /\ UNCHANGED <<password, changes, acked>>
    BY <1>2 DEF ChangePassword
  <2> HIDE DEF q
  <2> QED
    BY <2>1, <2>2, <2>3, ChangedKept
<1>3. ASSUME NEW r \in Requests, NEW row \in table, FindToken(r, row) PROVE Changed'
  <2> DEFINE q == [next |-> "find", user |-> row.user, token |-> row.token, since |-> row.since]
  <2>1. q \in Request
    BY <1>0 DEF Row, Request
  <2>2. q.next = "find" /\ acked[q.user] <= q.since
    BY <1>0 DEF Changed, PasswordChangeEndsSessions, Row, TypeOK
  <2>3. /\ req' = [req EXCEPT ![r] = q]
        /\ table' \subseteq table /\ UNCHANGED <<password, changes, acked>>
    BY <1>3 DEF FindToken
  <2> HIDE DEF q
  <2> QED
    BY <2>1, <2>2, <2>3, ChangedKept
<1>4. ASSUME NEW r \in Requests, Finish(r), table' \subseteq table,
             UNCHANGED <<password, changes, acked>>
      PROVE  Changed'
  BY <1>0, <1>4, ChangedKept DEF Finish
<1>5. ASSUME NEW r \in Requests, NEW n \in {"rotate", "insert"}, Proceed(r, n),
             req[r].next \in {"find", "rotate"},
             table' \subseteq table, UNCHANGED <<password, changes, acked>>
      PROVE  Changed'
  <2> DEFINE q == [req[r] EXCEPT !.next = n]
  <2>1. q \in Request /\ q.next = n
    BY <1>0 DEF Request
  <2>2. acked[q.user] <= q.since
    BY <1>5, <1>0 DEF Changed, PasswordsOrdered, Request
  <2>3. req' = [req EXCEPT ![r] = q]
    BY <1>5 DEF Proceed
  <2> HIDE DEF q
  <2> QED
    BY <1>5, <2>1, <2>2, <2>3, ChangedKept
<1>6. ASSUME NEW r \in Requests, FindAccount(r) PROVE Changed'
  BY <1>4, <1>5, <1>6 DEF FindAccount
<1>7. ASSUME NEW r \in Requests, DeleteOld(r) PROVE Changed'
  BY <1>5, <1>7 DEF DeleteOld
<1>8. ASSUME NEW r \in Requests, InsertToken(r) PROVE Changed'
  <2>1. PICK t \in Tokens : table' = table \union
          {[token |-> t, user |-> req[r].user, key |-> key, since |-> req[r].since]}
    BY <1>8 DEF InsertToken
  <2>2. acked[req[r].user] <= req[r].since /\ req[r].user \in Users
    BY <1>8 DEF InsertToken, Changed, PasswordsOrdered, TypeOK
  <2>3. acked[req[r].user] \in Nat /\ req[r].since \in Nat
    BY <1>0, <2>2 DEF TypeOK, Request
  <2>4. PasswordChangeEndsSessions'
    BY <1>8, <2>1, <2>2, <2>3 DEF InsertToken, Changed, PasswordChangeEndsSessions
  <2>5. UNCHANGED <<password, changes, acked>>
        /\ \A s \in Requests : req'[s] = IF s = r THEN Idle ELSE req[s]
    BY <1>8 DEF InsertToken, Finish, TypeOK
  <2>6. PasswordsOrdered'
    BY <1>0, <2>5 DEF Changed, PasswordsOrdered
  <2> QED
    BY <2>4, <2>6 DEF Changed
<1>9. ASSUME NEW r \in Requests, InsertRefused(r) PROVE Changed'
  BY <1>4, <1>9 DEF InsertRefused
<1>10. ASSUME NEW r \in Requests, UpdatePassword(r) PROVE Changed'
  <2> DEFINE u == req[r].user
             q == [req[r] EXCEPT !.next = "revoke", !.since = changes + 1]
  <2>1. /\ u \in Users /\ changes \in Nat /\ changes + 1 \in Nat
        /\ q.next = "revoke" /\ q.since = changes + 1 /\ q.user = u
    BY <1>0, <1>10 DEF UpdatePassword, TypeOK, Request
  <2>2. /\ \A s \in Requests : req'[s] = IF s = r THEN q ELSE req[s]
        /\ changes' = changes + 1
        /\ UNCHANGED <<table, acked>>
    BY <1>10 DEF UpdatePassword, TypeOK
  <2>3. \A v \in Users : /\ password'[v] = IF v = u /\ password[v] # Absent
                                           THEN changes + 1 ELSE password[v]
                         /\ password[v] \in Nat \union {Absent} /\ acked[v] \in Nat
    BY <1>10 DEF UpdatePassword, TypeOK
  <2> HIDE DEF u, q
  <2>4. \A v \in Users : password'[v] # Absent
                           => acked[v] <= password'[v] /\ password'[v] <= changes'
    BY <2>1, <2>2, <2>3 DEF Changed, PasswordsOrdered
  <2>5. \A s \in Requests : req'[s].next = "revoke" =>
           /\ req'[s].since <= changes'
           /\ password'[req'[s].user] # Absent => req'[s].since <= password'[req'[s].user]
    <3> SUFFICES ASSUME NEW s \in Requests, req'[s].next = "revoke"
                 PROVE  /\ req'[s].since <= changes'
                        /\ password'[req'[s].user] # Absent
                             => req'[s].since <= password'[req'[s].user]
      OBVIOUS
    <3>1. CASE s = r
      BY <2>1, <2>2, <2>3, <3>1
    <3>2. CASE s # r
      <4>1. req'[s] = req[s] /\ req[s].user \in Users /\ req[s].since \in Nat
        BY <1>0, <2>2, <3>2 DEF TypeOK, Request
      <4> QED
        BY <2>1, <2>2, <2>3, <4>1 DEF Changed, PasswordsOrdered
    <3> QED
      BY <3>1, <3>2
  <2>6. \A s \in Requests : req'[s].next \notin {"idle", "revoke"} =>
           acked'[req'[s].user] <= req'[s].since
    BY <2>1, <2>2 DEF Changed, PasswordsOrdered
  <2>7. PasswordsOrdered'
    BY <2>2, <2>4, <2>5, <2>6 DEF PasswordsOrdered
  <2>8. PasswordChangeEndsSessions'
    BY <2>2 DEF Changed, PasswordChangeEndsSessions
  <2> QED
    BY <2>7, <2>8 DEF Changed
<1>11. ASSUME NEW r \in Requests, RevokeTokens(r) PROVE Changed'
  <2> DEFINE u == req[r].user
  <2>1. /\ u \in Users /\ u # Absent /\ req[r].since \in Nat
        /\ req[r].next = "revoke"
    BY <1>0, <1>11 DEF RevokeTokens, TypeOK, Request
  <2>2. /\ \A s \in Requests : req'[s] = IF s = r THEN Idle ELSE req[s]
        /\ table' = table \ RowsOf(u)
        /\ UNCHANGED <<password, changes>>
    BY <1>11 DEF RevokeTokens, Finish, TypeOK
  <2>3. \A v \in Users : /\ acked[v] \in Nat
                         /\ acked'[v] = IF v = u /\ acked[v] < req[r].since
                                        THEN req[r].since ELSE acked[v]
    BY <1>11 DEF RevokeTokens, TypeOK
  <2>4. \A s \in Requests : s # r => req[s].user # u
    BY <2>1 DEF Alone
  <2> HIDE DEF u
  <2>5. \A v \in Users : password'[v] # Absent
                           => acked'[v] <= password'[v] /\ password'[v] <= changes'
    BY <2>1, <2>2, <2>3 DEF Changed, PasswordsOrdered, u
  <2>6. \A s \in Requests : req'[s].next = "revoke" =>
           /\ req'[s].since <= changes'
           /\ password'[req'[s].user] # Absent => req'[s].since <= password'[req'[s].user]
    BY <1>0, <2>2 DEF Changed, PasswordsOrdered
  <2>7. \A s \in Requests : req'[s].next \notin {"idle", "revoke"} =>
           acked'[req'[s].user] <= req'[s].since
    <3> SUFFICES ASSUME NEW s \in Requests, req'[s].next \notin {"idle", "revoke"}
                 PROVE  acked'[req'[s].user] <= req'[s].since
      OBVIOUS
    <3>1. s # r /\ req'[s] = req[s]
      BY <1>0, <2>2
    <3>2. req[s].user \in Users
      BY <3>1 DEF TypeOK
    <3> QED
      BY <2>3, <2>4, <3>1, <3>2 DEF Changed, PasswordsOrdered
  <2>8. PasswordsOrdered'
    BY <2>5, <2>6, <2>7 DEF PasswordsOrdered
  <2>9. PasswordChangeEndsSessions'
    <3> SUFFICES ASSUME NEW row \in table' PROVE row.since >= acked'[row.user]
      BY DEF PasswordChangeEndsSessions
    <3>1. row \in table /\ row.user # u /\ row.user \in Users
      BY <1>0, <2>2 DEF RowsOf, Row
    <3> QED
      BY <2>3, <3>1 DEF Changed, PasswordChangeEndsSessions
  <2> QED
    BY <2>8, <2>9 DEF Changed
<1>12. ASSUME NEW u \in Users, DeleteCredential(u) PROVE Changed'
  <2>1. /\ UNCHANGED <<req, changes, acked>> /\ table' \subseteq table
        /\ \A v \in Users : password'[v] = Absent \/ password'[v] = password[v]
    BY <1>12 DEF DeleteCredential, TypeOK
  <2>2. \A s \in Requests : req[s].next # "idle" => req[s].user \in Users
    BY DEF TypeOK
  <2>3. PasswordsOrdered'
    BY <2>1, <2>2 DEF Changed, PasswordsOrdered
  <2>4. PasswordChangeEndsSessions'
    BY <2>1 DEF Changed, PasswordChangeEndsSessions
  <2> QED
    BY <2>3, <2>4 DEF Changed
<1>13. ASSUME UNCHANGED <<req, table, password, changes, acked>> PROVE Changed'
  BY <1>13 DEF Changed, PasswordsOrdered, PasswordChangeEndsSessions
<1>14. ASSUME NEW t \in Tokens, Expire(t) PROVE Changed'
  BY <1>13, <1>14 DEF Expire
<1>15. ASSUME NEW k \in Keys, Restart(k) PROVE Changed'
  BY <1>0, <1>15 DEF Restart, Changed, PasswordsOrdered, PasswordChangeEndsSessions
<1>16. CASE UNCHANGED vars
  BY <1>13, <1>16 DEF vars
<1> QED
  BY <1>1, <1>2, <1>3, <1>6, <1>7, <1>8, <1>9, <1>10, <1>11, <1>12, <1>14, <1>15, <1>16
     DEF Next

(* As long as an account's requests do not overlap, no refresh token of a  *)
(* session that began with an earlier password is left when changePassword *)
(* has answered.                                                           *)
THEOREM PasswordChangeRevokes == Exclusive => (Spec => []PasswordChangeEndsSessions)
<1> SUFFICES ASSUME Exclusive PROVE Spec => []PasswordChangeEndsSessions
  OBVIOUS
<1>1. Spec => []Succession
  BY SuccessionHolds
<1>2. Succession => Alone
  BY DEF Succession
<1>3. Changed => PasswordChangeEndsSessions
  BY DEF Changed
<1> QED
  BY <1>1, <1>2, <1>3, ChangedInit, ChangedStep, TypesCorrect, PTL DEF Spec
=============================================================================
