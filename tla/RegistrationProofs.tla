-------------------------- MODULE RegistrationProofs --------------------------
(***************************************************************************)
(* Theorems about Registration, for every set of challenges, tokens and    *)
(* submissions, every expiry and every bound: its types, that a challenge  *)
(* is worth one attempt, and that a token is accepted once until its exp.  *)
(***************************************************************************)
EXTENDS Registration, TLAPS

-----------------------------------------------------------------------------
(* Types.  What a submission holds depends on where it is.                 *)

Sound(q) ==
  /\ q.at = "verify" => q.challenge \in Challenges
  /\ q.at = "register" => q.token \in Tokens
  /\ q.uses > 0 => q.token \in Tokens

TInv == TypeOK /\ \A s \in Submissions : Sound(sub[s])

LEMMA IdleIsSound == Idle \in Submission /\ Sound(Idle) /\ Idle.uses = 0 /\ Idle.token = Absent
BY DEF Idle, Submission, Sound

LEMMA TypesInit == Init => TInv
<1> SUFFICES ASSUME Init PROVE TInv
  OBVIOUS
<1>1. sub \in [Submissions -> Submission] /\ \A s \in Submissions : Sound(sub[s])
  BY IdleIsSound DEF Init
<1>2. page \in Page
  BY DEF Init, Page
<1>3. store \in [Challenges -> Int \union {Absent}] /\ used \in [Tokens -> Int \union {Absent}]
  BY DEF Init
<1>4. {clock, asked, faults} \subseteq Nat /\ tried \in SUBSET Challenges /\ coming \in SUBSET Challenges
  BY DEF Init
<1>5. keeper \in {"auth", "gateway"} /\ registered \in BOOLEAN
  BY DEF Init
<1> QED
  BY <1>1, <1>2, <1>3, <1>4, <1>5 DEF TInv, TypeOK

(* A submission that becomes sound leaves the submissions sound.           *)
LEMMA SubmissionBecomes ==
  ASSUME TInv, NEW s \in Submissions, NEW q \in Submission, Sound(q), Become(s, q)
  PROVE  /\ sub' \in [Submissions -> Submission]
         /\ \A r \in Submissions : Sound(sub'[r])
         /\ \A r \in Submissions : sub'[r] = IF r = s THEN q ELSE sub[r]
BY DEF TInv, TypeOK, Become

LEMMA FaultIsCounted == TypeOK /\ Fault => faults' \in Nat
BY DEF TypeOK, Fault

(* The ids that are drawn are there to be drawn.                           *)
LEMMA Drawn ==
  /\ Unheld # {} => (CHOOSE c \in Unheld : TRUE) \in Unheld
  /\ Unsigned # {} => (CHOOSE t \in Unsigned : TRUE) \in Unsigned
OBVIOUS

(* What VerifyChallenge makes of a submission.                             *)
LEMMA Verified ==
  ASSUME TInv, NEW s \in Submissions, VerifyChallenge(s)
  PROVE  \E q \in Submission :
           /\ Become(s, q) /\ Sound(q) /\ q.uses = 0
           /\ q.token \in Unsigned \union {Absent}
           /\ q.at = "register" => store[sub[s].challenge] # Absent
<1>1. sub[s] \in Submission /\ clock \in Nat /\ clock + TokenExpiry \in Int
  BY RegistrationConstants DEF TInv, TypeOK
<1> DEFINE t == CHOOSE t \in Unsigned : TRUE
           a == [Idle EXCEPT !.at = "register", !.exp = clock + TokenExpiry, !.token = t,
                             !.fit = sub[s].fit]
           b == [Idle EXCEPT !.at = "refused"]
<1>2. t \in Unsigned /\ t \in Tokens
  BY Drawn DEF VerifyChallenge, Unsigned
<1> HIDE DEF t
<1>3. a \in Submission /\ Sound(a) /\ a.uses = 0 /\ a.token = t
  BY <1>1, <1>2, IdleIsSound DEF Submission, Sound
<1>4. b \in Submission /\ Sound(b) /\ b.uses = 0 /\ b.token = Absent /\ b.at = "refused"
  BY IdleIsSound DEF Submission, Sound
<1>5. (Become(s, a) /\ store[sub[s].challenge] # Absent) \/ Become(s, b)
  BY DEF VerifyChallenge, t
<1> QED
  BY <1>2, <1>3, <1>4, <1>5

(* What Register makes of one.                                             *)
LEMMA Registered ==
  ASSUME TInv, NEW s \in Submissions, Register(s)
  PROVE  \E q \in Submission :
           /\ Become(s, q) /\ Sound(q)
           /\ q.token = sub[s].token /\ q.exp = sub[s].exp
           /\ q.at \in {"created", "refused"}
           /\ IF ~Expired(sub[s].exp) /\ Pruned[sub[s].token] = Absent
              THEN /\ q.uses = Least(sub[s].uses + 1, 2)
                   /\ q.late = (sub[s].late \/ clock >= sub[s].exp)
              ELSE q.uses = sub[s].uses /\ q.late = sub[s].late
<1> DEFINE ok == ~Expired(sub[s].exp) /\ Pruned[sub[s].token] = Absent
           at == IF ok /\ sub[s].fit /\ ~registered THEN "created" ELSE "refused"
           q == [sub[s] EXCEPT !.at = at,
                               !.uses = IF ok THEN Least(@ + 1, 2) ELSE @,
                               !.late = @ \/ (ok /\ clock >= sub[s].exp)]
<1>1. sub[s] \in Submission /\ sub[s].token \in Tokens /\ Sound(sub[s])
  BY DEF TInv, TypeOK, Register, Sound
<1>2. Become(s, q)
  BY DEF Register
<1>3. q.at \in {"created", "refused"}
  BY <1>1 DEF Submission
<1>4. q.uses = (IF ok THEN Least(sub[s].uses + 1, 2) ELSE sub[s].uses) /\ q.uses \in 0 .. 2
  BY <1>1 DEF Submission, Least
<1>5. q.late = (sub[s].late \/ (ok /\ clock >= sub[s].exp)) /\ q.late \in BOOLEAN
  BY <1>1, Zenon DEF Submission
<1>6. q \in Submission /\ Sound(q) /\ q.token = sub[s].token /\ q.exp = sub[s].exp
  BY <1>1, <1>3, <1>4, <1>5 DEF Submission, Sound
<1>7. sub[s].late \in BOOLEAN
  BY <1>1 DEF Submission
<1> HIDE DEF q, at
<1>8. IF ok THEN q.uses = Least(sub[s].uses + 1, 2) /\ q.late = (sub[s].late \/ clock >= sub[s].exp)
            ELSE q.uses = sub[s].uses /\ q.late = sub[s].late
  BY <1>4, <1>5, <1>7
<1> QED
  BY <1>2, <1>3, <1>6, <1>8

THEOREM TypesStep == TInv /\ [Next]_vars => TInv'
<1> SUFFICES ASSUME TInv, [Next]_vars PROVE TInv'
  OBVIOUS
<1> USE RegistrationConstants
<1>0. TypeOK /\ (Fault => faults' \in Nat)
  BY FaultIsCounted DEF TInv
\* A submission moves, and the rest stays typed.
<1>1. ASSUME NEW s \in Submissions, NEW q \in Submission, Sound(q), Become(s, q),
             {clock', asked', faults'} \subseteq Nat,
             store' \in [Challenges -> Int \union {Absent}], tried' \in SUBSET Challenges,
             used' \in [Tokens -> Int \union {Absent}], registered' \in BOOLEAN,
             page' \in Page, coming' \in SUBSET Challenges, UNCHANGED keeper
      PROVE  TInv'
  BY <1>0, <1>1, SubmissionBecomes DEF TInv, TypeOK
\* None does.
<1>2. ASSUME UNCHANGED sub,
             {clock', asked', faults'} \subseteq Nat,
             store' \in [Challenges -> Int \union {Absent}], tried' \in SUBSET Challenges,
             page' \in Page, coming' \in SUBSET Challenges, UNCHANGED <<keeper, used, registered>>
      PROVE  TInv'
  BY <1>0, <1>2 DEF TInv, TypeOK
<1>3. CASE GenerateChallenge
  <2> DEFINE c == CHOOSE c \in Unheld : TRUE
  <2>1. c \in Challenges
    BY <1>3, Drawn DEF GenerateChallenge, Unheld
  <2> HIDE DEF c
  <2>2. store' = [store EXCEPT ![c] = clock + ChallengeTtl] /\ tried' = tried \ {c}
        /\ coming' = coming \union {c} /\ asked > 0 /\ asked' = asked - 1
    BY <1>3 DEF GenerateChallenge, c
  <2> QED
    BY <1>0, <1>2, <1>3, <2>1, <2>2 DEF GenerateChallenge, TypeOK
<1>4. ASSUME NEW s \in Submissions, VerifyChallenge(s) PROVE TInv'
  <2>1. PICK q \in Submission : Become(s, q) /\ Sound(q)
    BY <1>4, Verified
  <2>2. sub[s].challenge \in Challenges
    BY <1>4 DEF VerifyChallenge, TInv, Sound
  <2>3. store' \in [Challenges -> Int \union {Absent}] /\ tried' \in SUBSET Challenges
    BY <1>0, <1>4, <2>2 DEF VerifyChallenge, Consumed, TypeOK
  <2> QED
    BY <1>0, <1>1, <1>4, <2>1, <2>3 DEF VerifyChallenge, TypeOK
<1>5. ASSUME NEW s \in Submissions, Register(s) PROVE TInv'
  <2>1. PICK q \in Submission : Become(s, q) /\ Sound(q)
    BY <1>5, Registered
  <2>2. sub[s].token \in Tokens /\ sub[s].exp \in Int
    BY <1>0, <1>5 DEF Register, TInv, TypeOK, Sound, Submission
  <2>3. Pruned \in [Tokens -> Int \union {Absent}]
    BY <1>0 DEF Pruned, TypeOK
  <2>4. used' \in [Tokens -> Int \union {Absent}]
    BY <1>0, <1>5, <2>2, <2>3 DEF Register, TypeOK
  <2>5. registered' \in BOOLEAN
    BY <1>0, <1>5, Zenon DEF Register, TypeOK
  <2> QED
    BY <1>0, <1>1, <1>5, <2>1, <2>4, <2>5 DEF Register, TypeOK
<1>6. ASSUME NEW c \in Challenges, ShowChallenge(c) PROVE TInv'
  <2>1. page' \in Page
    BY <1>0, <1>6 DEF ShowChallenge, TypeOK, Page
  <2> QED
    BY <1>0, <1>2, <1>6, <2>1 DEF ShowChallenge, services, TypeOK
<1>7. CASE NewCaptcha
  BY <1>0, <1>2, <1>7 DEF NewCaptcha, services, TypeOK
<1>8. CASE TypeAnswer \/ Misread
  <2>1. page' \in Page
    BY <1>0, <1>8 DEF TypeAnswer, Misread, TypeOK, Page
  <2> QED
    BY <1>0, <1>2, <1>8, <2>1 DEF TypeAnswer, Misread, services, TypeOK
<1>9. ASSUME NEW s \in Submissions, NEW fit \in BOOLEAN, Submit(s, fit) PROVE TInv'
  <2> DEFINE q == [Idle EXCEPT !.at = "verify", !.challenge = page.shown,
                               !.answer = page.typed, !.fit = fit]
  <2>1. page.shown \in Challenges /\ page.typed \in Challenges \union {Wrong}
    BY <1>0, <1>9 DEF Submit, TypeOK, Page
  <2>2. q \in Submission /\ Sound(q)
    BY <2>1, IdleIsSound DEF Submission, Sound
  <2> HIDE DEF q
  <2>3. Become(s, q)
    BY <1>9 DEF Submit, q
  <2> QED
    BY <1>0, <1>1, <1>9, <2>2, <2>3 DEF Submit, services, TypeOK
<1>10. ASSUME NEW s \in Submissions, Apologise(s), faults' \in Nat PROVE TInv'
  <2>1. asked' \in Nat
    BY <1>0, <1>10 DEF Apologise, Least, TypeOK
  <2> QED
    BY <1>0, <1>1, <1>10, <2>1, IdleIsSound DEF Apologise, services, TypeOK
<1>11. ASSUME NEW s \in Submissions, Refused(s) \/ CallLost(s) PROVE TInv'
  BY <1>0, <1>10, <1>11 DEF Refused, CallLost, TypeOK
<1>12. ASSUME NEW s \in Submissions, Created(s) PROVE TInv'
  <2>1. page' \in Page
    BY <1>0, <1>12 DEF Created, TypeOK, Page
  <2> QED
    BY <1>0, <1>1, <1>12, <2>1, IdleIsSound DEF Created, services, TypeOK
<1>13. ASSUME NEW s \in Submissions, Resend(s) PROVE TInv'
  <2> DEFINE q == [sub[s] EXCEPT !.at = "register"]
  <2>1. sub[s] \in Submission /\ sub[s].token # Absent /\ Sound(sub[s])
    BY <1>0, <1>13 DEF Resend, TInv, TypeOK
  <2>2. q \in Submission /\ Sound(q)
    BY <2>1 DEF Submission, Sound
  <2> HIDE DEF q
  <2>3. Become(s, q)
    BY <1>13 DEF Resend, q
  <2> QED
    BY <1>0, <1>1, <1>13, <2>2, <2>3 DEF Resend, services, TypeOK
<1>14. CASE CleanUp \/ RestartCaptcha
  <2>1. store' \in [Challenges -> Int \union {Absent}]
    BY <1>0, <1>14 DEF CleanUp, RestartCaptcha, TypeOK
  <2> QED
    BY <1>0, <1>2, <1>14, <2>1 DEF CleanUp, RestartCaptcha, TypeOK
<1>15. CASE LoadLost
  BY <1>0, <1>2, <1>15 DEF LoadLost, services, TypeOK
<1>16. CASE RestartKeeper
  <2>1. \A s \in Submissions :
           [sub[s] EXCEPT !.uses = 0] \in Submission /\ Sound([sub[s] EXCEPT !.uses = 0])
    BY <1>0 DEF TInv, TypeOK, Submission, Sound
  <2>2. sub' \in [Submissions -> Submission] /\ \A s \in Submissions : Sound(sub'[s])
    BY <1>16, <2>1 DEF RestartKeeper
  <2> QED
    BY <1>0, <1>16, <2>2 DEF RestartKeeper, TInv, TypeOK
<1>17. CASE Tick
  BY <1>0, <1>2, <1>17 DEF Tick, services, TypeOK
<1>18. CASE UNCHANGED vars
  BY <1>0, <1>2, <1>18 DEF vars, services, TypeOK
<1> QED
  BY <1>3, <1>4, <1>5, <1>6, <1>7, <1>8, <1>9, <1>11, <1>12, <1>13, <1>14, <1>15, <1>16, <1>17,
     <1>18 DEF Next

(* Registration's state is typed.                                          *)
THEOREM TypesCorrect == Spec => []TypeOK
<1>1. TInv => TypeOK
  BY DEF TInv
<1> QED
  BY <1>1, TypesInit, TypesStep, PTL DEF Spec

LEMMA TypeInvariant == Spec => []TInv
BY TypesInit, TypesStep, PTL DEF Spec

-----------------------------------------------------------------------------
(* Challenges.  What was tried is gone from the store, whatever became of  *)
(* the attempt, until its id is drawn for a challenge of its own.          *)

TriedAreGone == \A c \in tried : store[c] = Absent

LEMMA TriedInit == Init => TriedAreGone
BY DEF Init, TriedAreGone

LEMMA TriedStep == TInv /\ TriedAreGone /\ [Next]_vars => TriedAreGone'
<1> SUFFICES ASSUME TInv, TriedAreGone, [Next]_vars PROVE TriedAreGone'
  OBVIOUS
<1>1. CASE GenerateChallenge
  <2> DEFINE c == CHOOSE c \in Unheld : TRUE
  <2>1. c \in Challenges
    BY <1>1, Drawn DEF GenerateChallenge, Unheld
  <2> HIDE DEF c
  <2>2. store' = [store EXCEPT ![c] = clock + ChallengeTtl] /\ tried' = tried \ {c}
    BY <1>1 DEF GenerateChallenge, c
  <2> QED
    BY <2>1, <2>2 DEF TriedAreGone, TInv, TypeOK
<1>2. ASSUME NEW s \in Submissions, VerifyChallenge(s) PROVE TriedAreGone'
  <2>1. sub[s].challenge \in Challenges
    BY <1>2 DEF VerifyChallenge, TInv, Sound
  <2> QED
    BY <1>2, <2>1 DEF VerifyChallenge, Consumed, TriedAreGone, TInv, TypeOK
<1>3. CASE CleanUp \/ RestartCaptcha
  BY <1>3 DEF CleanUp, RestartCaptcha, TriedAreGone, TInv, TypeOK
<1>4. CASE UNCHANGED <<store, tried>>
  BY <1>4 DEF TriedAreGone
<1>5. \/ GenerateChallenge \/ \E s \in Submissions : VerifyChallenge(s)
      \/ CleanUp \/ RestartCaptcha \/ UNCHANGED <<store, tried>>
  BY DEF Next, Register, ShowChallenge, NewCaptcha, TypeAnswer, Misread, Submit, Refused, CallLost,
         Apologise, Created, Resend, LoadLost, RestartKeeper, Tick, services, vars
<1> QED
  BY <1>1, <1>2, <1>3, <1>4, <1>5

(* verifyChallenge signs only what it still finds in the store.            *)
LEMMA OnlyFoundIsSigned ==
  ASSUME TInv, [Next]_vars, NEW s \in Submissions,
         sub[s].at = "verify", sub'[s].at = "register"
  PROVE  store[sub[s].challenge] # Absent /\ sub[s].challenge \in Challenges
<1> USE DEF TInv
<1>1. \A r \in Submissions : sub[r] \in Submission
  BY DEF TypeOK
<1>2. ASSUME NEW r \in Submissions, NEW q \in Submission, Become(r, q), Sound(q),
             q.at # "register" \/ sub[r].at # "verify"
      PROVE  FALSE
  BY <1>2, SubmissionBecomes
<1>3. ASSUME NEW r \in Submissions, VerifyChallenge(r)
      PROVE  store[sub[s].challenge] # Absent
  <2>1. PICK q \in Submission : /\ Become(r, q) /\ Sound(q)
                                /\ q.at = "register" => store[sub[r].challenge] # Absent
    BY <1>3, Verified
  <2> QED
    BY <1>2, <2>1, SubmissionBecomes
<1>4. ASSUME NEW r \in Submissions, Register(r) PROVE FALSE
  BY <1>2, <1>4, Registered
<1>5. ASSUME NEW r \in Submissions, Become(r, Idle) PROVE FALSE
  BY <1>2, <1>5, IdleIsSound DEF Idle
<1>6. ASSUME NEW r \in Submissions, NEW fit \in BOOLEAN, Submit(r, fit) PROVE FALSE
  <2> DEFINE q == [Idle EXCEPT !.at = "verify", !.challenge = page.shown,
                               !.answer = page.typed, !.fit = fit]
  <2>1. q.at = "verify"
    BY DEF Idle
  <2>2. sub' = [sub EXCEPT ![r] = q]
    BY <1>6 DEF Submit, Become
  <2> HIDE DEF q
  <2> QED
    BY <2>1, <2>2 DEF TypeOK
<1>7. ASSUME NEW r \in Submissions, Resend(r) PROVE FALSE
  BY <1>7 DEF Resend, Become, TypeOK
<1>8. CASE RestartKeeper
  BY <1>1, <1>8 DEF RestartKeeper, Submission
<1>9. sub[s].challenge \in Challenges
  BY DEF Sound
<1>10. \/ sub' = sub \/ RestartKeeper
       \/ \E r \in Submissions :
            \/ VerifyChallenge(r) \/ Register(r) \/ Become(r, Idle) \/ Resend(r)
            \/ \E fit \in BOOLEAN : Submit(r, fit)
  BY DEF Next, GenerateChallenge, CleanUp, RestartCaptcha, ShowChallenge, NewCaptcha, TypeAnswer,
         Misread, Refused, CallLost, Apologise, Created, LoadLost, Tick, services, vars
<1> QED
  BY <1>3, <1>4, <1>5, <1>6, <1>7, <1>8, <1>9, <1>10

(* A challenge is worth one attempt, right or wrong, through any overlap,  *)
(* expiry and restart.                                                     *)
THEOREM OneAttemptEach == Spec => OneAttempt
<1>1. TInv /\ TriedAreGone /\ [Next]_vars =>
        [\A s \in Submissions :
           sub[s].at = "verify" /\ sub'[s].at = "register" => sub[s].challenge \notin tried]_vars
  BY OnlyFoundIsSigned DEF TriedAreGone
<1> QED
  BY <1>1, TriedInit, TriedStep, TypeInvariant, PTL DEF Spec, OneAttempt

-----------------------------------------------------------------------------
(* Tokens.  No two submissions have the same, and the keeper remembers one *)
(* it has accepted at least until its exp.                                 *)

TokensApart ==
  \A r, s \in Submissions : sub[r].token = sub[s].token /\ sub[r].token # Absent => r = s

Remembered ==
  \A s \in Submissions :
    sub[s].uses > 0 /\ clock < sub[s].exp => used[sub[s].token] = sub[s].exp

UInv == TokensApart /\ Remembered /\ UsedOnceWhileValid

LEMMA UsesInit == Init => UInv
BY DEF Init, Idle, UInv, TokensApart, Remembered, UsedOnceWhileValid

(* A submission that starts anew, with a token of nobody's or none.        *)
LEMMA FreshKeepsUses ==
  ASSUME TInv, UInv, NEW s \in Submissions, NEW q \in Submission, Become(s, q), Sound(q),
         q.uses = 0, q.token \in Unsigned \union {Absent}, UNCHANGED <<clock, used>>
  PROVE  UInv'
<1>1. \A r \in Submissions : sub'[r] = IF r = s THEN q ELSE sub[r]
  BY SubmissionBecomes
<1>2. TokensApart'
  BY <1>1 DEF UInv, TokensApart, Unsigned
<1>3. Remembered'
  BY <1>1 DEF UInv, Remembered
<1>4. UsedOnceWhileValid'
  BY <1>1 DEF UInv, UsedOnceWhileValid
<1> QED
  BY <1>2, <1>3, <1>4 DEF UInv

LEMMA RegisterKeepsUses ==
  ASSUME TInv, UInv, NEW s \in Submissions, Register(s)
  PROVE  UInv'
<1> USE DEF TInv
<1>1. PICK q \in Submission :
        /\ Become(s, q) /\ Sound(q) /\ q.token = sub[s].token /\ q.exp = sub[s].exp
        /\ IF ~Expired(sub[s].exp) /\ Pruned[sub[s].token] = Absent
           THEN /\ q.uses = Least(sub[s].uses + 1, 2)
                /\ q.late = (sub[s].late \/ clock >= sub[s].exp)
           ELSE q.uses = sub[s].uses /\ q.late = sub[s].late
  BY Registered
<1>2. \A r \in Submissions : sub'[r] = IF r = s THEN q ELSE sub[r]
  BY <1>1, SubmissionBecomes
<1>3. /\ clock \in Nat /\ used \in [Tokens -> Int \union {Absent}]
      /\ \A r \in Submissions : sub[r] \in Submission /\ Sound(sub[r])
  BY DEF TypeOK
<1>4. sub[s].token \in Tokens /\ sub[s].token # Absent
  BY <1>3, RegistrationConstants DEF Register, Sound
<1>5. \A t \in Tokens : used[t] # Absent /\ used[t] > clock => Pruned[t] = used[t]
  BY <1>3 DEF Pruned
<1>6. used' = IF Expired(sub[s].exp) THEN used ELSE [Pruned EXCEPT ![sub[s].token] = sub[s].exp]
  BY DEF Register
<1>7. Pruned \in [Tokens -> Int \union {Absent}] /\ UNCHANGED clock
  BY <1>3 DEF Pruned, Register
<1>8. TokensApart'
  BY <1>1, <1>2 DEF UInv, TokensApart
<1>9. ASSUME NEW r \in Submissions, sub'[r].uses > 0, clock' < sub'[r].exp
      PROVE  used'[sub'[r].token] = sub'[r].exp
  <2>1. CASE r = s /\ ~Expired(sub[s].exp)
    BY <1>1, <1>2, <1>4, <1>6, <1>7, <2>1
  <2>2. CASE r = s /\ Expired(sub[s].exp)
    BY <1>1, <1>2, <1>6, <1>7, <1>9, <2>2 DEF UInv, Remembered
  <2>3. CASE r # s
    <3>1. sub'[r] = sub[r] /\ sub[r].token \in Tokens /\ sub[r].exp \in Int
      BY <1>2, <1>3, <1>9, <2>3 DEF Sound, Submission
    <3>2. used[sub[r].token] = sub[r].exp /\ sub[r].exp > clock
      BY <1>7, <1>9, <3>1 DEF UInv, Remembered
    <3>3. sub[r].token # sub[s].token
      BY <1>4, <2>3 DEF UInv, TokensApart
    <3>4. Pruned[sub[r].token] = sub[r].exp
      BY <1>5, <3>1, <3>2, RegistrationConstants
    <3> QED
      BY <1>4, <1>6, <1>7, <3>1, <3>2, <3>3, <3>4
  <2> QED
    BY <2>1, <2>2, <2>3
<1>10. ASSUME NEW r \in Submissions, sub'[r].uses > 1 PROVE sub'[r].late
  <2>1. CASE r # s
    BY <1>2, <1>10, <2>1 DEF UInv, UsedOnceWhileValid
  <2>2. CASE r = s /\ sub[s].uses > 1
    <3>1. sub[s].late
      BY <2>2 DEF UInv, UsedOnceWhileValid
    <3> QED
      BY <1>1, <1>2, <2>2, <3>1
  <2>3. CASE r = s /\ ~(sub[s].uses > 1)
    <3>1. /\ q.uses > 1 /\ sub[s].uses \in 0 .. 2 /\ sub[s].exp \in Int
      BY <1>2, <1>3, <1>10, <2>3 DEF Submission
    <3>2. /\ ~Expired(sub[s].exp) /\ Pruned[sub[s].token] = Absent
          /\ q.late = (sub[s].late \/ clock >= sub[s].exp) /\ sub[s].uses > 0
      BY <1>1, <2>3, <3>1 DEF Least
    <3>3. ~(clock < sub[s].exp)
      BY <1>4, <1>5, <3>1, <3>2, RegistrationConstants DEF UInv, Remembered
    <3>4. clock >= sub[s].exp
      BY <1>3, <3>1, <3>3
    <3>5. q.late
      BY <3>2, <3>4, Zenon
    <3> QED
      BY <1>2, <2>3, <3>5
  <2> QED
    BY <2>1, <2>2, <2>3
<1> QED
  BY <1>8, <1>9, <1>10 DEF UInv, Remembered, UsedOnceWhileValid

LEMMA UsesStep == TInv /\ UInv /\ [Next]_vars => UInv'
<1> SUFFICES ASSUME TInv, UInv, [Next]_vars PROVE UInv'
  OBVIOUS
<1>0. clock \in Nat /\ \A s \in Submissions : sub[s] \in Submission /\ Sound(sub[s])
  BY DEF TInv, TypeOK
<1>1. ASSUME NEW s \in Submissions, VerifyChallenge(s) PROVE UInv'
  BY <1>1, Verified, FreshKeepsUses DEF VerifyChallenge
<1>2. ASSUME NEW s \in Submissions, Become(s, Idle), UNCHANGED <<clock, used>> PROVE UInv'
  BY <1>2, IdleIsSound, FreshKeepsUses
<1>3. ASSUME NEW s \in Submissions, NEW fit \in BOOLEAN, Submit(s, fit) PROVE UInv'
  <2> DEFINE q == [Idle EXCEPT !.at = "verify", !.challenge = page.shown,
                               !.answer = page.typed, !.fit = fit]
  <2>1. page.shown \in Challenges /\ page.typed \in Challenges \union {Wrong}
    BY <1>3 DEF Submit, TInv, TypeOK, Page
  <2>2. q \in Submission /\ Sound(q) /\ q.uses = 0 /\ q.token = Absent
    BY <2>1, IdleIsSound DEF Submission, Sound
  <2> HIDE DEF q
  <2>3. Become(s, q) /\ UNCHANGED <<clock, used>>
    BY <1>3 DEF Submit, services, q
  <2> QED
    BY <2>2, <2>3, FreshKeepsUses
<1>4. ASSUME NEW s \in Submissions, Resend(s) PROVE UInv'
  <2>1. \A r \in Submissions :
          sub'[r].token = sub[r].token /\ sub'[r].exp = sub[r].exp
            /\ sub'[r].uses = sub[r].uses /\ sub'[r].late = sub[r].late
    BY <1>0, <1>4 DEF Resend, Become, TInv, TypeOK, Submission
  <2>2. UNCHANGED <<clock, used>>
    BY <1>4 DEF Resend, services
  <2> QED
    BY <2>1, <2>2 DEF UInv, TokensApart, Remembered, UsedOnceWhileValid
<1>5. CASE RestartKeeper
  <2>1. \A r \in Submissions : sub'[r].token = sub[r].token /\ sub'[r].uses = 0
    BY <1>0, <1>5 DEF RestartKeeper, Submission
  <2> QED
    BY <2>1 DEF UInv, TokensApart, Remembered, UsedOnceWhileValid
<1>6. CASE Tick
  BY <1>0, <1>6 DEF Tick, services, UInv, TokensApart, Remembered, UsedOnceWhileValid, Submission
<1>7. CASE UNCHANGED <<clock, used, sub>>
  BY <1>7 DEF UInv, TokensApart, Remembered, UsedOnceWhileValid
<1>8. \/ UNCHANGED <<clock, used, sub>> \/ RestartKeeper \/ Tick
      \/ \E s \in Submissions :
           \/ VerifyChallenge(s) \/ Register(s) \/ Resend(s)
           \/ Become(s, Idle) /\ UNCHANGED <<clock, used>>
           \/ \E fit \in BOOLEAN : Submit(s, fit)
  BY DEF Next, GenerateChallenge, CleanUp, RestartCaptcha, ShowChallenge, NewCaptcha, TypeAnswer,
         Misread, Refused, CallLost, Apologise, Created, LoadLost, services, vars
<1> QED
  BY <1>1, <1>2, <1>3, <1>4, <1>5, <1>6, <1>7, <1>8, RegisterKeepsUses

(* Until its exp a token is accepted once, by whichever process checks     *)
(* tokens, however often the call comes, and with any leeway.              *)
THEOREM TokensAreSpent == Spec => []UsedOnceWhileValid
<1>1. UInv => UsedOnceWhileValid
  BY DEF UInv
<1> QED
  BY <1>1, UsesInit, UsesStep, TypeInvariant, PTL DEF Spec
=============================================================================
