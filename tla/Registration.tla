----------------------------- MODULE Registration -----------------------------
(***************************************************************************)
(* How a newcomer gets an account: the page that asks for it               *)
(* (services/frontend/src/pages/RegisterPage.tsx), the challenges of       *)
(* captcha-service (services/captcha/src), and the check of the token they *)
(* are exchanged for, which the gateway (crates/gateway) makes where it    *)
(* stands in front, and auth-service where the mesh routes to it.          *)
(*                                                                         *)
(* One newcomer, one page.  Nothing disables its button, so submissions    *)
(* overlap.  An answer is the challenge whose characters it spells, in     *)
(* whatever case, as both sides are put in lower case; the drawing shows   *)
(* all of them.  Time is one clock in units of the clean-up interval.      *)
(***************************************************************************)
EXTENDS Integers, FiniteSets

CONSTANTS
  Challenges,    \* the ids of challenges; one that nobody holds any more is drawn again
  Tokens,        \* the jtis of captcha tokens, likewise
  Submissions,   \* slots for runs of handleSubmit
  Absent,        \* no entry, no picture, no answer
  Wrong,         \* an answer that spells no challenge
  ChallengeTtl,  \* config.challengeTtlMs
  TokenExpiry,   \* config.tokenExpirySeconds
  Leeway,        \* how long after exp the gateway's decoder still accepts a token
  MaxTime,       \* bound: the clock
  MaxLoads,      \* bound: challenges asked for and not yet made
  MaxFaults      \* bound: lost calls, calls sent twice, restarts, and the newcomer's
                 \* slips: misreading, filling in what is refused, pressing twice

ASSUME RegistrationConstants ==
  /\ Absent \notin Challenges \union Tokens \union {Wrong} \union Int
  /\ Wrong \notin Challenges
  /\ {ChallengeTtl, TokenExpiry, Leeway, MaxTime, MaxLoads, MaxFaults} \subseteq Nat

VARIABLES
  clock,
  store,       \* captcha-service's challenges, in memory: when each expires
  tried,       \* the challenges attempted so far (history)
  keeper,      \* which process checks tokens
  used,        \* the ids it remembers, in memory, until when
  registered,  \* does the newcomer have a credential?
  page,        \* the state of RegisterPage
  asked,       \* calls of loadCaptcha that captcha-service has not seen yet
  coming,      \* challenges on their way to the page
  sub,         \* runs of handleSubmit
  faults

services == <<store, tried, keeper, used, registered>>
vars == <<clock, services, page, asked, coming, sub, faults>>

Page == [at : {"form", "login"}, shown : Challenges \union {Absent},
         typed : Challenges \union {Wrong, Absent}]

(***************************************************************************)
(* A run of handleSubmit.                                                  *)
(*   at      the call it waits for, or the answer it will get              *)
(*   fit     will auth-service take the rest of the form?                  *)
(*   token   the jti of its captcha token, which expires at exp            *)
(*   uses    how often the keeper running now accepted it (history; 2      *)
(*           stands for more), and did it ever at exp or later?            *)
(***************************************************************************)
Submission == [at : {"idle", "verify", "register", "created", "refused"},
               challenge : Challenges \union {Absent},
               answer : Challenges \union {Wrong, Absent},
               fit : BOOLEAN, token : Tokens \union {Absent}, exp : Int,
               uses : 0 .. 2, late : BOOLEAN]

Idle == [at |-> "idle", challenge |-> Absent, answer |-> Absent, fit |-> TRUE,
         token |-> Absent, exp |-> 0, uses |-> 0, late |-> FALSE]

Init ==
  /\ clock = 0
  /\ store = [c \in Challenges |-> Absent]
  /\ tried = {}
  /\ keeper \in {"auth", "gateway"}
  /\ used = [t \in Tokens |-> Absent]
  /\ registered = FALSE
  /\ page = [at |-> "form", shown |-> Absent, typed |-> Absent]
  /\ asked = 1                                    \* useEffect
  /\ coming = {}
  /\ sub = [s \in Submissions |-> Idle]
  /\ faults = 0

Least(a, b) == IF a < b THEN a ELSE b

Fault == faults < MaxFaults /\ faults' = faults + 1

Become(s, new) == sub' = [sub EXCEPT ![s] = new]

-----------------------------------------------------------------------------
(* captcha-service.                                                        *)

\* Ids that only captcha-service may still know: crypto.randomUUID() returns none that
\* anybody else holds.
Unheld == {c \in Challenges : /\ c \notin coming \union {page.shown, page.typed}
                              /\ \A s \in Submissions : c # sub[s].challenge}

GenerateUnasked ==                  \* mutant: an answer nobody waits for
  /\ Unheld # {}
  /\ coming' = coming \union {CHOOSE c \in Unheld : TRUE}
  /\ asked' = asked - 1
  /\ UNCHANGED <<clock, services, page, sub, faults>>

GenerateChallenge ==
  /\ asked > 0 /\ Unheld # {}
  /\ LET c == CHOOSE c \in Unheld : TRUE IN
       /\ store' = [store EXCEPT ![c] = clock + ChallengeTtl]
       /\ tried' = tried \ {c}
       /\ coming' = coming \union {c}
  /\ asked' = asked - 1
  /\ UNCHANGED <<clock, keeper, used, registered, page, sub, faults>>

ConsumedIfRight(c, right) == IF right THEN [store EXCEPT ![c] = Absent] ELSE store    \* mutant

\* What the store holds after verifyChallenge has looked c up.
Consumed(c, right) == [store EXCEPT ![c] = Absent]

\* Fresh jtis, likewise.
Unsigned == {t \in Tokens : used[t] = Absent /\ \A s \in Submissions : sub[s].token # t}

VerifyChallenge(s) ==
  LET q == sub[s]
      c == q.challenge
      right == q.answer = c
  IN /\ q.at = "verify" /\ Unsigned # {}
     /\ store' = Consumed(c, right)
     /\ tried' = tried \union {c}
     /\ Become(s, IF right /\ store[c] # Absent /\ ~(clock > store[c])
                  THEN [Idle EXCEPT !.at = "register", !.exp = clock + TokenExpiry,
                                    !.token = CHOOSE t \in Unsigned : TRUE, !.fit = q.fit]
                  ELSE [Idle EXCEPT !.at = "refused"])
     /\ UNCHANGED <<clock, keeper, used, registered, page, asked, coming, faults>>

\* The interval of startCleanupInterval.
CleanUp ==
  /\ \E c \in Challenges : store[c] # Absent /\ clock > store[c]
  /\ store' = [c \in Challenges |->
                 IF store[c] # Absent /\ clock > store[c] THEN Absent ELSE store[c]]
  /\ UNCHANGED <<clock, tried, keeper, used, registered, page, asked, coming, sub, faults>>

-----------------------------------------------------------------------------
(* The check of the token, and register behind it.                         *)

\* verifyCaptchaToken refuses after exp, the gateway's decoder after exp and its leeway.
Expired(exp) == IF keeper = "auth" THEN exp < clock ELSE exp < clock - Leeway

PrunedEarly ==                      \* mutant: a unit before exp
  [t \in Tokens |-> IF used[t] # Absent /\ used[t] <= clock + 1 THEN Absent ELSE used[t]]

\* The ids still remembered once those whose exp has come are pruned.
Pruned == [t \in Tokens |-> IF used[t] # Absent /\ used[t] <= clock THEN Absent ELSE used[t]]

\* The token is checked, and spent, before the request's body is looked at.
Register(s) ==
  LET q == sub[s]
      accepted == ~Expired(q.exp) /\ Pruned[q.token] = Absent
      created == accepted /\ q.fit /\ ~registered
  IN /\ q.at = "register"
     /\ used' = IF Expired(q.exp) THEN used ELSE [Pruned EXCEPT ![q.token] = q.exp]
     /\ registered' = (registered \/ created)
     /\ Become(s, [q EXCEPT !.at = IF created THEN "created" ELSE "refused",
                            !.uses = IF accepted THEN Least(@ + 1, 2) ELSE @,
                            !.late = @ \/ (accepted /\ clock >= q.exp)])
     /\ UNCHANGED <<clock, store, tried, keeper, page, asked, coming, faults>>

-----------------------------------------------------------------------------
(* RegisterPage.                                                           *)

\* loadCaptcha, once answered: id, picture and answer are set together.
ShowChallenge(c) ==
  /\ c \in coming
  /\ page' = IF page.at = "form" THEN [page EXCEPT !.shown = c, !.typed = Absent] ELSE page
  /\ coming' = coming \ {c}
  /\ UNCHANGED <<clock, services, asked, sub, faults>>

\* The button beside the picture.  Pressing it for no reason is a slip.
NewCaptcha ==
  /\ page.at = "form" /\ asked < MaxLoads
  /\ asked' = asked + 1
  /\ IF page.shown = Absent /\ asked = 0 /\ coming = {} THEN UNCHANGED faults ELSE Fault
  /\ UNCHANGED <<clock, services, page, coming, sub>>

TypeAnswer ==
  /\ page.at = "form" /\ page.shown # Absent
  /\ page.typed # page.shown
  /\ page' = [page EXCEPT !.typed = page.shown]
  /\ UNCHANGED <<clock, services, asked, coming, sub, faults>>

Misread ==
  /\ page.at = "form" /\ page.shown # Absent
  /\ page.typed # Wrong
  /\ page' = [page EXCEPT !.typed = Wrong]
  /\ Fault
  /\ UNCHANGED <<clock, services, asked, coming, sub>>

\* handleSubmit: without an id and an answer it only shows an error.
Submit(s, fit) ==
  /\ page.at = "form" /\ page.shown # Absent /\ page.typed # Absent
  /\ sub[s].at = "idle"
  /\ Become(s, [Idle EXCEPT !.at = "verify", !.challenge = page.shown, !.answer = page.typed,
                            !.fit = fit])
  /\ IF fit /\ \A r \in Submissions : sub[r].at = "idle" THEN UNCHANGED faults ELSE Fault
  /\ UNCHANGED <<clock, services, page, asked, coming>>

\* An error of either call shows its message and loads another challenge.
Apologise(s) ==
  /\ asked' = Least(asked + 1, MaxLoads)
  /\ Become(s, Idle)
  /\ UNCHANGED <<clock, services, page, coming>>

Created(s) ==
  /\ sub[s].at = "created"
  /\ page' = [page EXCEPT !.at = "login"]
  /\ Become(s, Idle)
  /\ UNCHANGED <<clock, services, asked, coming, faults>>

RefusedOnce(s) ==                   \* mutant: no other challenge is loaded
  /\ sub[s].at = "refused"
  /\ Become(s, Idle)
  /\ UNCHANGED <<clock, services, page, asked, coming, faults>>

Refused(s) == sub[s].at = "refused" /\ Apologise(s) /\ UNCHANGED faults

-----------------------------------------------------------------------------
(* Faults.                                                                 *)

\* No answer, whether or not the service had the call.
CallLost(s) == sub[s].at # "idle" /\ Apologise(s) /\ Fault

LoadLost ==
  /\ \/ asked > 0 /\ asked' = asked - 1 /\ UNCHANGED coming
     \/ \E c \in coming : coming' = coming \ {c} /\ UNCHANGED asked
  /\ Fault
  /\ UNCHANGED <<clock, services, page, sub>>

\* A call to register is sent again, on the way or by the client.
Resend(s) ==
  /\ sub[s].at \in {"created", "refused"} /\ sub[s].token # Absent
  /\ Become(s, [sub[s] EXCEPT !.at = "register"])
  /\ Fault
  /\ UNCHANGED <<clock, services, page, asked, coming>>

RestartCaptcha ==
  /\ store' = [c \in Challenges |-> Absent]
  /\ Fault
  /\ UNCHANGED <<clock, tried, keeper, used, registered, page, asked, coming, sub>>

RestartKeeper ==
  /\ used' = [t \in Tokens |-> Absent]
  /\ sub' = [s \in Submissions |-> [sub[s] EXCEPT !.uses = 0]]
  /\ Fault
  /\ UNCHANGED <<clock, store, tried, keeper, registered, page, asked, coming>>

Tick ==
  /\ clock < MaxTime
  /\ clock' = clock + 1
  /\ UNCHANGED <<services, page, asked, coming, sub, faults>>

Next ==
  \/ GenerateChallenge
  \/ \E c \in Challenges : ShowChallenge(c)
  \/ \E s \in Submissions :
       \/ VerifyChallenge(s) \/ Register(s) \/ Created(s) \/ Refused(s) \/ CallLost(s) \/ Resend(s)
       \/ \E fit \in BOOLEAN : Submit(s, fit)
  \/ CleanUp \/ NewCaptcha \/ TypeAnswer \/ Misread
  \/ LoadLost \/ RestartCaptcha \/ RestartKeeper \/ Tick

Spec == Init /\ [][Next]_vars

\* The services and the page answer.  The newcomer goes on trying: types what is shown,
\* submits it, and asks for a picture where there is none.
FairSpec ==
  /\ Spec
  /\ WF_vars(GenerateChallenge)
  /\ WF_vars(\E c \in Challenges : ShowChallenge(c))
  /\ \A s \in Submissions :
       /\ WF_vars(VerifyChallenge(s)) /\ WF_vars(Register(s))
       /\ WF_vars(Created(s)) /\ WF_vars(Refused(s))
  /\ WF_vars(CleanUp)
  /\ WF_vars(TypeAnswer)
  /\ WF_vars(\E s \in Submissions : Submit(s, TRUE))
  /\ WF_vars(NewCaptcha)

-----------------------------------------------------------------------------
(* Properties.                                                             *)

TypeOK ==
  /\ {clock, asked, faults} \subseteq Nat
  /\ store \in [Challenges -> Int \union {Absent}]
  /\ tried \in SUBSET Challenges
  /\ keeper \in {"auth", "gateway"}
  /\ used \in [Tokens -> Int \union {Absent}]
  /\ registered \in BOOLEAN
  /\ page \in Page
  /\ coming \in SUBSET Challenges
  /\ sub \in [Submissions -> Submission]

\* A challenge is worth one attempt, right or wrong: whatever overlaps, fails, expires or
\* restarts, verifyChallenge signs no token for one that was tried before.
OneAttempt ==
  [][\A s \in Submissions :
       sub[s].at = "verify" /\ sub'[s].at = "register" => sub[s].challenge \notin tried]_vars

\* Until its exp, a token is accepted once by a process that checks tokens, however
\* often the call is sent.
UsedOnceWhileValid == \A s \in Submissions : sub[s].uses > 1 => sub[s].late

\* A newcomer who goes on trying is registered, after any number of lost calls,
\* restarts, expiries and as long as there is an end to them.
NewcomerRegisters == <>registered
=============================================================================
