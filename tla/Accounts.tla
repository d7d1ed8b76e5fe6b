------------------------------ MODULE Accounts ------------------------------
(***************************************************************************)
(* Accounts and sessions: registration, sign-in and one-time codes         *)
(* (auth.service.ts, otp.service.ts), refresh tokens that are rotated on   *)
(* every use (session.service.ts), what closes an account (user.service.ts *)
(* and admin.service.ts), and the app on one handset that keeps a refresh  *)
(* token and shares one refresh among all its requests (lib/api.ts and     *)
(* lib/auth.tsx of the mobile app).                                        *)
(*                                                                         *)
(* A request is a record in req; its steps lie between the awaits of the   *)
(* server's code.  Its answer may be lost, and the app may be stopped at   *)
(* any time.  A person whose account was deleted does not come back.       *)
(***************************************************************************)
EXTENDS Integers, Sequences, FiniteSets

CONSTANTS
  User,        \* people, and their accounts
  Code,        \* bound: one-time codes that are issued
  MaxAttempts, \* OTP_MAX_ATTEMPTS
  MaxTokens,   \* bound: refresh tokens ever created
  Request,     \* requests that run concurrently
  MaxMishaps,  \* bound: answers lost and stops of the app; suspensions,
               \* deactivations, deletions and revocations of all sessions
  Nobody       \* no user, no code, no request

ASSUME AccountsAssumption ==
  /\ User # {} /\ IsFiniteSet(Request)
  /\ MaxAttempts \in Nat \ {0} /\ MaxTokens \in Nat
  /\ MaxMishaps \in Nat
  /\ Nobody \notin User \union Code \union Request

VARIABLES
  account,  \* status of every user's row
  token,    \* rows of refresh_tokens
  code,     \* rows of otp_challenges
  req,      \* requests on their way to, in and from the server
  app,      \* the app on the handset
  faults, closures,
  mistaken, \* a rotated token was presented, and its family revoked
  stray     \* tokens of this handset that it gave up without revoking them:
            \* their answer was lost, their account was closed, a failure
            \* ended a sign-out, or the answer about another token replaced
            \* or erased them, as when a refresh crosses a sign-out

vars == <<account, token, code, req, app, faults, closures, mistaken, stray>>

Status  == {"none", "unproven", "active", "suspended", "deactivated", "deleted"}
SignIns == {"login", "register", "oauth", "verify"}
Steps   == {"sent", "reactivate", "right", "wrong", "provision", "build",
            "rotate", "reset", "tokens", "refused"}

RefreshToken == [user : User, family : 1 .. MaxTokens, here : BOOLEAN,
                 is : {"live", "rotated", "revoked"}]
OtpChallenge ==
  [is : {"unsent", "sent", "used"}, phone : User, user : User \union {Nobody},
   uses : Nat, attempts : Nat, purpose : {"signup", "login", "contact", "reset"}]
OnItsWay ==
  [op : SignIns \union {"none", "refresh", "logout", "reset"}, pc : Steps,
   user : User \union {Nobody}, token : 0 .. MaxTokens,
   code : Code \union {Nobody}, here : BOOLEAN, wanted : BOOLEAN]
App == [stored : 0 .. MaxTokens, ui : {"loading", "out", "in"},
        refreshing : Request \union {Nobody}, leaving : BOOLEAN]

Idle == [op |-> "none", pc |-> "sent", user |-> Nobody, token |-> 0,
         code |-> Nobody, here |-> FALSE, wanted |-> FALSE]

TypeOK ==
  /\ account \in [User -> Status]
  /\ token \in Seq(RefreshToken) /\ Len(token) <= MaxTokens
  /\ code \in [Code -> OtpChallenge]
  /\ req \in [Request -> OnItsWay]
  /\ app \in App
  /\ faults \in Nat /\ closures \in Nat /\ faults + closures <= MaxMishaps
  /\ mistaken \in BOOLEAN /\ stray \subseteq 1 .. MaxTokens

Init ==
  /\ account \in [User -> {"none", "active"}]
  /\ token = <<>>
  /\ code = [c \in Code |-> [is |-> "unsent", phone |-> CHOOSE u \in User : TRUE,
                             user |-> Nobody, uses |-> 0, attempts |-> 0,
                             purpose |-> "login"]]
  /\ req = [r \in Request |-> Idle]
  /\ app = [stored |-> 0, ui |-> "loading", refreshing |-> Nobody, leaving |-> FALSE]
  /\ faults = 0 /\ closures = 0
  /\ mistaken = FALSE /\ stray = {}

Closed(u) == account[u] \in {"none", "suspended", "deactivated", "deleted"}
Live      == {t \in DOMAIN token : token[t].is = "live"}

Revoke(S) ==
  token' = [t \in DOMAIN token |->
              IF t \in S \intersect Live THEN [token[t] EXCEPT !.is = "revoked"]
              ELSE token[t]]

Family(t) == {s \in DOMAIN token : token[s].family = token[t].family}
TokensOf(u) == {t \in DOMAIN token : token[t].user = u}

\* What the handset gave up, among the tokens of S.
GiveUp(S) == stray' = stray \union (S \ {0})

-----------------------------------------------------------------------------
(***************************************************************************)
(* Requests: the app's, and those of other clients, whose answers do not   *)
(* concern it.                                                             *)
(***************************************************************************)
New(op) == [Idle EXCEPT !.op = op, !.here = TRUE, !.wanted = TRUE]
Send(r, q) == req[r] = Idle /\ req' = [req EXCEPT ![r] = q]

At(r, ops, pc) == req[r].op \in ops /\ req[r].pc = pc
Go(r, pc) == req' = [req EXCEPT ![r].pc = pc]
Answer(r, pc, t) ==
  req' = [req EXCEPT ![r] = IF @.wanted
                              THEN [New(@.op) EXCEPT !.pc = pc, !.token = t]
                              ELSE Idle]
Refuse(r) == Answer(r, "refused", req[r].token)

server == <<app, faults, closures, mistaken>>

-----------------------------------------------------------------------------
(***************************************************************************)
(* The server: refresh tokens.                                             *)
(***************************************************************************)
\* A new token in a family; its answer's client has it, or nobody has.
Mint(r, u, f, kept) ==
  LET n == Len(token) + 1 IN
  /\ n <= MaxTokens
  /\ token' = Append(kept, [user |-> u, family |-> IF f = 0 THEN n ELSE f,
                            here |-> req[r].here, is |-> "live"])
  /\ Answer(r, "tokens", n)
  /\ GiveUp(IF req[r].wanted THEN {} ELSE {n})

\* rotateSession up to its transaction.  A token that was rotated or revoked
\* ends its family; one of a closed account is refused and stays as it is.
RotateRead(r) ==
  LET t == req[r].token IN
  /\ At(r, {"refresh"}, "sent")
  /\ \/ /\ t \notin Live
        /\ Revoke(Family(t)) /\ Refuse(r)
        /\ mistaken' = (mistaken \/ token[t].is = "rotated")
        /\ UNCHANGED stray
     \/ /\ t \in Live /\ Closed(token[t].user)
        /\ Refuse(r) /\ GiveUp({t}) /\ UNCHANGED <<token, mistaken>>
     \/ /\ t \in Live /\ ~Closed(token[t].user)
        /\ Go(r, "rotate") /\ UNCHANGED <<token, mistaken, stray>>
  /\ UNCHANGED <<account, code, app, faults, closures>>

\* Slip: the predecessor is linked to its successor and not revoked.
Linked(t) == token

Retired(t) == [token EXCEPT ![t].is = "rotated"]

RotateWrite(r) ==
  LET t == req[r].token IN
  /\ At(r, {"refresh"}, "rotate")
  /\ Mint(r, token[t].user, token[t].family, Retired(t))
  /\ UNCHANGED <<account, code, server>>

RevokeSession(r) ==
  /\ At(r, {"logout"}, "sent")
  /\ Revoke({req[r].token}) /\ Refuse(r)
  /\ UNCHANGED <<account, code, server, stray>>

\* buildSession: a session in a family of its own.
BuildSession(r) ==
  /\ req[r].pc = "build"
  /\ Mint(r, req[r].user, 0, token)
  /\ UNCHANGED <<account, code, server>>

-----------------------------------------------------------------------------
(***************************************************************************)
(* The server: signing in.                                                 *)
(***************************************************************************)
LoginRead(r) ==
  LET s == account[req[r].user] IN
  /\ At(r, {"login"}, "sent")
  /\ \/ s \in {"none", "suspended", "deleted"} /\ Refuse(r)
     \/ s \in {"unproven", "active"} /\ Go(r, "build")
     \/ s = "deactivated" /\ Go(r, "reactivate")
  /\ UNCHANGED <<account, token, code, server, stray>>

\* Signing in undoes a deactivation, whatever the status is by now.
Reactivate(r) ==
  /\ req[r].pc = "reactivate"
  /\ account' = [account EXCEPT ![req[r].user] = IF @ = "deleted" THEN @ ELSE "active"]
  /\ Go(r, "build")
  /\ UNCHANGED <<token, code, server, stray>>

\* register looks whether the account exists.
RegisterRead(r) ==
  LET s == account[req[r].user] IN
  /\ At(r, {"register"}, "sent")
  /\ IF s = "none" THEN Go(r, "provision") ELSE Refuse(r)
  /\ UNCHANGED <<account, token, code, server, stray>>

\* oauthSignIn: the identity, or the address that the provider vouches for,
\* finds the account, or a new one is provisioned.
OauthSignIn(r) ==
  LET s == account[req[r].user] IN
  /\ At(r, {"oauth"}, "sent")
  /\ \/ s = "none" /\ Go(r, "provision")
     \/ s \in {"suspended", "deleted"} /\ Refuse(r)
     \/ s \in {"unproven", "active", "deactivated"} /\ Go(r, "build")
  /\ UNCHANGED <<account, token, code, server, stray>>

\* provisionUser: the unique columns let one of two through.
Provision(r) ==
  LET u == req[r].user IN
  /\ req[r].pc = "provision"
  /\ \/ /\ account[u] = "none"
        /\ account' = [account EXCEPT ![u] =
                         IF req[r].op = "register" THEN "unproven" ELSE "active"]
        /\ Go(r, "build")
     \/ account[u] # "none" /\ Refuse(r) /\ UNCHANGED account
  /\ UNCHANGED <<token, code, server, stray>>

-----------------------------------------------------------------------------
(***************************************************************************)
(* The server: one-time codes.                                             *)
(***************************************************************************)
\* requestOtp and register: a parked signup has no account yet; an unknown
\* destination gets an answer that looks the same, and no challenge.
MayRequest(u, purpose) ==
  /\ purpose = "signup" => account[u] = "none"
  /\ purpose # "signup" => account[u] \notin {"none", "deleted"}
  /\ purpose \in {"login", "reset"} => account[u] # "suspended"

IssueOtp(c, u, purpose) ==
  /\ code[c].is = "unsent" /\ MayRequest(u, purpose)
  /\ code' = [code EXCEPT ![c] =
       [@ EXCEPT !.is = "sent", !.phone = u, !.purpose = purpose,
                 !.user = IF purpose = "signup" THEN Nobody ELSE u]]
  /\ UNCHANGED <<account, token, req, server, stray>>

Exhausted(c) == code[c].attempts >= MaxAttempts

\* The first part of verifyOtp; what was typed is right or wrong.
VerifyRead(r) ==
  LET c == req[r].code IN
  /\ At(r, {"verify", "reset"}, "sent")
  /\ \/ /\ \/ code[c].is = "used" \/ Exhausted(c)
           \/ req[r].op = "reset" /\ code[c].purpose # "reset"
        /\ Refuse(r)
     \/ /\ code[c].is = "sent" /\ ~Exhausted(c)
        /\ req[r].op = "reset" => code[c].purpose = "reset"
        /\ \E typed \in {"right", "wrong"} : Go(r, typed)
  /\ UNCHANGED <<account, token, code, server, stray>>

VerifyWrong(r) ==
  /\ req[r].pc = "wrong"
  /\ code' = [code EXCEPT ![req[r].code].attempts = @ + 1]
  /\ Refuse(r)
  /\ UNCHANGED <<account, token, server, stray>>

\* Slip: consumed because it was unused when it was read.
Matched(c) == TRUE

Consumable(c) == code[c].is = "sent"

\* The code is consumed if nobody else did; then a session is on its way, a
\* contact detail is proven, or a new password is.
VerifyRight(r) ==
  LET c == req[r].code
      u == code[c].phone
  IN
  /\ req[r].pc = "right"
  /\ \/ ~Consumable(c) /\ Refuse(r) /\ UNCHANGED code
     \/ /\ Consumable(c)
        /\ code' = [code EXCEPT ![c].is = "used", ![c].uses = @ + 1]
        /\ req' = [req EXCEPT ![r] = [@ EXCEPT !.user = u, !.pc =
                      IF req[r].op = "reset" THEN "reset"
                      ELSE IF code[c].user = Nobody THEN "provision" ELSE "build"]]
  /\ UNCHANGED <<account, token, server, stray>>

\* A parked signup whose number has an account by now signs in to it.
SignUpExists(r) ==
  /\ At(r, {"verify"}, "provision")
  /\ account[req[r].user] \notin {"none", "deleted"}
  /\ Go(r, "build")
  /\ UNCHANGED <<account, token, code, server, stray>>

\* PHONE_VERIFICATION and EMAIL_VERIFICATION of an account that waits for it.
ContactVerified(r) ==
  LET u == req[r].user IN
  /\ At(r, {"verify"}, "build")
  /\ code[req[r].code].purpose = "contact" /\ account[u] = "unproven"
  /\ account' = [account EXCEPT ![u] = "active"]
  /\ UNCHANGED <<token, code, req, server, stray>>

\* The transaction of resetPassword, whatever the status is by now.
ResetPassword(r) ==
  LET u == req[r].user IN
  /\ req[r].pc = "reset"
  /\ account' = [account EXCEPT ![u] = IF @ = "deleted" THEN @ ELSE "active"]
  /\ Revoke(TokensOf(u)) /\ Refuse(r)
  /\ UNCHANGED <<code, server, stray>>

-----------------------------------------------------------------------------
(***************************************************************************)
(* Closing an account and opening it again; signing out everywhere.        *)
(***************************************************************************)
Close(u, from, to, revoking) ==
  /\ faults + closures < MaxMishaps /\ closures' = closures + 1
  /\ account[u] \in from
  /\ account' = [account EXCEPT ![u] = to]
  /\ IF revoking THEN Revoke(TokensOf(u)) ELSE UNCHANGED token
  /\ UNCHANGED <<code, req, app, faults, mistaken, stray>>

Open == {"unproven", "active"}
DeactivateAccount(u) == Close(u, Open, "deactivated", TRUE)
DeleteAccount(u)     == Close(u, Status \ {"none", "deleted"}, "deleted", TRUE)
LogoutEverywhere(u)  == Close(u, Open, account[u], TRUE)

\* updateUser of the administrators revokes sessions when it suspends only.
UpdateUser(u, status) ==
  Close(u, Status \ {"none", "deleted", status}, status, status = "suspended")

-----------------------------------------------------------------------------
(***************************************************************************)
(* The app.                                                                *)
(***************************************************************************)
\* Slip: every request refreshes for itself.
Always == TRUE

MayRefresh == app.refreshing = Nobody

\* refreshSession at launch, or when an access token has expired.
RefreshSession(r) ==
  /\ app.ui \in {"loading", "in"} /\ app.stored # 0 /\ MayRefresh
  /\ Send(r, [New("refresh") EXCEPT !.token = app.stored])
  /\ app' = [app EXCEPT !.refreshing = r]
  /\ UNCHANGED <<account, token, code, faults, closures, mistaken, stray>>

Launch ==
  /\ app.ui = "loading" /\ app.stored = 0
  /\ app' = [app EXCEPT !.ui = "out"]
  /\ UNCHANGED <<account, token, code, req, faults, closures, mistaken, stray>>

\* One form at a time asks for a session on this handset.
SignIn(r, op, u, c) ==
  /\ app.ui = "out"
  /\ \A s \in Request : ~(req[s].wanted /\ req[s].op \in SignIns)
  /\ IF op = "verify" THEN u = Nobody /\ c # Nobody /\ code[c].is # "unsent"
                      ELSE u # Nobody /\ c = Nobody
  /\ Send(r, [New(op) EXCEPT !.user = u, !.code = c])
  /\ UNCHANGED <<account, token, code, server, stray>>

\* Another device enters a code, or sets a new password with it.
Elsewhere(r, op, c) ==
  /\ code[c].is # "unsent"
  /\ Send(r, [Idle EXCEPT !.op = op, !.code = c])
  /\ UNCHANGED <<account, token, code, server, stray>>

\* signOut: the stored token is revoked, then forgotten.
SignOut(r) ==
  /\ app.ui = "in" /\ ~app.leaving
  /\ Send(r, [New("logout") EXCEPT !.token = app.stored])
  /\ app' = [app EXCEPT !.leaving = TRUE]
  /\ UNCHANGED <<account, token, code, faults, closures, mistaken, stray>>

\* What the app makes of an answer.
After(q) ==
  CASE q.pc = "tokens" ->
         [app EXCEPT !.stored = q.token, !.ui = "in",
            !.refreshing = IF q.op = "refresh" THEN Nobody ELSE @]
    [] q.pc # "tokens" /\ q.op = "refresh" ->
         [app EXCEPT !.stored = 0, !.ui = "out", !.refreshing = Nobody]
    [] q.pc # "tokens" /\ q.op = "logout" ->
         [app EXCEPT !.stored = 0, !.ui = "out", !.leaving = FALSE]
    [] OTHER -> app

\* The stored token is what the answer is about: it was rotated, or revoked.
Concerns(q, t) ==
  \/ q.op = "refresh" /\ token[q.token].family = token[t].family
  \/ q.op = "logout" /\ q.token = t

\* A token that came meanwhile is forgotten by an answer about another one.
Forgotten(q) ==
  {t \in {app.stored} \ {0} : After(q).stored # t /\ ~Concerns(q, t)}

Receive(r) ==
  /\ req[r].wanted /\ req[r].pc \in {"tokens", "refused"}
  /\ app' = After(req[r])
  /\ req' = [req EXCEPT ![r] = Idle]
  /\ GiveUp(Forgotten(req[r]))
  /\ UNCHANGED <<account, token, code, faults, closures, mistaken>>

\* Requests whose answers nobody waits for any more.
Unwanted(S) ==
  /\ faults + closures < MaxMishaps /\ faults' = faults + 1
  /\ req' = [r \in Request |->
               IF r \notin S THEN req[r]
               ELSE IF req[r].pc \in {"tokens", "refused"} THEN Idle
               ELSE [req[r] EXCEPT !.wanted = FALSE]]
  /\ UNCHANGED <<account, token, code, closures, mistaken>>

Lost(S) == {req[r].token : r \in {r \in S : req[r].pc = "tokens"}}

\* The connection fails, or the server does: the stored token is kept, except
\* when the user was signing out.  At launch the app goes on with what it has
\* cached, or to the sign-in screen if the server answered with a failure.
LoseAnswer(r) ==
  /\ req[r].wanted /\ Unwanted({r})
  /\ CASE req[r].op = "refresh" ->
            /\ \E ui \in IF app.ui = "loading" THEN {"in", "out"} ELSE {app.ui} :
                 app' = [app EXCEPT !.refreshing = Nobody, !.ui = ui]
            /\ GiveUp(Lost({r}))
       [] req[r].op = "logout" ->
            app' = After(req[r]) /\ GiveUp({req[r].token, app.stored})
       [] OTHER -> app' = app /\ GiveUp(Lost({r}))

\* The app is stopped and started again; only the stored token survives.
Stop ==
  LET mine == {r \in Request : req[r].wanted} IN
  /\ Unwanted(mine) /\ GiveUp(Lost(mine))
  /\ app' = [app EXCEPT !.ui = "loading", !.refreshing = Nobody, !.leaving = FALSE]

Next ==
  \/ \E r \in Request :
       \/ RotateRead(r) \/ RotateWrite(r) \/ RevokeSession(r) \/ BuildSession(r)
       \/ LoginRead(r) \/ Reactivate(r) \/ RegisterRead(r) \/ OauthSignIn(r)
       \/ Provision(r)
       \/ VerifyRead(r) \/ VerifyWrong(r) \/ VerifyRight(r) \/ SignUpExists(r)
       \/ ContactVerified(r) \/ ResetPassword(r)
       \/ RefreshSession(r) \/ SignOut(r) \/ Receive(r) \/ LoseAnswer(r)
       \/ \E op \in SignIns, u \in User \union {Nobody},
            c \in Code \union {Nobody} : SignIn(r, op, u, c)
       \/ \E op \in {"verify", "reset"}, c \in Code : Elsewhere(r, op, c)
  \/ \E c \in Code, u \in User, p \in {"signup", "login", "contact", "reset"} :
       IssueOtp(c, u, p)
  \/ \E u \in User :
       \/ DeactivateAccount(u) \/ DeleteAccount(u) \/ LogoutEverywhere(u)
       \/ \E s \in {"active", "suspended", "deactivated"} : UpdateUser(u, s)
  \/ Launch \/ Stop

Spec == Init /\ [][Next]_vars

-----------------------------------------------------------------------------
(***************************************************************************)
(* Correctness.                                                            *)
(***************************************************************************)
\* "a consumed challenge can never be replayed" and "attempts are counted on
\* the row" (otp.service.ts): a code signs in, creates an account or sets a
\* password once, and wrong guesses stop at the limit, plus those that were
\* let in before it was reached.
CodeUsedOnce ==
  \A c \in Code : /\ code[c].uses <= 1
                  /\ code[c].attempts <= MaxAttempts - 1 + Cardinality(Request)

\* "A 401 triggers one shared refresh" (lib/api.ts): as long as no answer gets
\* lost and the app is not stopped, its own requests never present a token
\* that they had rotated themselves, which would end the session.
EndedByNobody == mistaken => faults > 0

\* Whoever signed out is signed out: a session that was opened on this handset
\* and still lives is the one it has stored, one whose answer is on its way,
\* or one the handset gave up (stray): because of a fault or a closed account,
\* or by an answer about another token.  The last has two ways.  A refresh
\* crosses a sign-out: its new token is stored, and the answer of the logout,
\* which revoked the old one, erases it.  Or an answer comes after the next
\* sign-in.
NoForgottenSession ==
  \A t \in Live :
    token[t].here =>
      \/ t = app.stored
      \/ t \in stray
      \/ \E r \in Request : req[r].wanted /\ req[r].token = t

-----------------------------------------------------------------------------
(***************************************************************************)
(* The strengthenings that make the invariants above inductive.            *)
(***************************************************************************)
Answered(r) == req[r].pc \in {"tokens", "refused"}

\* What a request holds at each of its steps: an account, a code, a token.
RequestsInOrder ==
  \A r \in Request :
    /\ req[r].op = "none" => req[r] = Idle
    /\ Answered(r) => req[r].wanted
    /\ req[r].op = "refresh" => req[r].pc \in {"sent", "rotate", "tokens", "refused"}
    /\ req[r].op = "logout" => req[r].pc \in {"sent", "refused"}
    /\ req[r].pc = "rotate" => req[r].op = "refresh"
    /\ req[r].op \in {"login", "register", "oauth"} =>
         req[r].pc \notin {"right", "wrong", "reset"}
    /\ \/ req[r].op \in {"login", "register", "oauth"} /\ ~Answered(r)
       \/ req[r].pc \in {"reactivate", "provision", "build", "reset"}
       => req[r].user \in User
    /\ req[r].op \in {"verify", "reset"} /\ ~Answered(r) => req[r].code \in Code
    /\ req[r].token \in DOMAIN token \union {0}
    /\ req[r].op = "refresh" \/ req[r].pc = "tokens" => req[r].token # 0
    /\ req[r].op \notin {"refresh", "logout"} /\ req[r].pc # "tokens" =>
         req[r].token = 0

TokensInOrder ==
  /\ \A t \in DOMAIN token : token[t].family \in DOMAIN token
  /\ app.stored \in 0 .. Len(token)

\* A token on its way is nobody's yet, and that of a new session is the first
\* of its family.
FreshAnswers ==
  \A r \in Request : req[r].pc = "tokens" =>
    /\ req[r].token # app.stored
    /\ \A s \in Request \ {r} : req[s].token # req[r].token
    /\ req[r].op # "refresh" => Family(req[r].token) = {req[r].token}

\* Live tokens that this handset has not given up.
Current == Live \ stray

\* The app waits for one refresh, and what it knows of the family is the token
\* that the refresh presented or brings.
SharedRefresh ==
  \A r \in Request : req[r].op = "refresh" /\ req[r].wanted =>
    /\ app.refreshing = r
    /\ Current \intersect Family(req[r].token) \subseteq
         (IF req[r].pc = "refused" THEN {} ELSE {req[r].token})

\* The server has revoked the token of a sign-out before it answers.
SignedOut ==
  \A r \in Request :
    req[r].op = "logout" /\ req[r].pc = "refused" => req[r].token \notin Live

\* Stronger than NoForgottenSession: only a request that brings a token counts.
StoredOrComing ==
  \A t \in Current :
    t = app.stored \/ \E r \in Request : req[r].pc = "tokens" /\ req[r].token = t

\* As long as nothing gets lost, a rotated token is not presented again: it is
\* stored only until the answer that replaces it arrives.
RotatedOnce ==
  faults = 0 =>
    /\ \A r \in Request :
         /\ req[r].op = "refresh" => req[r].wanted
         /\ \/ req[r].pc = "tokens"
            \/ req[r].op = "refresh" /\ req[r].pc # "refused"
            => token[req[r].token].is # "rotated"
    /\ app.stored # 0 /\ token[app.stored].is = "rotated" =>
         \E r \in Request : req[r].op = "refresh" /\ req[r].pc = "tokens"

\* Wrong guesses that were let in and are not counted yet.
Guessing(c) == {r \in Request : req[r].pc = "wrong" /\ req[r].code = c}

CodesInOrder ==
  \A c \in Code :
    /\ code[c].uses = IF code[c].is = "used" THEN 1 ELSE 0
    /\ code[c].attempts + Cardinality(Guessing(c))
         <= MaxAttempts - 1 + Cardinality(Request)

IInv ==
  /\ TypeOK
  /\ RequestsInOrder
  /\ TokensInOrder
  /\ FreshAnswers
  /\ SharedRefresh
  /\ SignedOut
  /\ StoredOrComing
  /\ RotatedOnce
  /\ EndedByNobody
  /\ CodesInOrder
=============================================================================
