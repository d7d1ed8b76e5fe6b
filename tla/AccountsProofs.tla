--------------------------- MODULE AccountsProofs ---------------------------
(***************************************************************************)
(* Proofs about accounts and sessions: types, what a one-time code may be  *)
(* used for, that the shared refresh never presents a rotated token, and   *)
(* that no session of the handset is forgotten.                            *)
(***************************************************************************)
EXTENDS Accounts, FiniteSetTheorems, TLAPS

-----------------------------------------------------------------------------
(***************************************************************************)
(* Requests: what Send, Go and Answer do to the table.                     *)
(***************************************************************************)
LEMMA IdleType == Idle \in OnItsWay
BY AccountsAssumption DEF Idle, OnItsWay, SignIns, Steps

OthersWait(r) == \A s \in Request \ {r} : req'[s] = req[s]

LEMMA SendRows ==
  ASSUME TypeOK, NEW r \in Request, NEW q \in OnItsWay, Send(r, q)
  PROVE  /\ req' \in [Request -> OnItsWay]
         /\ OthersWait(r) /\ req'[r] = q /\ req[r] = Idle
BY DEF Send, TypeOK, OthersWait

LEMMA GoRows ==
  ASSUME TypeOK, NEW r \in Request, NEW pc \in Steps, Go(r, pc)
  PROVE  /\ req' \in [Request -> OnItsWay]
         /\ OthersWait(r)
         /\ req'[r] = [req[r] EXCEPT !.pc = pc]
<1> DEFINE n == [req[r] EXCEPT !.pc = pc]
<1>1. n \in OnItsWay
  BY DEF TypeOK, OnItsWay
<1>2. req' = [req EXCEPT ![r] = n]
  BY DEF Go
<1> HIDE DEF n
<1>3. req' \in [Request -> OnItsWay] /\ OthersWait(r) /\ req'[r] = n
  BY <1>1, <1>2 DEF TypeOK, OthersWait
<1> QED
  BY <1>3 DEF n

\* The answer of a request that somebody waits for.
Told(op, pc, t) ==
  [op |-> op, pc |-> pc, user |-> Nobody, token |-> t, code |-> Nobody,
   here |-> TRUE, wanted |-> TRUE]

LEMMA AnswerRows ==
  ASSUME TypeOK, NEW r \in Request, NEW pc \in {"tokens", "refused"},
         NEW t \in 0 .. MaxTokens, Answer(r, pc, t)
  PROVE  /\ req' \in [Request -> OnItsWay]
         /\ OthersWait(r)
         /\ req[r].wanted => req'[r] = Told(req[r].op, pc, t)
         /\ ~req[r].wanted => req'[r] = Idle
<1> DEFINE n == IF req[r].wanted
                  THEN [New(req[r].op) EXCEPT !.pc = pc, !.token = t] ELSE Idle
<1>1. req[r].wanted => n = Told(req[r].op, pc, t)
  BY DEF New, Idle, Told
<1>2. Told(req[r].op, pc, t) \in OnItsWay
  BY DEF Told, TypeOK, OnItsWay, Steps
<1>3. n \in OnItsWay
  BY <1>1, <1>2, IdleType
<1>4. req' = [req EXCEPT ![r] = n]
  BY DEF Answer
<1>5. ~req[r].wanted => n = Idle
  OBVIOUS
<1> HIDE DEF n
<1>6. req' \in [Request -> OnItsWay] /\ OthersWait(r) /\ req'[r] = n
  BY <1>3, <1>4 DEF TypeOK, OthersWait
<1> QED
  BY <1>1, <1>5, <1>6

-----------------------------------------------------------------------------
(***************************************************************************)
(* Tokens: what Revoke and Mint do to the table.                           *)
(***************************************************************************)
LEMMA RevokeRows ==
  ASSUME TypeOK, NEW S, Revoke(S)
  PROVE  /\ token' \in Seq(RefreshToken) /\ Len(token') = Len(token)
         /\ \A t \in DOMAIN token :
              /\ token'[t].user = token[t].user
              /\ token'[t].family = token[t].family
              /\ token'[t].is = IF t \in S /\ token[t].is = "live"
                                  THEN "revoked" ELSE token[t].is
<1> DEFINE n(t) == IF t \in S \intersect Live THEN [token[t] EXCEPT !.is = "revoked"]
                   ELSE token[t]
<1>1. token \in Seq(RefreshToken) /\ DOMAIN token = 1 .. Len(token) /\ Len(token) \in Nat
  BY DEF TypeOK
<1>2. ASSUME NEW t \in DOMAIN token
      PROVE  /\ n(t) \in RefreshToken
             /\ n(t).user = token[t].user
             /\ n(t).family = token[t].family
             /\ n(t).is = IF t \in S /\ token[t].is = "live"
                            THEN "revoked" ELSE token[t].is
  <2>1. token[t] \in RefreshToken
    BY <1>1
  <2> QED
    BY <2>1 DEF RefreshToken, Live
<1>3. token' = [t \in DOMAIN token |-> n(t)]
  BY DEF Revoke
<1> HIDE DEF n
<1>4. token' \in [1 .. Len(token) -> RefreshToken]
  BY <1>1, <1>2, <1>3
<1>5. token' \in Seq(RefreshToken) /\ Len(token') = Len(token)
  BY <1>1, <1>4
<1> QED
  BY <1>2, <1>3, <1>5

LEMMA RetiredRows ==
  ASSUME TypeOK, NEW t \in DOMAIN token
  PROVE  /\ Retired(t) \in Seq(RefreshToken) /\ Len(Retired(t)) = Len(token)
         /\ \A s \in DOMAIN token :
              /\ Retired(t)[s].family = token[s].family
              /\ Retired(t)[s].is = IF s = t THEN "rotated" ELSE token[s].is
<1> DEFINE n == [token[t] EXCEPT !.is = "rotated"]
<1>1. token \in Seq(RefreshToken) /\ token[t] \in RefreshToken
  BY DEF TypeOK
<1>2. n \in RefreshToken /\ n.family = token[t].family /\ n.is = "rotated"
  BY <1>1 DEF RefreshToken
<1>3. Retired(t) = [token EXCEPT ![t] = n]
  BY DEF Retired
<1> HIDE DEF n
<1> QED
  BY <1>1, <1>2, <1>3

LEMMA MintRows ==
  ASSUME TypeOK, NEW r \in Request, NEW u \in User, NEW f \in 0 .. MaxTokens,
         NEW kept \in Seq(RefreshToken), Len(kept) = Len(token),
         Mint(r, u, f, kept)
  PROVE  LET n == Len(token) + 1 IN
         /\ n \in 1 .. MaxTokens
         /\ token' \in Seq(RefreshToken) /\ Len(token') = n
         /\ token'[n].family = IF f = 0 THEN n ELSE f
         /\ token'[n].is = "live"
         /\ \A s \in DOMAIN token : token'[s] = kept[s]
<1> DEFINE n == Len(token) + 1
           row == [user |-> u, family |-> IF f = 0 THEN n ELSE f,
                   here |-> req[r].here, is |-> "live"]
<1>1. n \in 1 .. MaxTokens
  BY AccountsAssumption DEF Mint, TypeOK
<1>2. row \in RefreshToken
  BY <1>1, AccountsAssumption DEF RefreshToken, TypeOK, OnItsWay
<1>3. token' = Append(kept, row)
  BY DEF Mint
<1>4. row.family = (IF f = 0 THEN n ELSE f) /\ row.is = "live"
  OBVIOUS
<1> HIDE DEF row
<1> QED
  BY <1>1, <1>2, <1>3, <1>4 DEF TypeOK

-----------------------------------------------------------------------------
(***************************************************************************)
(* Types.                                                                  *)
(***************************************************************************)
LEMMA HasCode ==
  ASSUME TypeOK, RequestsInOrder, NEW r \in Request,
         req[r].pc \in {"right", "wrong", "reset"} \/ At(r, {"verify", "reset"}, "sent")
  PROVE  req[r].code \in Code
BY DEF TypeOK, RequestsInOrder, OnItsWay, SignIns, At, Answered, Idle

LEMMA HasUser ==
  ASSUME TypeOK, RequestsInOrder, NEW r \in Request,
         \/ req[r].pc \in {"reactivate", "provision", "build", "reset"}
         \/ At(r, {"login", "register", "oauth"}, "sent")
  PROVE  req[r].user \in User
BY DEF RequestsInOrder, At, Answered

LEMMA HasToken ==
  ASSUME TypeOK, RequestsInOrder, NEW r \in Request,
         req[r].op = "refresh" \/ req[r].pc \in {"rotate", "tokens"}
  PROVE  req[r].token \in DOMAIN token /\ req[r].token \in 1 .. Len(token)
BY DEF TypeOK, RequestsInOrder

LEMMA HasNoToken ==
  ASSUME RequestsInOrder, NEW r \in Request,
         req[r].op \notin {"refresh", "logout"}, req[r].pc # "tokens"
  PROVE  req[r].token = 0
BY DEF RequestsInOrder

\* The two actions that create a token.
Minting(r) == RotateWrite(r) \/ BuildSession(r)

LEMMA Minted ==
  ASSUME TypeOK, RequestsInOrder, NEW r \in Request, Minting(r)
  PROVE  LET n == Len(token) + 1 IN
         /\ n \in 1 .. MaxTokens /\ n \notin DOMAIN token
         /\ token' \in Seq(RefreshToken) /\ Len(token') = n
         /\ token'[n].is = "live"
         /\ \A s \in DOMAIN token : token'[s].family = token[s].family
         /\ req' \in [Request -> OnItsWay]
         /\ OthersWait(r)
         /\ req[r].wanted => req'[r] = Told(req[r].op, "tokens", n)
         /\ ~req[r].wanted => req'[r] = Idle
         /\ stray' = stray \union (IF req[r].wanted THEN {} ELSE {n})
         /\ RotateWrite(r) =>
              /\ req[r].token \in DOMAIN token
              /\ token'[n].family = token[req[r].token].family
              /\ \A s \in DOMAIN token :
                   token'[s].is = IF s = req[r].token THEN "rotated" ELSE token[s].is
         /\ BuildSession(r) =>
              /\ token'[n].family = n
              /\ \A s \in DOMAIN token : token'[s] = token[s]
<1> DEFINE n == Len(token) + 1
           t == req[r].token
<1>1. Len(token) \in Nat /\ DOMAIN token = 1 .. Len(token) /\ token \in Seq(RefreshToken)
  BY DEF TypeOK
<1>2. ASSUME NEW u, NEW f, NEW kept, Mint(r, u, f, kept), n \in 1 .. MaxTokens
      PROVE  /\ req' \in [Request -> OnItsWay]
             /\ OthersWait(r)
             /\ req[r].wanted => req'[r] = Told(req[r].op, "tokens", n)
             /\ ~req[r].wanted => req'[r] = Idle
             /\ stray' = stray \union (IF req[r].wanted THEN {} ELSE {n})
  <2>1. n \in 0 .. MaxTokens /\ "tokens" \in {"tokens", "refused"} /\ n # 0
    BY <1>2
  <2>2. Answer(r, "tokens", n)
    BY <1>2 DEF Mint
  <2>3. stray' = stray \union (IF req[r].wanted THEN {} ELSE {n})
    BY <1>2, <2>1 DEF Mint, GiveUp
  <2> HIDE DEF n
  <2> QED
    BY <2>1, <2>2, <2>3, AnswerRows
<1>3. CASE RotateWrite(r)
  <2>1. t \in DOMAIN token /\ req[r].pc = "rotate"
    BY <1>3, HasToken DEF RotateWrite, At
  <2>2. /\ token[t].user \in User
        /\ token[t].family \in 1 .. MaxTokens
    <3>1. token[t] \in RefreshToken
      BY <1>1, <2>1
    <3> QED
      BY <3>1 DEF RefreshToken
  <2>3. Mint(r, token[t].user, token[t].family, Retired(t))
    BY <1>3 DEF RotateWrite
  <2>4. /\ Retired(t) \in Seq(RefreshToken) /\ Len(Retired(t)) = Len(token)
        /\ \A s \in DOMAIN token :
             /\ Retired(t)[s].family = token[s].family
             /\ Retired(t)[s].is = IF s = t THEN "rotated" ELSE token[s].is
    BY <2>1, RetiredRows
  <2>5. /\ n \in 1 .. MaxTokens
        /\ token' \in Seq(RefreshToken) /\ Len(token') = n
        /\ token'[n].family = token[t].family
        /\ token'[n].is = "live"
        /\ \A s \in DOMAIN token : token'[s] = Retired(t)[s]
    <3>1. token[t].family \in 0 .. MaxTokens /\ token[t].family # 0
      BY <2>2
    <3> QED
      BY <2>2, <2>3, <2>4, <3>1, MintRows
  <2>6. ~BuildSession(r)
    BY <2>1 DEF BuildSession
  <2> QED
    BY <1>1, <1>2, <2>1, <2>3, <2>4, <2>5, <2>6
<1>4. CASE BuildSession(r)
  <2>1. req[r].user \in User /\ req[r].pc = "build"
    BY <1>4, HasUser DEF BuildSession
  <2>2. Mint(r, req[r].user, 0, token)
    BY <1>4 DEF BuildSession
  <2>3. /\ n \in 1 .. MaxTokens
        /\ token' \in Seq(RefreshToken) /\ Len(token') = n
        /\ token'[n].family = n
        /\ token'[n].is = "live"
        /\ \A s \in DOMAIN token : token'[s] = token[s]
    <3>1. 0 \in 0 .. MaxTokens
      BY AccountsAssumption
    <3> QED
      BY <1>1, <2>1, <2>2, <3>1, MintRows
  <2>4. ~RotateWrite(r)
    BY <2>1 DEF RotateWrite, At
  <2> QED
    BY <1>1, <1>2, <2>2, <2>3, <2>4
<1> QED
  BY <1>3, <1>4 DEF Minting

Tables == /\ token' \in Seq(RefreshToken) /\ Len(token') <= MaxTokens
          /\ req' \in [Request -> OnItsWay]

\* The steps of a request that leave the table of tokens as it is.
LEMMA GoType ==
  ASSUME TypeOK, NEW r \in Request, NEW pc \in Steps, Go(r, pc), token' = token
  PROVE  Tables
BY GoRows DEF Tables, TypeOK

LEMMA RefuseRows ==
  ASSUME TypeOK, NEW r \in Request, Refuse(r)
  PROVE  /\ req' \in [Request -> OnItsWay]
         /\ OthersWait(r)
         /\ req[r].wanted => req'[r] = Told(req[r].op, "refused", req[r].token)
         /\ ~req[r].wanted => req'[r] = Idle
<1>1. req[r].token \in 0 .. MaxTokens
  BY DEF TypeOK, OnItsWay
<1>2. Answer(r, "refused", req[r].token) /\ "refused" \in {"tokens", "refused"}
  BY DEF Refuse
<1> HIDE DEF Refuse
<1> QED
  BY <1>1, <1>2, AnswerRows

LEMMA RefuseType ==
  ASSUME TypeOK, NEW r \in Request, Refuse(r),
         token' = token \/ \E S : Revoke(S)
  PROVE  Tables
<1>1. Len(token) <= MaxTokens /\ token \in Seq(RefreshToken)
  BY DEF TypeOK
<1>2. token' \in Seq(RefreshToken) /\ Len(token') = Len(token)
  BY <1>1, RevokeRows
<1> QED
  BY <1>1, <1>2, RefuseRows DEF Tables

\* The requests of the server that neither mint nor go through a code.
SigningIn(r) ==
  \/ LoginRead(r) \/ Reactivate(r) \/ RegisterRead(r) \/ OauthSignIn(r)
  \/ Provision(r)

LEMMA SigningInType ==
  ASSUME TypeOK, NEW r \in Request, SigningIn(r)
  PROVE  TypeOK'
<1>1. UNCHANGED <<token, code, server, stray>>
  BY DEF SigningIn, LoginRead, Reactivate, RegisterRead, OauthSignIn, Provision
<1>2. Refuse(r) \/ \E pc \in {"build", "reactivate", "provision"} : Go(r, pc)
  BY DEF SigningIn, LoginRead, Reactivate, RegisterRead, OauthSignIn, Provision
<1>3. Tables
  BY <1>1, <1>2, GoType, RefuseType DEF Steps
<1>4. account' \in [User -> Status]
  BY DEF SigningIn, LoginRead, Reactivate, RegisterRead, OauthSignIn, Provision,
         TypeOK, Status
<1> QED
  BY <1>1, <1>3, <1>4 DEF TypeOK, Tables, server

VerifyingCode(r) ==
  VerifyRead(r) \/ VerifyWrong(r) \/ VerifyRight(r) \/ SignUpExists(r)
  \/ ContactVerified(r)

LEMMA RightCode ==
  ASSUME TypeOK, RequestsInOrder, NEW r \in Request, VerifyRight(r)
  PROVE  LET c == req[r].code IN
         \/ /\ ~Consumable(c) /\ Refuse(r) /\ UNCHANGED code
         \/ /\ Consumable(c) /\ c \in Code
            /\ code' \in [Code -> OtpChallenge]
            /\ code'[c].is = "used" /\ code'[c].uses = code[c].uses + 1
            /\ code'[c].attempts = code[c].attempts
            /\ \A d \in Code \ {c} : code'[d] = code[d]
            /\ req' \in [Request -> OnItsWay]
            /\ OthersWait(r)
            /\ \E pc \in {"reset", "provision", "build"} :
                 /\ req'[r] = [req[r] EXCEPT !.user = code[c].phone, !.pc = pc]
                 /\ pc = "reset" <=> req[r].op = "reset"
                 /\ code[c].phone \in User
<1> DEFINE c == req[r].code
           pc == IF req[r].op = "reset" THEN "reset"
                 ELSE IF code[c].user = Nobody THEN "provision" ELSE "build"
           n == [code[c] EXCEPT !.is = "used", !.uses = @ + 1]
           q == [req[r] EXCEPT !.user = code[c].phone, !.pc = pc]
<1>1. CASE ~Consumable(c)
  BY <1>1 DEF VerifyRight
<1>2. CASE Consumable(c)
  <2>1. c \in Code /\ code[c] \in OtpChallenge /\ req[r] \in OnItsWay
    BY HasCode DEF VerifyRight, TypeOK
  <2>2. code[c].phone \in User
    BY <2>1 DEF OtpChallenge
  <2>3. pc \in {"reset", "provision", "build"} /\ (pc = "reset" <=> req[r].op = "reset")
    OBVIOUS
  <2>4. q \in OnItsWay
    <3> HIDE DEF pc
    <3> QED
      BY <2>1, <2>2, <2>3 DEF OnItsWay, Steps
  <2>5. /\ n \in OtpChallenge /\ n.is = "used" /\ n.uses = code[c].uses + 1
        /\ n.attempts = code[c].attempts
    <3>1. code[c].uses + 1 \in Nat
      BY <2>1 DEF OtpChallenge
    <3>2. n = [code[c] EXCEPT !.is = "used", !.uses = code[c].uses + 1]
      BY <2>1 DEF OtpChallenge
    <3> QED
      BY <2>1, <3>1, <3>2 DEF OtpChallenge
  <2>6. code' = [code EXCEPT ![c] = n] /\ req' = [req EXCEPT ![r] = q]
    <3>1. /\ code' = [code EXCEPT ![c].is = "used", ![c].uses = @ + 1]
          /\ req' = [req EXCEPT ![r] = q]
      BY <1>2 DEF VerifyRight
    <3>2. [code EXCEPT ![c].is = "used", ![c].uses = @ + 1] = [code EXCEPT ![c] = n]
      BY <2>1 DEF TypeOK, OtpChallenge
    <3> QED
      BY <3>1, <3>2
  <2> HIDE DEF n, pc
  <2>7. /\ code' \in [Code -> OtpChallenge] /\ code'[c] = n
        /\ \A d \in Code \ {c} : code'[d] = code[d]
    BY <2>1, <2>5, <2>6 DEF TypeOK
  <2> DEFINE qq == q
  <2>8. qq \in OnItsWay /\ req' = [req EXCEPT ![r] = qq]
    BY <2>4, <2>6
  <2> HIDE DEF qq
  <2>9. req' \in [Request -> OnItsWay] /\ OthersWait(r) /\ req'[r] = qq
    BY <2>8 DEF TypeOK, OthersWait
  <2> QED
    BY <1>2, <2>1, <2>2, <2>3, <2>5, <2>7, <2>9 DEF qq
<1> QED
  BY <1>1, <1>2

LEMMA WrongCode ==
  ASSUME TypeOK, RequestsInOrder, NEW r \in Request, VerifyWrong(r)
  PROVE  LET c == req[r].code IN
         /\ c \in Code
         /\ code' \in [Code -> OtpChallenge]
         /\ code'[c].is = code[c].is /\ code'[c].uses = code[c].uses
         /\ code'[c].attempts = code[c].attempts + 1
         /\ \A d \in Code \ {c} : code'[d] = code[d]
<1> DEFINE c == req[r].code
           n == [code[c] EXCEPT !.attempts = @ + 1]
<1>1. c \in Code /\ code[c] \in OtpChallenge
  BY HasCode DEF VerifyWrong, TypeOK
<1>2. /\ n \in OtpChallenge /\ n.is = code[c].is /\ n.uses = code[c].uses
      /\ n.attempts = code[c].attempts + 1
  BY <1>1 DEF OtpChallenge
<1>3. code' = [code EXCEPT ![c] = n]
  BY DEF VerifyWrong
<1> HIDE DEF n
<1> QED
  BY <1>1, <1>2, <1>3 DEF TypeOK

LEMMA VerifyingCodeType ==
  ASSUME TypeOK, RequestsInOrder, NEW r \in Request, VerifyingCode(r)
  PROVE  TypeOK'
<1>1. UNCHANGED <<token, server, stray>>
  BY DEF VerifyingCode, VerifyRead, VerifyWrong, VerifyRight, SignUpExists, ContactVerified
<1>2. CASE VerifyRight(r)
  <2>1. Tables /\ code' \in [Code -> OtpChallenge]
    <3>1. CASE Refuse(r) /\ UNCHANGED code
      BY <1>1, <3>1, RefuseType DEF TypeOK
    <3>2. CASE ~(Refuse(r) /\ UNCHANGED code)
      BY <1>1, <1>2, <3>2, RightCode DEF Tables, TypeOK
    <3> QED
      BY <3>1, <3>2
  <2>2. account' = account
    BY <1>2 DEF VerifyRight
  <2> QED
    BY <1>1, <2>1, <2>2 DEF TypeOK, Tables, server
<1>3. CASE VerifyWrong(r)
  <2>1. Tables /\ code' \in [Code -> OtpChallenge] /\ account' = account
    BY <1>1, <1>3, RefuseType, WrongCode DEF VerifyWrong
  <2> QED
    BY <1>1, <2>1 DEF TypeOK, Tables, server
<1>4. CASE VerifyRead(r) \/ SignUpExists(r) \/ ContactVerified(r)
  <2>1. Tables
    <3>1. \/ Refuse(r)
          \/ \E pc \in {"right", "wrong", "build"} : Go(r, pc)
          \/ req' = req
      BY <1>4 DEF VerifyRead, SignUpExists, ContactVerified
    <3> QED
      BY <1>1, <3>1, GoType, RefuseType DEF Steps, Tables, TypeOK
  <2>2. account' \in [User -> Status] /\ code' = code
    BY <1>4 DEF VerifyRead, SignUpExists, ContactVerified, TypeOK, Status
  <2> QED
    BY <1>1, <2>1, <2>2 DEF TypeOK, Tables, server
<1> QED
  BY <1>2, <1>3, <1>4 DEF VerifyingCode

LEMMA TokenType ==
  ASSUME TypeOK, RequestsInOrder, NEW r \in Request,
         RotateRead(r) \/ Minting(r) \/ RevokeSession(r) \/ ResetPassword(r)
  PROVE  TypeOK'
<1>1. CASE RotateRead(r)
  <2>1. Tables
    <3>1. \/ Refuse(r) /\ \E S : Revoke(S)
          \/ Refuse(r) /\ token' = token
          \/ Go(r, "rotate") /\ token' = token
      BY <1>1 DEF RotateRead
    <3> QED
      BY <3>1, GoType, RefuseType DEF Steps
  <2>2. stray' \subseteq 1 .. MaxTokens /\ mistaken' \in BOOLEAN
    <3>1. req[r].token \in 0 .. MaxTokens
      BY DEF TypeOK, OnItsWay
    <3>2. stray' = stray \/ stray' = stray \union ({req[r].token} \ {0})
      BY <1>1 DEF RotateRead, GiveUp
    <3>3. mistaken' \in BOOLEAN
      BY <1>1, ZenonT(30) DEF RotateRead, TypeOK
    <3> QED
      <4>1. {req[r].token} \ {0} \subseteq 1 .. MaxTokens
        BY <3>1, AccountsAssumption
      <4> QED
        BY <3>2, <3>3, <4>1 DEF TypeOK
  <2> QED
    BY <1>1, <2>1, <2>2 DEF RotateRead, TypeOK, Tables
<1>2. CASE Minting(r)
  <2>1. Tables /\ stray' \subseteq 1 .. MaxTokens
    <3> DEFINE n == Len(token) + 1
    <3>1. /\ n \in 1 .. MaxTokens
          /\ token' \in Seq(RefreshToken) /\ Len(token') = n
          /\ req' \in [Request -> OnItsWay]
          /\ stray' = stray \union (IF req[r].wanted THEN {} ELSE {n})
      BY <1>2, Minted
    <3> HIDE DEF n
    <3> QED
      BY <3>1, AccountsAssumption DEF Tables, TypeOK
  <2>2. UNCHANGED <<account, code, server>>
    BY <1>2 DEF Minting, RotateWrite, BuildSession
  <2> QED
    BY <2>1, <2>2 DEF TypeOK, Tables, server
<1>3. CASE RevokeSession(r)
  <2>1. Tables
    BY <1>3, RefuseType DEF RevokeSession
  <2> QED
    BY <1>3, <2>1 DEF RevokeSession, TypeOK, Tables, server
<1>4. CASE ResetPassword(r)
  <2>1. Tables
    BY <1>4, RefuseType DEF ResetPassword
  <2>2. account' \in [User -> Status]
    BY <1>4 DEF ResetPassword, TypeOK, Status
  <2> QED
    BY <1>4, <2>1, <2>2 DEF ResetPassword, TypeOK, Tables, server
<1> QED
  BY <1>1, <1>2, <1>3, <1>4

\* What the app sends, and what another device does.
Sending(r) ==
  \/ RefreshSession(r) \/ SignOut(r)
  \/ \E op \in SignIns, u \in User \union {Nobody}, c \in Code \union {Nobody} :
       SignIn(r, op, u, c)
  \/ \E op \in {"verify", "reset"}, c \in Code : Elsewhere(r, op, c)

LEMMA Sent ==
  ASSUME TypeOK, NEW r \in Request, Sending(r)
  PROVE  /\ req[r] = Idle
         /\ req' \in [Request -> OnItsWay]
         /\ OthersWait(r)
         /\ UNCHANGED <<account, token, code, faults, closures, mistaken, stray>>
         /\ app' \in App /\ app'.stored = app.stored
         /\ req'[r].pc = "sent" /\ req'[r].op # "none"
         /\ req'[r].op \in {"login", "register", "oauth"} => req'[r].user \in User
         /\ req'[r].op \in {"verify", "reset"} => req'[r].code \in Code
         /\ IF req'[r].op \in {"refresh", "logout"}
              THEN req'[r].token = app.stored /\ req'[r].wanted
              ELSE req'[r].token = 0
         /\ IF req'[r].op = "refresh"
              THEN app.stored # 0 /\ app.refreshing = Nobody /\ app'.refreshing = r
              ELSE app'.refreshing = app.refreshing
<1>1. app \in App
  BY DEF TypeOK
<1>2. CASE RefreshSession(r)
  <2> DEFINE q == [New("refresh") EXCEPT !.token = app.stored]
  <2>1. /\ q \in OnItsWay /\ q.pc = "sent" /\ q.op = "refresh" /\ q.wanted
        /\ q.token = app.stored
    BY <1>1, IdleType DEF New, Idle, OnItsWay, App, SignIns
  <2>2. Send(r, q) /\ app' = [app EXCEPT !.refreshing = r]
    BY <1>2 DEF RefreshSession
  <2>3. app' \in App /\ app'.stored = app.stored /\ app'.refreshing = r
    BY <1>1, <2>2 DEF App
  <2> HIDE DEF q
  <2>4. req' \in [Request -> OnItsWay] /\ OthersWait(r) /\ req'[r] = q /\ req[r] = Idle
    BY <2>1, <2>2, SendRows
  <2> QED
    BY <1>2, <2>1, <2>3, <2>4 DEF RefreshSession, MayRefresh
<1>3. CASE SignOut(r)
  <2> DEFINE q == [New("logout") EXCEPT !.token = app.stored]
  <2>1. /\ q \in OnItsWay /\ q.pc = "sent" /\ q.op = "logout" /\ q.wanted
        /\ q.token = app.stored
    BY <1>1, IdleType DEF New, Idle, OnItsWay, App, SignIns
  <2>2. Send(r, q) /\ app' = [app EXCEPT !.leaving = TRUE]
    BY <1>3 DEF SignOut
  <2>3. app' \in App /\ app'.stored = app.stored /\ app'.refreshing = app.refreshing
    BY <1>1, <2>2 DEF App
  <2> HIDE DEF q
  <2>4. req' \in [Request -> OnItsWay] /\ OthersWait(r) /\ req'[r] = q /\ req[r] = Idle
    BY <2>1, <2>2, SendRows
  <2> QED
    BY <1>3, <2>1, <2>3, <2>4 DEF SignOut
<1>4. ASSUME NEW op \in SignIns, NEW u \in User \union {Nobody},
             NEW c \in Code \union {Nobody}, SignIn(r, op, u, c)
      PROVE  /\ req' \in [Request -> OnItsWay] /\ OthersWait(r) /\ req[r] = Idle
             /\ UNCHANGED <<account, token, code, server, stray>>
             /\ req'[r].pc = "sent" /\ req'[r].op \in SignIns /\ req'[r].token = 0
             /\ req'[r].op \in {"login", "register", "oauth"} => req'[r].user \in User
             /\ req'[r].op \in {"verify", "reset"} => req'[r].code \in Code
  <2> DEFINE q == [New(op) EXCEPT !.user = u, !.code = c]
  <2>1. /\ q \in OnItsWay /\ q.pc = "sent" /\ q.op = op /\ q.token = 0
        /\ q.user = u /\ q.code = c
    BY IdleType DEF New, Idle, OnItsWay, SignIns
  <2>2. Send(r, q) /\ UNCHANGED <<account, token, code, server, stray>>
    BY <1>4 DEF SignIn
  <2>3. IF op = "verify" THEN c \in Code ELSE u \in User /\ op # "reset"
    BY <1>4 DEF SignIn, SignIns
  <2> HIDE DEF q
  <2>4. req' \in [Request -> OnItsWay] /\ OthersWait(r) /\ req'[r] = q /\ req[r] = Idle
    BY <2>1, <2>2, SendRows
  <2> QED
    BY <2>1, <2>2, <2>3, <2>4
<1>5. ASSUME NEW op \in {"verify", "reset"}, NEW c \in Code, Elsewhere(r, op, c)
      PROVE  /\ req' \in [Request -> OnItsWay] /\ OthersWait(r) /\ req[r] = Idle
             /\ UNCHANGED <<account, token, code, server, stray>>
             /\ req'[r].pc = "sent" /\ req'[r].op = op /\ req'[r].token = 0
             /\ req'[r].code \in Code
  <2> DEFINE q == [Idle EXCEPT !.op = op, !.code = c]
  <2>1. q \in OnItsWay /\ q.pc = "sent" /\ q.op = op /\ q.token = 0 /\ q.code = c
    BY IdleType DEF Idle, OnItsWay, SignIns
  <2>2. Send(r, q) /\ UNCHANGED <<account, token, code, server, stray>>
    BY <1>5 DEF Elsewhere
  <2> HIDE DEF q
  <2>3. req' \in [Request -> OnItsWay] /\ OthersWait(r) /\ req'[r] = q /\ req[r] = Idle
    BY <2>1, <2>2, SendRows
  <2> QED
    BY <2>1, <2>2, <2>3
<1> QED
  BY <1>1, <1>2, <1>3, <1>4, <1>5 DEF Sending, SignIns, server

LEMMA SendingType ==
  ASSUME TypeOK, NEW r \in Request, Sending(r)
  PROVE  TypeOK'
BY Sent DEF TypeOK

\* What the app knows after an answer.
LEMMA AfterRows ==
  ASSUME TypeOK, NEW q \in OnItsWay
  PROVE  /\ After(q) \in App
         /\ After(q).stored = IF q.pc = "tokens" THEN q.token
                              ELSE IF q.op \in {"refresh", "logout"} THEN 0
                              ELSE app.stored
         /\ After(q).refreshing = IF q.op = "refresh" THEN Nobody ELSE app.refreshing
<1>1. app \in App /\ q.token \in 0 .. MaxTokens /\ 0 \in 0 .. MaxTokens
  BY AccountsAssumption DEF TypeOK, OnItsWay
<1>2. CASE q.pc = "tokens"
  <2>1. After(q) = [app EXCEPT !.stored = q.token, !.ui = "in",
                      !.refreshing = IF q.op = "refresh" THEN Nobody ELSE @]
    BY <1>2 DEF After
  <2> QED
    BY <1>1, <1>2, <2>1 DEF App
<1>3. CASE q.pc # "tokens" /\ q.op = "refresh"
  <2>1. After(q) = [app EXCEPT !.stored = 0, !.ui = "out", !.refreshing = Nobody]
    BY <1>3 DEF After
  <2> QED
    BY <1>1, <1>3, <2>1 DEF App
<1>4. CASE q.pc # "tokens" /\ q.op = "logout"
  <2>1. After(q) = [app EXCEPT !.stored = 0, !.ui = "out", !.leaving = FALSE]
    BY <1>4 DEF After
  <2> QED
    BY <1>1, <1>4, <2>1 DEF App
<1>5. CASE q.pc # "tokens" /\ q.op \notin {"refresh", "logout"}
  <2>1. After(q) = app
    BY <1>5 DEF After
  <2> QED
    BY <1>1, <1>5, <2>1
<1> QED
  BY <1>2, <1>3, <1>4, <1>5

LEMMA Received ==
  ASSUME TypeOK, NEW r \in Request, Receive(r)
  PROVE  /\ req' \in [Request -> OnItsWay]
         /\ OthersWait(r) /\ req'[r] = Idle
         /\ app' \in App
         /\ app'.stored = IF req[r].pc = "tokens" THEN req[r].token
                          ELSE IF req[r].op \in {"refresh", "logout"} THEN 0
                          ELSE app.stored
         /\ app'.refreshing = IF req[r].op = "refresh" THEN Nobody ELSE app.refreshing
         /\ stray' = stray \union {t \in {app.stored} \ {0} :
                                     app'.stored # t /\ ~Concerns(req[r], t)}
<1>1. req[r] \in OnItsWay
  BY DEF TypeOK
<1>2. app' = After(req[r]) /\ req' = [req EXCEPT ![r] = Idle]
  BY DEF Receive
<1>3. /\ app' \in App
      /\ app'.stored = IF req[r].pc = "tokens" THEN req[r].token
                       ELSE IF req[r].op \in {"refresh", "logout"} THEN 0
                       ELSE app.stored
      /\ app'.refreshing = IF req[r].op = "refresh" THEN Nobody ELSE app.refreshing
  BY <1>1, <1>2, AfterRows
<1>4. stray' = stray \union {t \in {app.stored} \ {0} :
                              app'.stored # t /\ ~Concerns(req[r], t)}
  <2>1. stray' = stray \union (Forgotten(req[r]) \ {0})
    BY DEF Receive, GiveUp
  <2>2. Forgotten(req[r]) = {t \in {app.stored} \ {0} :
                              app'.stored # t /\ ~Concerns(req[r], t)}
    BY <1>2 DEF Forgotten
  <2> QED
    BY <2>1, <2>2
<1>5. req' \in [Request -> OnItsWay] /\ OthersWait(r) /\ req'[r] = Idle
  BY <1>2, IdleType DEF TypeOK, OthersWait
<1> QED
  BY <1>3, <1>4, <1>5

\* Nobody waits for the requests in S any more.
Abandoned(S) ==
  /\ req' \in [Request -> OnItsWay]
  /\ \A s \in Request \ S : req'[s] = req[s]
  /\ \A s \in S : IF req[s].pc \in {"tokens", "refused"} THEN req'[s] = Idle
                  ELSE req'[s] = [req[s] EXCEPT !.wanted = FALSE]
  /\ faults' = faults + 1 /\ faults' + closures <= MaxMishaps

LEMMA UnwantedRows ==
  ASSUME TypeOK, NEW S \in SUBSET Request, Unwanted(S)
  PROVE  Abandoned(S)
<1> DEFINE n(s) == IF s \notin S THEN req[s]
                   ELSE IF req[s].pc \in {"tokens", "refused"} THEN Idle
                   ELSE [req[s] EXCEPT !.wanted = FALSE]
<1>1. ASSUME NEW s \in Request PROVE n(s) \in OnItsWay
  <2>1. req[s] \in OnItsWay
    BY DEF TypeOK
  <2>2. [req[s] EXCEPT !.wanted = FALSE] \in OnItsWay
    BY <2>1 DEF OnItsWay
  <2> QED
    BY <2>1, <2>2, IdleType
<1>2. req' = [s \in Request |-> n(s)]
  BY DEF Unwanted
<1>3. \A s \in S : n(s) = IF req[s].pc \in {"tokens", "refused"} THEN Idle
                         ELSE [req[s] EXCEPT !.wanted = FALSE]
  OBVIOUS
<1>4. \A s \in Request \ S : n(s) = req[s]
  OBVIOUS
<1>5. faults' = faults + 1 /\ faults' + closures <= MaxMishaps
  BY AccountsAssumption DEF Unwanted, TypeOK
<1> HIDE DEF n
<1> QED
  BY <1>1, <1>2, <1>3, <1>4, <1>5 DEF Abandoned

LEMMA LostRows ==
  ASSUME TypeOK, NEW S \in SUBSET Request
  PROVE  Lost(S) \subseteq 0 .. MaxTokens
BY DEF Lost, TypeOK, OnItsWay

Strayed(S) == stray' = stray \union (S \ {0})

LEMMA LostAnswer ==
  ASSUME TypeOK, NEW r \in Request, LoseAnswer(r)
  PROVE  /\ req[r].wanted /\ Abandoned({r})
         /\ app' \in App /\ stray' \subseteq 1 .. MaxTokens
         /\ app'.refreshing = IF req[r].op = "refresh" THEN Nobody ELSE app.refreshing
         /\ IF req[r].op = "logout"
              THEN /\ app'.stored = IF req[r].pc = "tokens" THEN req[r].token ELSE 0
                   /\ Strayed({req[r].token, app.stored})
              ELSE /\ app'.stored = app.stored
                   /\ Strayed(IF req[r].pc = "tokens" THEN {req[r].token} ELSE {})
<1>1. app \in App /\ req[r] \in OnItsWay
  BY DEF TypeOK
<1>2. req[r].wanted /\ Abandoned({r})
  BY UnwantedRows DEF LoseAnswer
<1>3. Lost({r}) = IF req[r].pc = "tokens" THEN {req[r].token} ELSE {}
  BY DEF Lost
<1>4. ASSUME NEW S \in SUBSET (0 .. MaxTokens), Strayed(S)
      PROVE  stray' \subseteq 1 .. MaxTokens
  <2>1. S \ {0} \subseteq 1 .. MaxTokens
    BY AccountsAssumption
  <2> QED
    BY <1>4, <2>1 DEF Strayed, TypeOK
<1>5. CASE req[r].op = "refresh"
  <2>1. /\ \E ui \in {"in", "out", "loading"} :
              app' = [app EXCEPT !.refreshing = Nobody, !.ui = ui]
        /\ Strayed(Lost({r}))
    BY <1>1, <1>5 DEF LoseAnswer, GiveUp, Strayed, App
  <2>2. app' \in App /\ app'.stored = app.stored /\ app'.refreshing = Nobody
    BY <1>1, <2>1 DEF App
  <2> QED
    BY <1>2, <1>3, <1>4, <1>5, <2>1, <2>2, LostRows
<1>6. CASE req[r].op = "logout"
  <2>1. app' = After(req[r]) /\ Strayed({req[r].token, app.stored})
    BY <1>6 DEF LoseAnswer, GiveUp, Strayed
  <2>2. {req[r].token, app.stored} \in SUBSET (0 .. MaxTokens)
    BY <1>1 DEF OnItsWay, App
  <2> QED
    BY <1>1, <1>2, <1>4, <1>6, <2>1, <2>2, AfterRows
<1>7. CASE req[r].op \notin {"refresh", "logout"}
  <2>1. app' = app /\ Strayed(Lost({r}))
    BY <1>7 DEF LoseAnswer, GiveUp, Strayed
  <2> QED
    BY <1>1, <1>2, <1>3, <1>4, <1>7, <2>1, LostRows
<1> QED
  BY <1>5, <1>6, <1>7

Mine == {r \in Request : req[r].wanted}

LEMMA Stopped ==
  ASSUME TypeOK, Stop
  PROVE  /\ Abandoned(Mine)
         /\ app' \in App /\ app'.stored = app.stored /\ app'.refreshing = Nobody
         /\ Strayed(Lost(Mine)) /\ stray' \subseteq 1 .. MaxTokens
<1>1. app \in App
  BY DEF TypeOK
<1>2. Mine \in SUBSET Request
  BY DEF Mine
<1>3. Unwanted(Mine) /\ Strayed(Lost(Mine))
  BY DEF Stop, Mine, GiveUp, Strayed
<1>4. app' \in App /\ app'.stored = app.stored /\ app'.refreshing = Nobody
  BY <1>1 DEF Stop, App
<1>5. stray' \subseteq 1 .. MaxTokens
  <2>1. Lost(Mine) \ {0} \subseteq 1 .. MaxTokens
    BY <1>2, LostRows, AccountsAssumption
  <2> QED
    BY <1>3, <2>1 DEF Strayed, TypeOK
<1> QED
  BY <1>2, <1>3, <1>4, <1>5, UnwantedRows

LEMMA AppType ==
  ASSUME TypeOK,
         Stop \/ Launch \/ \E r \in Request : Receive(r) \/ LoseAnswer(r)
  PROVE  TypeOK'
<1>1. CASE Stop
  <2>1. UNCHANGED <<account, token, code, closures, mistaken>>
    BY <1>1 DEF Stop, Unwanted
  <2> QED
    BY <1>1, <2>1, Stopped DEF Abandoned, TypeOK
<1>2. CASE Launch
  <2>1. app' \in App
    BY <1>2 DEF Launch, TypeOK, App
  <2> QED
    BY <1>2, <2>1 DEF Launch, TypeOK
<1>3. ASSUME NEW r \in Request, Receive(r) PROVE TypeOK'
  <2>1. UNCHANGED <<account, token, code, faults, closures, mistaken>>
    BY <1>3 DEF Receive
  <2>2. stray' \subseteq 1 .. MaxTokens
    <3>1. app.stored \in 0 .. MaxTokens
      BY DEF TypeOK, App
    <3>2. {app.stored} \ {0} \subseteq 1 .. MaxTokens
      BY <3>1, AccountsAssumption
    <3> QED
      BY <1>3, <3>2, Received DEF TypeOK
  <2> QED
    BY <1>3, <2>1, <2>2, Received DEF TypeOK
<1>4. ASSUME NEW r \in Request, LoseAnswer(r) PROVE TypeOK'
  <2>1. UNCHANGED <<account, token, code, closures, mistaken>>
    BY <1>4 DEF LoseAnswer, Unwanted
  <2> QED
    <3>1. Abandoned({r}) /\ app' \in App /\ stray' \subseteq 1 .. MaxTokens
      BY <1>4, LostAnswer
    <3> QED
      BY <2>1, <3>1 DEF Abandoned, TypeOK
<1> QED
  BY <1>1, <1>2, <1>3, <1>4

\* Whatever closes an account: at most its tokens are revoked.
Closing ==
  \E u \in User :
    \/ DeactivateAccount(u) \/ DeleteAccount(u) \/ LogoutEverywhere(u)
    \/ \E s \in {"active", "suspended", "deactivated"} : UpdateUser(u, s)

LEMMA ClosedRows ==
  ASSUME TypeOK, Closing
  PROVE  /\ UNCHANGED <<code, req, app, faults, mistaken, stray>>
         /\ token' = token \/ \E S : Revoke(S)
         /\ account' \in [User -> Status]
         /\ closures' = closures + 1 /\ faults + closures < MaxMishaps
<1>1. PICK u \in User, from \in SUBSET Status, to \in Status, b \in BOOLEAN :
        Close(u, from, to, b)
  <2>1. ASSUME NEW u \in User PROVE account[u] \in Status
    BY DEF TypeOK
  <2>2. Open \subseteq Status /\ Status \ {"none", "deleted"} \subseteq Status
        /\ {"active", "suspended", "deactivated", "deleted"} \subseteq Status
    BY DEF Open, Status
  <2>3. ASSUME NEW u \in User, DeactivateAccount(u) \/ DeleteAccount(u) \/ LogoutEverywhere(u)
        PROVE  \E from \in SUBSET Status, to \in Status, b \in BOOLEAN :
                 Close(u, from, to, b)
    <3>1. CASE DeactivateAccount(u)
      BY <2>2, <3>1 DEF DeactivateAccount
    <3>2. CASE DeleteAccount(u)
      BY <2>2, <3>2 DEF DeleteAccount
    <3>3. CASE LogoutEverywhere(u)
      BY <2>1, <2>2, <3>3 DEF LogoutEverywhere
    <3> QED
      BY <2>3, <3>1, <3>2, <3>3
  <2>4. ASSUME NEW u \in User, NEW s \in {"active", "suspended", "deactivated"},
               UpdateUser(u, s)
        PROVE  \E from \in SUBSET Status, to \in Status, b \in BOOLEAN :
                 Close(u, from, to, b)
    <3>1. Status \ {"none", "deleted", s} \in SUBSET Status /\ s \in Status
          /\ (s = "suspended") \in BOOLEAN
      BY <2>2
    <3> QED
      BY <2>4, <3>1 DEF UpdateUser
  <2> QED
    BY <2>3, <2>4 DEF Closing
<1>2. /\ faults + closures < MaxMishaps /\ closures' = closures + 1
      /\ account' = [account EXCEPT ![u] = to]
      /\ UNCHANGED <<code, req, app, faults, mistaken, stray>>
  BY <1>1 DEF Close
<1>3. token' = token \/ Revoke(TokensOf(u))
  BY <1>1 DEF Close
<1> QED
  BY <1>2, <1>3 DEF TypeOK

LEMMA ClosingType ==
  ASSUME TypeOK, Closing
  PROVE  TypeOK'
<1>1. /\ UNCHANGED <<code, req, app, faults, mistaken, stray>>
      /\ token' = token \/ \E S : Revoke(S)
      /\ account' \in [User -> Status]
      /\ closures' = closures + 1 /\ faults + closures < MaxMishaps
  BY ClosedRows
<1>2. token' \in Seq(RefreshToken) /\ Len(token') <= MaxTokens
  BY <1>1, RevokeRows DEF TypeOK
<1>3. closures' \in Nat /\ faults' + closures' <= MaxMishaps
  BY <1>1, AccountsAssumption DEF TypeOK
<1> QED
  BY <1>1, <1>2, <1>3 DEF TypeOK

Issuing ==
  \E c \in Code, u \in User, p \in {"signup", "login", "contact", "reset"} :
    IssueOtp(c, u, p)

LEMMA Issued ==
  ASSUME TypeOK, Issuing
  PROVE  /\ UNCHANGED <<account, token, req, app, faults, closures, mistaken, stray>>
         /\ code' \in [Code -> OtpChallenge]
         /\ \A c \in Code :
              \/ code'[c] = code[c]
              \/ /\ code[c].is = "unsent" /\ code'[c].is = "sent"
                 /\ code'[c].uses = code[c].uses
                 /\ code'[c].attempts = code[c].attempts
<1>1. PICK c \in Code, u \in User, p \in {"signup", "login", "contact", "reset"} :
        IssueOtp(c, u, p)
  BY DEF Issuing
<1> DEFINE n == [code[c] EXCEPT !.is = "sent", !.phone = u, !.purpose = p,
                   !.user = IF p = "signup" THEN Nobody ELSE u]
<1>2. code[c] \in OtpChallenge
  BY DEF TypeOK
<1>3. /\ n \in OtpChallenge /\ n.is = "sent"
      /\ n.uses = code[c].uses /\ n.attempts = code[c].attempts
  BY <1>2 DEF OtpChallenge
<1>4. code' = [code EXCEPT ![c] = n]
  BY <1>1 DEF IssueOtp
<1>5. code[c].is = "unsent"
  BY <1>1 DEF IssueOtp
<1>6. UNCHANGED <<account, token, req, app, faults, closures, mistaken, stray>>
  BY <1>1 DEF IssueOtp, server
<1> HIDE DEF n
<1> QED
  BY <1>3, <1>4, <1>5, <1>6 DEF TypeOK

\* Every step is one of these.
LEMMA StepKinds ==
  ASSUME [Next]_vars
  PROVE  \/ \E r \in Request :
              \/ SigningIn(r) \/ VerifyingCode(r) \/ RotateRead(r) \/ Minting(r)
              \/ RevokeSession(r) \/ ResetPassword(r) \/ Sending(r)
              \/ Receive(r) \/ LoseAnswer(r)
         \/ Issuing \/ Closing \/ Launch \/ Stop
         \/ UNCHANGED vars
BY Zenon
   DEF Next, SigningIn, VerifyingCode, Minting, Sending, Issuing, Closing

LEMMA TypeNext ==
  ASSUME TypeOK, RequestsInOrder, [Next]_vars
  PROVE  TypeOK'
<1>1. CASE UNCHANGED vars
  BY <1>1 DEF vars, TypeOK
<1>2. CASE Issuing
  BY <1>2, Issued DEF TypeOK
<1> QED
  BY <1>1, <1>2, StepKinds, SigningInType, VerifyingCodeType, TokenType, SendingType,
     AppType, ClosingType

-----------------------------------------------------------------------------
(***************************************************************************)
(* Requests and tokens stay in order.                                      *)
(***************************************************************************)
\* One row of RequestsInOrder, when the tokens are those in D.
Ordered(q, D) ==
  /\ q.op = "none" => q = Idle
  /\ q.pc \in {"tokens", "refused"} => q.wanted
  /\ q.op = "refresh" => q.pc \in {"sent", "rotate", "tokens", "refused"}
  /\ q.op = "logout" => q.pc \in {"sent", "refused"}
  /\ q.pc = "rotate" => q.op = "refresh"
  /\ q.op \in {"login", "register", "oauth"} => q.pc \notin {"right", "wrong", "reset"}
  /\ \/ q.op \in {"login", "register", "oauth"} /\ q.pc \notin {"tokens", "refused"}
     \/ q.pc \in {"reactivate", "provision", "build", "reset"}
     => q.user \in User
  /\ q.op \in {"verify", "reset"} /\ q.pc \notin {"tokens", "refused"} => q.code \in Code
  /\ q.token \in D \union {0}
  /\ q.op = "refresh" \/ q.pc = "tokens" => q.token # 0
  /\ q.op \notin {"refresh", "logout"} /\ q.pc # "tokens" => q.token = 0

LEMMA OrderedRows ==
  RequestsInOrder => \A r \in Request : Ordered(req[r], DOMAIN token)
BY DEF RequestsInOrder, Ordered, Answered

LEMMA OrderedIdle == \A D : Ordered(Idle, D)
BY DEF Ordered, Idle

\* A row that goes to another step and keeps the rest.
LEMMA OrderedGo ==
  ASSUME NEW q \in OnItsWay, NEW D, Ordered(q, D), NEW pc,
         q.op # "none", pc \notin {"tokens", "refused"},
         q.op = "refresh" => pc = "rotate",
         pc = "rotate" => q.op = "refresh",
         q.op # "logout", q.op \in {"login", "register", "oauth"} => pc \notin {"right", "wrong", "reset"},
         pc \in {"reactivate", "provision", "build", "reset"} => q.user \in User,
         q.pc \notin {"tokens", "refused"}
  PROVE  Ordered([q EXCEPT !.pc = pc], D)
<1> DEFINE n == [q EXCEPT !.pc = pc]
<1>1. /\ n.op = q.op /\ n.pc = pc /\ n.user = q.user /\ n.token = q.token
      /\ n.code = q.code /\ n.wanted = q.wanted
  BY DEF OnItsWay
<1> HIDE DEF n
<1>2. Ordered(n, D)
  BY <1>1 DEF Ordered
<1> QED
  BY <1>2 DEF n

LEMMA OrderedTold ==
  ASSUME NEW op, op # "none", NEW D, NEW t,
         NEW pc \in {"tokens", "refused"}, op = "logout" => pc = "refused",
         t \in D \union {0},
         op = "refresh" \/ pc = "tokens" => t # 0,
         op \notin {"refresh", "logout"} /\ pc # "tokens" => t = 0
  PROVE  Ordered(Told(op, pc, t), D)
BY DEF Ordered, Told

LEMMA OrderedMore ==
  ASSUME NEW q, NEW D, NEW E, D \subseteq E, Ordered(q, D)
  PROVE  Ordered(q, E)
BY DEF Ordered

\* A refused request keeps the token it came with.
LEMMA OrderedRefused ==
  ASSUME TypeOK, RequestsInOrder, NEW r \in Request, Refuse(r), req[r].pc # "tokens",
         DOMAIN token' = DOMAIN token
  PROVE  Ordered(req'[r], DOMAIN token')
<1>1. Ordered(req[r], DOMAIN token)
  BY OrderedRows
<1>2. CASE ~req[r].wanted
  BY <1>2, RefuseRows, OrderedIdle
<1>3. CASE req[r].wanted
  <2>1. req[r].op # "none"
    BY <1>1, <1>3 DEF Ordered, Idle
  <2>2. /\ req[r].token \in DOMAIN token \union {0}
        /\ req[r].op = "refresh" => req[r].token # 0
        /\ req[r].op \notin {"refresh", "logout"} => req[r].token = 0
    BY <1>1 DEF Ordered
  <2>3. req'[r] = Told(req[r].op, "refused", req[r].token)
    BY <1>3, RefuseRows
  <2> QED
    BY <2>1, <2>2, <2>3, OrderedTold
<1> QED
  BY <1>2, <1>3

\* The steps of the server's requests.
LEMMA OrderedServer ==
  ASSUME TypeOK, RequestsInOrder, NEW r \in Request,
         SigningIn(r) \/ VerifyingCode(r) \/ RotateRead(r) \/ Minting(r)
         \/ RevokeSession(r) \/ ResetPassword(r)
  PROVE  /\ DOMAIN token \subseteq DOMAIN token'
         /\ OthersWait(r)
         /\ Ordered(req'[r], DOMAIN token')
<1> DEFINE D == DOMAIN token
<1>0. req[r] \in OnItsWay /\ Ordered(req[r], D)
  BY OrderedRows DEF TypeOK
<1>1. CASE Minting(r)
  <2> DEFINE n == Len(token) + 1
  <2>1. /\ token' \in Seq(RefreshToken) /\ Len(token') = n /\ n \in 1 .. MaxTokens
        /\ OthersWait(r)
        /\ req[r].wanted => req'[r] = Told(req[r].op, "tokens", n)
        /\ ~req[r].wanted => req'[r] = Idle
    BY <1>1, Minted
  <2>2. DOMAIN token' = 1 .. n /\ D = 1 .. Len(token) /\ Len(token) \in Nat
    BY <2>1 DEF TypeOK
  <2>3. D \subseteq DOMAIN token' /\ n \in DOMAIN token'
    BY <2>2
  <2>4. req[r].op \notin {"none", "logout"}
    BY <1>0, <1>1 DEF Minting, RotateWrite, BuildSession, At, Ordered, Idle
  <2> HIDE DEF n
  <2> QED
    BY <2>1, <2>3, <2>4, OrderedTold, OrderedIdle
<1>2. CASE \/ Refuse(r) /\ token' = token
           \/ Refuse(r) /\ \E S : Revoke(S)
  <2>1. req[r].pc # "tokens"
    BY <1>0
       DEF SigningIn, VerifyingCode, LoginRead, Reactivate, RegisterRead,
           OauthSignIn, Provision, VerifyRead, VerifyWrong, VerifyRight,
           SignUpExists, ContactVerified, RotateRead, RevokeSession,
           ResetPassword, Minting, RotateWrite, BuildSession, At
  <2>2. DOMAIN token' = DOMAIN token
    BY <1>2, RevokeRows DEF TypeOK
  <2> QED
    BY <1>2, <2>1, <2>2, OrderedRefused, RefuseRows
<1> DEFINE Goal == /\ D \subseteq DOMAIN token' /\ OthersWait(r)
                   /\ Ordered(req'[r], DOMAIN token')
<1>3. ASSUME NEW pc \in Steps \ {"tokens", "refused"}, Go(r, pc), token' = token,
             req[r].op \notin {"none", "logout"},
             req[r].pc \notin {"tokens", "refused"},
             req[r].op = "refresh" <=> pc = "rotate",
             req[r].op \in {"login", "register", "oauth"} =>
               pc \notin {"right", "wrong", "reset"},
             pc \in {"reactivate", "provision", "build", "reset"} => req[r].user \in User
      PROVE  Goal
  <2>1. req'[r] = [req[r] EXCEPT !.pc = pc] /\ OthersWait(r)
    BY <1>3, GoRows
  <2>2. Ordered([req[r] EXCEPT !.pc = pc], D)
    BY <1>0, <1>3, OrderedGo
  <2> QED
    BY <1>3, <2>1, <2>2
<1>4. CASE SigningIn(r)
  <2>1. ASSUME NEW pc \in {"build", "reactivate", "provision"}, Go(r, pc)
        PROVE  Goal
    <3>1. token' = token /\ req[r].pc \in {"sent", "reactivate", "provision"}
      BY <1>4 DEF SigningIn, LoginRead, Reactivate, RegisterRead, OauthSignIn, Provision, At
    <3>2. req[r].pc = "sent" => req[r].op \in {"login", "register", "oauth"}
      BY <1>4 DEF SigningIn, LoginRead, Reactivate, RegisterRead, OauthSignIn, Provision, At
    <3>3. req[r].user \in User
      BY <1>0, <3>1, <3>2 DEF Ordered
    <3>4. req[r].op \notin {"none", "logout", "refresh"}
      BY <1>0, <3>1, <3>2 DEF Ordered, Idle
    <3> QED
      BY <1>3, <2>1, <3>1, <3>3, <3>4 DEF Steps
  <2>2. token' = token /\ (Refuse(r) \/ \E pc \in {"build", "reactivate", "provision"} : Go(r, pc))
    BY <1>4 DEF SigningIn, LoginRead, Reactivate, RegisterRead, OauthSignIn, Provision
  <2> QED
    BY <1>2, <2>1, <2>2
<1>5. CASE RotateRead(r)
  <2>1. req[r].op = "refresh" /\ req[r].pc = "sent"
    BY <1>5 DEF RotateRead, At
  <2>2. CASE Go(r, "rotate") /\ token' = token
    BY <1>3, <2>1, <2>2 DEF Steps
  <2>3. \/ Refuse(r) /\ token' = token
        \/ Refuse(r) /\ \E S : Revoke(S)
        \/ Go(r, "rotate") /\ token' = token
    BY <1>5 DEF RotateRead
  <2> QED
    BY <1>2, <2>2, <2>3
<1>6. CASE RevokeSession(r) \/ ResetPassword(r)
  <2>1. Refuse(r) /\ \E S : Revoke(S)
    BY <1>6 DEF RevokeSession, ResetPassword
  <2> QED
    BY <1>2, <2>1
<1>7. CASE VerifyRead(r)
  <2>1. req[r].op \in {"verify", "reset"} /\ req[r].pc = "sent" /\ token' = token
    BY <1>7 DEF VerifyRead, At
  <2>2. Refuse(r) \/ Go(r, "right") \/ Go(r, "wrong")
    BY <1>7 DEF VerifyRead
  <2> QED
    BY <1>2, <1>3, <2>1, <2>2 DEF Steps
<1>8. CASE VerifyWrong(r)
  <2>1. Refuse(r) /\ token' = token
    BY <1>8 DEF VerifyWrong
  <2> QED
    BY <1>2, <2>1
<1>9. CASE SignUpExists(r)
  <2>1. /\ req[r].op = "verify" /\ req[r].pc = "provision"
        /\ token' = token /\ Go(r, "build")
    BY <1>9 DEF SignUpExists, At
  <2>2. req[r].user \in User
    BY <1>0, <2>1 DEF Ordered
  <2> QED
    BY <1>3, <2>1, <2>2 DEF Steps
<1>10. CASE ContactVerified(r)
  <2>1. token' = token /\ req' = req
    BY <1>10 DEF ContactVerified
  <2> QED
    BY <1>0, <2>1 DEF OthersWait
<1>11. CASE VerifyRight(r)
  <2>1. token' = token /\ req[r].pc = "right"
    BY <1>11 DEF VerifyRight
  <2>2. CASE Refuse(r)
    BY <1>2, <2>1, <2>2
  <2>3. CASE ~Refuse(r)
    <3> DEFINE c == req[r].code
    <3>1. OthersWait(r) /\ \E pc \in {"reset", "provision", "build"} :
             /\ req'[r] = [req[r] EXCEPT !.user = code[c].phone, !.pc = pc]
             /\ pc = "reset" <=> req[r].op = "reset"
             /\ code[c].phone \in User
      BY <1>11, <2>3, RightCode
    <3>2. PICK pc \in {"reset", "provision", "build"} :
             /\ req'[r] = [req[r] EXCEPT !.user = code[c].phone, !.pc = pc]
             /\ pc = "reset" <=> req[r].op = "reset"
             /\ code[c].phone \in User
      BY <3>1
    <3> DEFINE n == req'[r]
    <3>3. /\ n.op = req[r].op /\ n.pc = pc /\ n.user \in User
          /\ n.token = req[r].token /\ n.code = req[r].code
      BY <1>0, <3>2 DEF OnItsWay
    <3>4. req[r].op \in {"verify", "reset"}
      BY <1>0, <2>1 DEF Ordered, OnItsWay, SignIns, Idle
    <3> HIDE DEF n
    <3>5. Ordered(n, D)
      BY <1>0, <2>1, <3>2, <3>3, <3>4 DEF Ordered
    <3> QED
      BY <2>1, <3>1, <3>5 DEF n
  <2> QED
    BY <2>2, <2>3
<1> QED
  BY <1>1, <1>4, <1>5, <1>6, <1>7, <1>8, <1>9, <1>10, <1>11 DEF VerifyingCode

Serving(r) ==
  SigningIn(r) \/ VerifyingCode(r) \/ RotateRead(r) \/ Minting(r)
  \/ RevokeSession(r) \/ ResetPassword(r)

LEMMA ServingRows ==
  ASSUME TypeOK, RequestsInOrder, NEW r \in Request, Serving(r)
  PROVE  /\ DOMAIN token \subseteq DOMAIN token'
         /\ OthersWait(r)
         /\ Ordered(req'[r], DOMAIN token')
BY OrderedServer DEF Serving

\* A request that nobody waits for any more.
LEMMA OrderedAbandoned ==
  ASSUME TypeOK, RequestsInOrder, NEW S \in SUBSET Request, Abandoned(S),
         \A s \in S : req[s].wanted, NEW r \in Request
  PROVE  Ordered(req'[r], DOMAIN token)
<1>1. Ordered(req[r], DOMAIN token) /\ req[r] \in OnItsWay
  BY OrderedRows DEF TypeOK
<1>2. CASE r \notin S
  BY <1>1, <1>2 DEF Abandoned
<1>3. CASE r \in S /\ req[r].pc \in {"tokens", "refused"}
  BY <1>3, OrderedIdle DEF Abandoned
<1>4. CASE r \in S /\ req[r].pc \notin {"tokens", "refused"}
  <2> DEFINE n == [req[r] EXCEPT !.wanted = FALSE]
  <2>1. req'[r] = n
    BY <1>4 DEF Abandoned
  <2>2. /\ n.op = req[r].op /\ n.pc = req[r].pc /\ n.user = req[r].user
        /\ n.token = req[r].token /\ n.code = req[r].code
    BY <1>1 DEF OnItsWay
  <2>3. n.op # "none"
    BY <1>1, <1>4, <2>2 DEF Ordered, Idle
  <2> HIDE DEF n
  <2> QED
    BY <1>1, <1>4, <2>1, <2>2, <2>3 DEF Ordered
<1> QED
  BY <1>2, <1>3, <1>4

LEMMA RequestsNext ==
  ASSUME TypeOK, RequestsInOrder, TokensInOrder, [Next]_vars
  PROVE  RequestsInOrder'
<1>0. \A r \in Request : Ordered(req[r], DOMAIN token)
  BY OrderedRows
<1>1. ASSUME \A r \in Request : Ordered(req'[r], DOMAIN token')
      PROVE  RequestsInOrder'
  BY <1>1 DEF RequestsInOrder, Ordered, Answered
<1>2. ASSUME NEW r \in Request, OthersWait(r), DOMAIN token \subseteq DOMAIN token',
             Ordered(req'[r], DOMAIN token')
      PROVE  RequestsInOrder'
  <2>1. ASSUME NEW s \in Request PROVE Ordered(req'[s], DOMAIN token')
    BY <1>0, <1>2, OrderedMore DEF OthersWait
  <2> QED
    BY <1>1, <2>1
<1>3. ASSUME NEW r \in Request, Serving(r) PROVE RequestsInOrder'
  BY <1>2, <1>3, ServingRows
<1>4. ASSUME NEW r \in Request, Sending(r) PROVE RequestsInOrder'
  <2>1. OthersWait(r) /\ token' = token
    BY <1>4, Sent
  <2>2. /\ req'[r].pc = "sent" /\ req'[r].op # "none"
        /\ req'[r].op \in {"login", "register", "oauth"} => req'[r].user \in User
        /\ req'[r].op \in {"verify", "reset"} => req'[r].code \in Code
        /\ IF req'[r].op \in {"refresh", "logout"}
             THEN req'[r].token = app.stored
             ELSE req'[r].token = 0
    BY <1>4, Sent
  <2>3. /\ app.stored \in DOMAIN token \union {0}
        /\ req'[r].op = "refresh" => app.stored # 0
    <3>1. app.stored \in 0 .. Len(token)
      BY DEF TokensInOrder
    <3> QED
      BY <1>4, <3>1, Sent DEF TypeOK
  <2>4. Ordered(req'[r], DOMAIN token)
    BY <2>2, <2>3 DEF Ordered
  <2> QED
    BY <1>2, <2>1, <2>4
<1>5. ASSUME NEW r \in Request, Receive(r) PROVE RequestsInOrder'
  <2>1. OthersWait(r) /\ req'[r] = Idle /\ token' = token
    BY <1>5, Received DEF Receive
  <2> QED
    BY <1>2, <2>1, OrderedIdle
<1>6. ASSUME NEW S \in SUBSET Request, Abandoned(S), \A s \in S : req[s].wanted,
             token' = token
      PROVE  RequestsInOrder'
  BY <1>1, <1>6, OrderedAbandoned
<1>7. ASSUME NEW r \in Request, LoseAnswer(r) PROVE RequestsInOrder'
  <2>1. req[r].wanted /\ Abandoned({r}) /\ token' = token
    BY <1>7, LostAnswer DEF LoseAnswer, Unwanted
  <2> QED
    BY <1>6, <2>1
<1>8. CASE Stop
  <2>1. Abandoned(Mine) /\ token' = token
    BY <1>8, Stopped DEF Stop, Unwanted
  <2> QED
    BY <1>6, <2>1 DEF Mine
<1>9. CASE req' = req /\ DOMAIN token' = DOMAIN token
  BY <1>0, <1>1, <1>9
<1>10. CASE Issuing \/ Closing \/ Launch \/ UNCHANGED vars
  <2>1. Issuing => req' = req /\ token' = token
    BY Issued
  <2>2. Closing => req' = req /\ DOMAIN token' = DOMAIN token
    BY ClosedRows, RevokeRows DEF TypeOK
  <2>3. Launch \/ UNCHANGED vars => req' = req /\ token' = token
    BY DEF Launch, vars
  <2> QED
    BY <1>9, <1>10, <2>1, <2>2, <2>3
<1> QED
  BY <1>3, <1>4, <1>5, <1>7, <1>8, <1>10, StepKinds DEF Serving

LEMMA TokensNext ==
  ASSUME TypeOK, RequestsInOrder, TokensInOrder, [Next]_vars
  PROVE  TokensInOrder'
<1> DEFINE D == DOMAIN token
<1>0. /\ D = 1 .. Len(token) /\ Len(token) \in Nat
      /\ \A t \in D : token[t].family \in D
      /\ app.stored \in 0 .. Len(token)
  BY DEF TypeOK, TokensInOrder
<1>1. ASSUME UNCHANGED <<token, app>> PROVE TokensInOrder'
  BY <1>1 DEF TokensInOrder
<1>2. ASSUME token' = token, app'.stored \in D \union {0}
      PROVE  TokensInOrder'
  BY <1>0, <1>2 DEF TokensInOrder
<1>3. ASSUME NEW S, Revoke(S), app' = app
      PROVE  TokensInOrder'
  <2>1. /\ token' \in Seq(RefreshToken) /\ Len(token') = Len(token)
        /\ \A t \in D : token'[t].family = token[t].family
    BY <1>3, RevokeRows
  <2>2. DOMAIN token' = D
    BY <1>0, <2>1
  <2> QED
    BY <1>0, <1>3, <2>1, <2>2 DEF TokensInOrder
<1>4. ASSUME NEW r \in Request, Minting(r)
      PROVE  TokensInOrder'
  <2> DEFINE n == Len(token) + 1
  <2>1. /\ token' \in Seq(RefreshToken) /\ Len(token') = n
        /\ \A s \in D : token'[s].family = token[s].family
        /\ RotateWrite(r) => /\ req[r].token \in D
                             /\ token'[n].family = token[req[r].token].family
        /\ BuildSession(r) => token'[n].family = n
    BY <1>4, Minted
  <2>2. app' = app
    BY <1>4 DEF Minting, RotateWrite, BuildSession, server
  <2>3. DOMAIN token' = 1 .. n
    BY <2>1
  <2>4. D \subseteq DOMAIN token' /\ n \in DOMAIN token'
        /\ DOMAIN token' = D \union {n} /\ app.stored \in 0 .. n
    BY <1>0, <2>3
  <2>5. \A t \in DOMAIN token' : token'[t].family \in DOMAIN token'
    <3> HIDE DEF n
    <3> QED
      BY <1>0, <1>4, <2>1, <2>4 DEF Minting
  <2> QED
    BY <2>1, <2>2, <2>4, <2>5 DEF TokensInOrder
<1>5. ASSUME NEW r \in Request, Receive(r) PROVE TokensInOrder'
  <2>1. Ordered(req[r], D)
    BY OrderedRows
  <2>2. app'.stored \in D \union {0} /\ token' = token
    <3>1. req[r].token \in D \union {0} /\ app.stored \in D \union {0}
      BY <1>0, <2>1 DEF Ordered
    <3> QED
      BY <1>5, <3>1, Received DEF Receive
  <2> QED
    BY <1>2, <2>2
<1>6. ASSUME NEW r \in Request, LoseAnswer(r) PROVE TokensInOrder'
  <2>1. Ordered(req[r], D)
    BY OrderedRows
  <2>2. app'.stored \in D \union {0} /\ token' = token
    <3>1. req[r].token \in D \union {0} /\ app.stored \in D \union {0}
      BY <1>0, <2>1 DEF Ordered
    <3> QED
      BY <1>6, <3>1, LostAnswer DEF LoseAnswer, Unwanted
  <2> QED
    BY <1>2, <2>2
<1>7. CASE Stop
  <2>1. app'.stored = app.stored /\ token' = token
    BY <1>7, Stopped DEF Stop, Unwanted
  <2> QED
    BY <1>0, <1>2, <2>1
<1>8. ASSUME NEW r \in Request, Sending(r) PROVE TokensInOrder'
  <2>1. app'.stored = app.stored /\ token' = token
    BY <1>8, Sent
  <2> QED
    BY <1>0, <1>2, <2>1
<1>9. CASE Launch
  <2>1. app'.stored = app.stored /\ token' = token
    BY <1>9 DEF Launch, TypeOK, App
  <2> QED
    BY <1>0, <1>2, <2>1
<1>10. ASSUME NEW r \in Request,
              RotateRead(r) \/ RevokeSession(r) \/ ResetPassword(r)
       PROVE  TokensInOrder'
  <2>1. app' = app /\ (token' = token \/ \E S : Revoke(S))
    BY <1>10 DEF RotateRead, RevokeSession, ResetPassword, server
  <2> QED
    BY <1>1, <1>3, <2>1
<1>11. CASE Issuing \/ Closing \/ UNCHANGED vars
  <2>1. app' = app /\ (token' = token \/ \E S : Revoke(S))
    BY <1>11, Issued, ClosedRows DEF vars
  <2> QED
    BY <1>1, <1>3, <2>1
<1>12. ASSUME NEW r \in Request, SigningIn(r) \/ VerifyingCode(r)
       PROVE  TokensInOrder'
  BY <1>1, <1>12
     DEF SigningIn, LoginRead, Reactivate, RegisterRead, OauthSignIn, Provision,
         VerifyingCode, VerifyRead, VerifyWrong, VerifyRight, SignUpExists,
         ContactVerified, server
<1> QED
  BY <1>4, <1>5, <1>6, <1>7, <1>8, <1>9, <1>10, <1>11, <1>12, StepKinds

-----------------------------------------------------------------------------
(***************************************************************************)
(* Sessions: which tokens the handset may still present.                   *)
(***************************************************************************)
Sessions ==
  FreshAnswers /\ SharedRefresh /\ SignedOut /\ StoredOrComing /\ RotatedOnce

\* Family, of any table of tokens.
Kin(T, t) == {s \in DOMAIN T : T[s].family = T[t].family}

\* Tokens at most end; none is created and none is rotated.
Dwindles ==
  /\ DOMAIN token' = DOMAIN token
  /\ \A t \in DOMAIN token :
       /\ token'[t].family = token[t].family
       /\ token'[t].is = "live" => token[t].is = "live"
       /\ token'[t].is = "rotated" => token[t].is = "rotated"

LEMMA RevokeDwindles ==
  ASSUME TypeOK, token' = token \/ \E S : Revoke(S)
  PROVE  Dwindles
<1>1. CASE token' = token
  BY <1>1 DEF Dwindles
<1>2. ASSUME NEW S, Revoke(S) PROVE Dwindles
  <2>1. /\ token' \in Seq(RefreshToken) /\ Len(token') = Len(token)
        /\ \A t \in DOMAIN token :
             /\ token'[t].family = token[t].family
             /\ token'[t].is = IF t \in S /\ token[t].is = "live"
                                 THEN "revoked" ELSE token[t].is
    BY <1>2, RevokeRows
  <2>2. DOMAIN token' = DOMAIN token
    BY <2>1 DEF TypeOK
  <2> QED
    BY <2>1, <2>2 DEF Dwindles
<1> QED
  BY <1>1, <1>2

LEMMA FewerCurrent ==
  ASSUME Dwindles, stray \subseteq stray'
  PROVE  /\ Live' \subseteq Live /\ Current' \subseteq Current
         /\ \A t \in DOMAIN token : Kin(token', t) = Kin(token, t)
BY DEF Dwindles, Live, Current, Kin

SameApp == app'.stored = app.stored /\ app'.refreshing = app.refreshing

\* A request that goes on, unanswered, and keeps what it came with.
GoesOn(r) ==
  /\ req'[r].op = req[r].op /\ req'[r].token = req[r].token
  /\ req'[r].wanted = req[r].wanted
  /\ \/ req'[r].pc = req[r].pc
     \/ {req[r].pc, req'[r].pc} \intersect {"tokens", "refused"} = {}

\* What each request knows of the tokens, by IInv.
LEMMA Knows ==
  ASSUME TypeOK, RequestsInOrder, NEW r \in Request
  PROVE  /\ req[r].op = "refresh" \/ req[r].pc = "tokens" =>
              req[r].token \in DOMAIN token /\ req[r].token # 0
         /\ req[r].token \in DOMAIN token \union {0}
         /\ 0 \notin DOMAIN token
BY DEF RequestsInOrder, TypeOK

LEMMA SessionsCalm ==
  ASSUME TypeOK, RequestsInOrder, TokensInOrder, Sessions,
         Dwindles, stray \subseteq stray', SameApp, faults' = faults,
         \A r \in Request : GoesOn(r)
  PROVE  Sessions'
<1> USE DEF Sessions
<1>1. /\ Live' \subseteq Live /\ Current' \subseteq Current
      /\ \A t \in DOMAIN token : Kin(token', t) = Kin(token, t)
  BY FewerCurrent
<1>2. FreshAnswers'
  <2> SUFFICES ASSUME NEW r \in Request, req'[r].pc = "tokens"
               PROVE  /\ req'[r].token # app'.stored
                      /\ \A s \in Request \ {r} : req'[s].token # req'[r].token
                      /\ req'[r].op # "refresh" =>
                           Kin(token', req'[r].token) = {req'[r].token}
    BY DEF FreshAnswers, Family, Kin
  <2>1. req[r].pc = "tokens" /\ req[r].token \in DOMAIN token
    BY Knows DEF GoesOn
  <2>2. req'[r].token = req[r].token
        /\ Kin(token', req[r].token) = Family(req[r].token)
    BY <1>1, <2>1 DEF GoesOn, Family, Kin
  <2> QED
    BY <2>1, <2>2 DEF FreshAnswers, GoesOn, SameApp
<1>3. SharedRefresh'
  <2> SUFFICES ASSUME NEW r \in Request, req'[r].op = "refresh", req'[r].wanted
               PROVE  /\ app'.refreshing = r
                      /\ Current' \intersect Kin(token', req'[r].token) \subseteq
                           (IF req'[r].pc = "refused" THEN {} ELSE {req'[r].token})
    BY DEF SharedRefresh, Family, Kin
  <2>1. req[r].op = "refresh" /\ req[r].wanted /\ req'[r].token = req[r].token
    BY DEF GoesOn
  <2>2. Kin(token', req'[r].token) = Family(req[r].token)
    BY <1>1, <2>1, Knows DEF Family, Kin
  <2>3. req'[r].pc = "refused" <=> req[r].pc = "refused"
    BY DEF GoesOn
  <2> QED
    BY <1>1, <2>1, <2>2, <2>3 DEF SharedRefresh, SameApp
<1>4. SignedOut'
  BY <1>1 DEF SignedOut, GoesOn
<1>5. StoredOrComing'
  <2> SUFFICES ASSUME NEW t \in Current', t # app'.stored
               PROVE  \E r \in Request : req'[r].pc = "tokens" /\ req'[r].token = t
    BY DEF StoredOrComing
  <2>1. PICK r \in Request : req[r].pc = "tokens" /\ req[r].token = t
    BY <1>1 DEF StoredOrComing, SameApp
  <2> QED
    BY <2>1 DEF GoesOn
<1>6. RotatedOnce'
  <2> SUFFICES ASSUME faults = 0
               PROVE  /\ \A r \in Request :
                           /\ req'[r].op = "refresh" => req'[r].wanted
                           /\ \/ req'[r].pc = "tokens"
                              \/ req'[r].op = "refresh" /\ req'[r].pc # "refused"
                              => token'[req'[r].token].is # "rotated"
                      /\ app'.stored # 0 /\ token'[app'.stored].is = "rotated" =>
                           \E r \in Request :
                             req'[r].op = "refresh" /\ req'[r].pc = "tokens"
    BY DEF RotatedOnce
  <2>1. ASSUME NEW r \in Request
        PROVE  /\ req'[r].op = "refresh" => req'[r].wanted
               /\ \/ req'[r].pc = "tokens"
                  \/ req'[r].op = "refresh" /\ req'[r].pc # "refused"
                  => token'[req'[r].token].is # "rotated"
    <3>1. \/ req'[r].pc = "tokens"
          \/ req'[r].op = "refresh" /\ req'[r].pc # "refused"
          => /\ token[req[r].token].is # "rotated"
             /\ req[r].token \in DOMAIN token /\ req'[r].token = req[r].token
      BY Knows DEF RotatedOnce, GoesOn
    <3> QED
      BY <3>1 DEF RotatedOnce, GoesOn, Dwindles
  <2>2. ASSUME app'.stored # 0, token'[app'.stored].is = "rotated"
        PROVE  \E r \in Request : req'[r].op = "refresh" /\ req'[r].pc = "tokens"
    <3>1. app.stored \in DOMAIN token /\ app'.stored = app.stored
      BY <2>2 DEF TokensInOrder, TypeOK, SameApp
    <3>2. PICK r \in Request : req[r].op = "refresh" /\ req[r].pc = "tokens"
      BY <2>2, <3>1 DEF RotatedOnce, Dwindles
    <3> QED
      BY <3>2 DEF GoesOn
  <2> QED
    BY <2>1, <2>2
<1> QED
  BY <1>2, <1>3, <1>4, <1>5, <1>6

\* An answer without tokens: what the app presented is worth nothing now.
LEMMA SessionsRefused ==
  ASSUME TypeOK, RequestsInOrder, TokensInOrder, Sessions,
         Dwindles, stray \subseteq stray', SameApp, faults' = faults,
         NEW r \in Request, req[r].pc \notin {"tokens", "refused"}, OthersWait(r),
         req[r].wanted => req'[r] = Told(req[r].op, "refused", req[r].token),
         ~req[r].wanted => req'[r] = Idle,
         req[r].op = "refresh" /\ req[r].wanted =>
           Current' \intersect Kin(token', req[r].token) = {},
         req[r].op = "logout" => req[r].token \notin Live'
  PROVE  Sessions'
<1> USE DEF Sessions
<1>1. /\ Live' \subseteq Live /\ Current' \subseteq Current
      /\ \A t \in DOMAIN token : Kin(token', t) = Kin(token, t)
  BY FewerCurrent
<1>2. /\ req'[r].pc \in {"sent", "refused"}
      /\ req'[r].token \in {0, req[r].token}
      /\ req'[r].op # "none" =>
           /\ req[r].wanted /\ req'[r].wanted /\ req'[r].pc = "refused"
           /\ req'[r].op = req[r].op /\ req'[r].token = req[r].token
  BY DEF Told, Idle
<1>3. ASSUME NEW s \in Request, s # r
      PROVE  req'[s] = req[s]
  BY <1>3 DEF OthersWait
<1>4. FreshAnswers'
  <2> SUFFICES ASSUME NEW q \in Request, req'[q].pc = "tokens"
               PROVE  /\ req'[q].token # app'.stored
                      /\ \A s \in Request \ {q} : req'[s].token # req'[q].token
                      /\ req'[q].op # "refresh" =>
                           Kin(token', req'[q].token) = {req'[q].token}
    BY DEF FreshAnswers, Family, Kin
  <2>1. q # r /\ req'[q] = req[q] /\ req[q].token \in DOMAIN token /\ req[q].token # 0
    BY <1>2, <1>3, Knows
  <2>2. Kin(token', req[q].token) = Family(req[q].token)
    BY <1>1, <2>1 DEF Family, Kin
  <2> QED
    BY <1>2, <1>3, <2>1, <2>2 DEF FreshAnswers, SameApp
<1>5. SharedRefresh'
  <2> SUFFICES ASSUME NEW q \in Request, req'[q].op = "refresh", req'[q].wanted
               PROVE  /\ app'.refreshing = q
                      /\ Current' \intersect Kin(token', req'[q].token) \subseteq
                           (IF req'[q].pc = "refused" THEN {} ELSE {req'[q].token})
    BY DEF SharedRefresh, Family, Kin
  <2>1. req[q].op = "refresh" /\ req[q].wanted /\ req'[q].token = req[q].token
    BY <1>2, <1>3
  <2>2. Kin(token', req'[q].token) = Family(req[q].token)
    BY <1>1, <2>1, Knows DEF Family, Kin
  <2> QED
    BY <1>1, <1>2, <1>3, <2>1, <2>2 DEF SharedRefresh, SameApp
<1>6. SignedOut'
  BY <1>1, <1>2, <1>3 DEF SignedOut
<1>7. StoredOrComing'
  <2> SUFFICES ASSUME NEW t \in Current', t # app'.stored
               PROVE  \E q \in Request : req'[q].pc = "tokens" /\ req'[q].token = t
    BY DEF StoredOrComing
  <2>1. PICK q \in Request : req[q].pc = "tokens" /\ req[q].token = t
    BY <1>1 DEF StoredOrComing, SameApp
  <2> QED
    BY <1>3, <2>1
<1>8. RotatedOnce'
  <2> SUFFICES ASSUME faults = 0
               PROVE  /\ \A q \in Request :
                           /\ req'[q].op = "refresh" => req'[q].wanted
                           /\ \/ req'[q].pc = "tokens"
                              \/ req'[q].op = "refresh" /\ req'[q].pc # "refused"
                              => token'[req'[q].token].is # "rotated"
                      /\ app'.stored # 0 /\ token'[app'.stored].is = "rotated" =>
                           \E q \in Request :
                             req'[q].op = "refresh" /\ req'[q].pc = "tokens"
    BY DEF RotatedOnce
  <2>1. ASSUME NEW q \in Request
        PROVE  /\ req'[q].op = "refresh" => req'[q].wanted
               /\ \/ req'[q].pc = "tokens"
                  \/ req'[q].op = "refresh" /\ req'[q].pc # "refused"
                  => token'[req'[q].token].is # "rotated"
    <3>1. CASE q = r
      BY <1>2, <3>1
    <3>2. CASE q # r
      <4>1. \/ req[q].pc = "tokens"
            \/ req[q].op = "refresh" /\ req[q].pc # "refused"
            => /\ token[req[q].token].is # "rotated"
               /\ req[q].token \in DOMAIN token
        BY Knows DEF RotatedOnce
      <4> QED
        BY <1>3, <3>2, <4>1 DEF RotatedOnce, Dwindles
    <3> QED
      BY <3>1, <3>2
  <2>2. ASSUME app'.stored # 0, token'[app'.stored].is = "rotated"
        PROVE  \E q \in Request : req'[q].op = "refresh" /\ req'[q].pc = "tokens"
    <3>1. app.stored \in DOMAIN token /\ app'.stored = app.stored
      BY <2>2 DEF TokensInOrder, TypeOK, SameApp
    <3>2. PICK q \in Request : req[q].op = "refresh" /\ req[q].pc = "tokens"
      BY <2>2, <3>1 DEF RotatedOnce, Dwindles
    <3> QED
      BY <1>3, <3>2
  <2> QED
    BY <2>1, <2>2
<1> QED
  BY <1>4, <1>5, <1>6, <1>7, <1>8

\* A request leaves: a refresh with the stored token, when no other is waited for.
LEMMA SessionsSending ==
  ASSUME TypeOK, RequestsInOrder, TokensInOrder, Sessions,
         NEW r \in Request, Sending(r)
  PROVE  Sessions'
<1> USE DEF Sessions
<1>1. /\ OthersWait(r) /\ req[r] = Idle
      /\ token' = token /\ stray' = stray /\ faults' = faults
      /\ app'.stored = app.stored
      /\ req'[r].pc = "sent"
      /\ IF req'[r].op \in {"refresh", "logout"}
           THEN req'[r].token = app.stored /\ req'[r].wanted
           ELSE req'[r].token = 0
      /\ IF req'[r].op = "refresh"
           THEN app.stored # 0 /\ app.refreshing = Nobody /\ app'.refreshing = r
           ELSE app'.refreshing = app.refreshing
  BY Sent
<1>2. /\ Live' = Live /\ Current' = Current
      /\ \A t : Kin(token', t) = Family(t)
  BY <1>1 DEF Live, Current, Kin, Family
<1>3. ASSUME NEW s \in Request, s # r
      PROVE  req'[s] = req[s]
  BY <1>1, <1>3 DEF OthersWait
<1>4. FreshAnswers'
  <2> SUFFICES ASSUME NEW q \in Request, req'[q].pc = "tokens"
               PROVE  /\ req'[q].token # app'.stored
                      /\ \A s \in Request \ {q} : req'[s].token # req'[q].token
                      /\ req'[q].op # "refresh" =>
                           Kin(token', req'[q].token) = {req'[q].token}
    BY DEF FreshAnswers, Family, Kin
  <2>1. q # r /\ req'[q] = req[q] /\ req[q].token # 0
    BY <1>1, <1>3, Knows
  <2> QED
    BY <1>1, <1>2, <1>3, <2>1 DEF FreshAnswers
<1>5. SharedRefresh'
  <2> SUFFICES ASSUME NEW q \in Request, req'[q].op = "refresh", req'[q].wanted
               PROVE  /\ app'.refreshing = q
                      /\ Current' \intersect Kin(token', req'[q].token) \subseteq
                           (IF req'[q].pc = "refused" THEN {} ELSE {req'[q].token})
    BY DEF SharedRefresh, Family, Kin
  <2>1. CASE q # r
    <3>1. req'[q] = req[q]
      BY <1>3, <2>1
    <3>2. app.refreshing = q /\ q # Nobody
      BY <3>1, AccountsAssumption DEF SharedRefresh
    <3> QED
      BY <1>1, <1>2, <2>1, <3>1, <3>2 DEF SharedRefresh
  <2>2. CASE q = r
    <3>1. app'.refreshing = r /\ app.refreshing = Nobody /\ req'[r].token = app.stored
          /\ req'[r].pc = "sent"
      BY <1>1, <2>2
    <3>2. ASSUME NEW t \in Current, t \in Family(app.stored)
          PROVE  t = app.stored
      <4>1. ASSUME NEW s \in Request, req[s].pc = "tokens", req[s].token = t
            PROVE  FALSE
        <5>1. req[s].wanted
          BY <4>1 DEF RequestsInOrder, Answered
        <5>2. req[s].op # "refresh"
          BY <3>1, <5>1, AccountsAssumption DEF SharedRefresh
        <5>3. Family(t) = {t} /\ t # app.stored
          BY <4>1, <5>2 DEF FreshAnswers
        <5>4. app.stored \in DOMAIN token
          BY <1>1, <2>2 DEF TokensInOrder, TypeOK
        <5>5. app.stored \in Family(t)
          BY <3>2, <5>4 DEF Family
        <5> QED
          BY <5>3, <5>5
      <4> QED
        BY <4>1 DEF StoredOrComing
    <3> QED
      BY <1>2, <2>2, <3>1, <3>2
  <2> QED
    BY <2>1, <2>2
<1>6. SignedOut'
  BY <1>1, <1>2, <1>3 DEF SignedOut
<1>7. StoredOrComing'
  <2> SUFFICES ASSUME NEW t \in Current', t # app'.stored
               PROVE  \E q \in Request : req'[q].pc = "tokens" /\ req'[q].token = t
    BY DEF StoredOrComing
  <2>1. PICK q \in Request : req[q].pc = "tokens" /\ req[q].token = t
    BY <1>1, <1>2 DEF StoredOrComing
  <2> QED
    BY <1>1, <1>3, <2>1 DEF Idle
<1>8. RotatedOnce'
  <2> SUFFICES ASSUME faults = 0
               PROVE  /\ \A q \in Request :
                           /\ req'[q].op = "refresh" => req'[q].wanted
                           /\ \/ req'[q].pc = "tokens"
                              \/ req'[q].op = "refresh" /\ req'[q].pc # "refused"
                              => token'[req'[q].token].is # "rotated"
                      /\ app'.stored # 0 /\ token'[app'.stored].is = "rotated" =>
                           \E q \in Request :
                             req'[q].op = "refresh" /\ req'[q].pc = "tokens"
    BY <1>1 DEF RotatedOnce
  <2>1. ASSUME app.stored # 0, token[app.stored].is = "rotated"
        PROVE  \E q \in Request : /\ req[q].op = "refresh" /\ req[q].pc = "tokens"
                                  /\ req'[q] = req[q] /\ app.refreshing # Nobody
    <3>1. PICK q \in Request : req[q].op = "refresh" /\ req[q].pc = "tokens"
      BY <2>1 DEF RotatedOnce
    <3>2. req[q].wanted /\ app.refreshing = q
      BY <3>1 DEF RotatedOnce, SharedRefresh
    <3> QED
      BY <1>1, <1>3, <3>1, <3>2, AccountsAssumption DEF Idle
  <2>2. ASSUME NEW q \in Request
        PROVE  /\ req'[q].op = "refresh" => req'[q].wanted
               /\ \/ req'[q].pc = "tokens"
                  \/ req'[q].op = "refresh" /\ req'[q].pc # "refused"
                  => token'[req'[q].token].is # "rotated"
    <3>1. CASE q = r
      BY <1>1, <2>1, <3>1
    <3>2. CASE q # r
      BY <1>1, <1>3, <3>2 DEF RotatedOnce
    <3> QED
      BY <3>1, <3>2
  <2> QED
    BY <1>1, <2>1, <2>2
<1> QED
  BY <1>4, <1>5, <1>6, <1>7, <1>8

\* A token is created: alone in its family, or in the place of the one that
\* the refresh presented.
LEMMA SessionsMinting ==
  ASSUME TypeOK, RequestsInOrder, TokensInOrder, Sessions,
         NEW r \in Request, Minting(r)
  PROVE  Sessions'
<1> USE DEF Sessions
<1> DEFINE n == Len(token) + 1
           t == req[r].token
           D == DOMAIN token
<1>1. /\ Len(token') = n /\ token' \in Seq(RefreshToken) /\ n \notin D
      /\ token'[n].is = "live"
      /\ \A s \in D : token'[s].family = token[s].family
      /\ OthersWait(r)
      /\ req[r].wanted => req'[r] = Told(req[r].op, "tokens", n)
      /\ ~req[r].wanted => req'[r] = Idle
      /\ stray' = stray \union (IF req[r].wanted THEN {} ELSE {n})
      /\ RotateWrite(r) =>
           /\ t \in D
           /\ token'[n].family = token[t].family
           /\ \A s \in D : token'[s].is = IF s = t THEN "rotated" ELSE token[s].is
      /\ BuildSession(r) =>
           /\ token'[n].family = n
           /\ \A s \in D : token'[s] = token[s]
  BY Minted
<1>2. /\ D = 1 .. Len(token) /\ Len(token) \in Nat /\ 0 \notin D
      /\ \A s \in D : token[s].family \in D
      /\ app.stored \in D \union {0}
  BY DEF TypeOK, TokensInOrder
<1>3. /\ DOMAIN token' = D \union {n} /\ n # 0 /\ app.stored # n
  BY <1>1, <1>2
<1>4. app' = app /\ faults' = faults
  BY DEF Minting, RotateWrite, BuildSession, server
<1>5. \/ /\ RotateWrite(r) /\ req[r].op = "refresh" /\ req[r].pc = "rotate"
      \/ /\ BuildSession(r) /\ req[r].op \notin {"refresh", "logout"} /\ req[r].pc = "build"
  BY DEF Minting, RotateWrite, BuildSession, RequestsInOrder, At
<1>6. /\ req'[r].op # "none" => /\ req[r].wanted /\ req'[r].op = req[r].op
                               /\ req'[r].pc = "tokens" /\ req'[r].token = n
                               /\ req'[r].wanted
      /\ req'[r].op = "none" \/ req'[r].pc # "tokens" =>
           /\ req'[r] = Idle
           /\ req'[r].pc = "sent" /\ req'[r].token = 0 /\ ~req'[r].wanted
           /\ req'[r].op = "none"
      /\ req[r].wanted => req'[r].pc = "tokens" /\ req'[r].token = n
                          /\ req'[r].op = req[r].op
  <2>1. req[r].op # "none"
    BY <1>5 DEF RequestsInOrder, Idle
  <2> HIDE DEF n
  <2> QED
    BY <1>1, <2>1 DEF Told, Idle
<1> HIDE DEF n
<1>7. ASSUME NEW q \in Request, q # r
      PROVE  req'[q] = req[q] /\ req'[q].token # n
  <2>1. req'[q] = req[q]
    BY <1>1, <1>7 DEF OthersWait
  <2> QED
    BY <1>1, <1>3, <2>1, Knows
<1>8. ASSUME NEW s \in D PROVE token'[s].is = "live" => token[s].is = "live"
  BY <1>1, <1>5, <1>8
<1>9. ASSUME NEW s \in Current', s # n
      PROVE  s \in Current /\ s \in D /\ (RotateWrite(r) => s # t)
  BY <1>1, <1>3, <1>8, <1>9 DEF Current, Live
<1>10. n \in Current' => req[r].wanted
  BY <1>1 DEF Current
<1>11. ASSUME NEW s \in D, NEW m \in D
       PROVE  s \in Kin(token', m) <=> s \in Family(m)
  BY <1>1, <1>3 DEF Kin, Family
<1>12. ASSUME NEW m \in D, n \in Kin(token', m)
       PROVE  RotateWrite(r) /\ t \in Family(m)
  BY <1>1, <1>2, <1>5, <1>12 DEF Kin, Family
<1>13. FreshAnswers'
  <2> SUFFICES ASSUME NEW q \in Request, req'[q].pc = "tokens"
               PROVE  /\ req'[q].token # app'.stored
                      /\ \A s \in Request \ {q} : req'[s].token # req'[q].token
                      /\ req'[q].op # "refresh" =>
                           Kin(token', req'[q].token) = {req'[q].token}
    BY DEF FreshAnswers, Family, Kin
  <2>1. CASE q = r
    <3>1. req'[r].token = n /\ req'[r].op = req[r].op
      BY <1>6, <2>1
    <3>2. req[r].op # "refresh" => Kin(token', n) = {n}
      BY <1>1, <1>2, <1>3, <1>5 DEF Kin
    <3> QED
      BY <1>3, <1>4, <1>7, <2>1, <3>1, <3>2
  <2>2. CASE q # r
    <3> DEFINE m == req[q].token
    <3>1. req'[q] = req[q] /\ m \in D /\ m # 0 /\ m # app.stored
      BY <1>7, <2>2, Knows DEF FreshAnswers
    <3>2. ASSUME NEW s \in Request \ {q} PROVE req'[s].token # m
      <4>1. CASE s = r
        BY <1>1, <1>6, <3>1, <4>1
      <4>2. CASE s # r
        BY <1>7, <3>1, <4>2 DEF FreshAnswers
      <4> QED
        BY <4>1, <4>2
    <3>3. t # m
      BY <2>2, <3>1 DEF FreshAnswers
    <3>4. req[q].op # "refresh" => Family(m) = {m}
      BY <3>1 DEF FreshAnswers
    <3>5. ASSUME req[q].op # "refresh" PROVE Kin(token', m) = {m}
      <4>1. n \notin Kin(token', m)
        BY <1>1, <1>12, <3>1, <3>3, <3>4, <3>5
      <4>2. Kin(token', m) \subseteq D \union {n}
        BY <1>3 DEF Kin
      <4> QED
        BY <1>11, <3>1, <3>4, <3>5, <4>1, <4>2
    <3> QED
      BY <1>4, <3>1, <3>2, <3>5
  <2> QED
    BY <2>1, <2>2
<1>14. SharedRefresh'
  <2> SUFFICES ASSUME NEW q \in Request, req'[q].op = "refresh", req'[q].wanted
               PROVE  /\ app'.refreshing = q
                      /\ Current' \intersect Kin(token', req'[q].token) \subseteq
                           (IF req'[q].pc = "refused" THEN {} ELSE {req'[q].token})
    BY DEF SharedRefresh, Family, Kin
  <2>1. CASE q = r
    <3>1. /\ req[r].wanted /\ req[r].op = "refresh"
          /\ req'[r].token = n /\ req'[r].pc = "tokens"
      BY <1>6, <2>1
    <3>2. RotateWrite(r) /\ req[r].pc = "rotate" /\ t \in D
      BY <1>1, <1>5, <3>1
    <3>3. app.refreshing = r /\ Current \intersect Family(t) \subseteq {t}
      BY <3>1, <3>2 DEF SharedRefresh
    <3>4. ASSUME NEW s \in Current', s \in Kin(token', n) PROVE s = n
      <4>1. CASE s # n
        <5>1. s \in Current /\ s \in D /\ s # t
          BY <1>9, <3>2, <4>1
        <5>2. s \in Family(t)
          BY <1>1, <3>2, <3>4, <5>1 DEF Kin, Family
        <5> QED
          BY <3>3, <5>1, <5>2
      <4> QED
        BY <4>1
    <3> QED
      BY <1>4, <2>1, <3>1, <3>3, <3>4
  <2>2. CASE q # r
    <3> DEFINE m == req[q].token
    <3>1. req'[q] = req[q] /\ req[q].op = "refresh" /\ req[q].wanted /\ m \in D
      BY <1>7, <2>2, Knows
    <3>2. app.refreshing = q /\ Current \intersect Family(m) \subseteq
                                  (IF req[q].pc = "refused" THEN {} ELSE {m})
      BY <3>1 DEF SharedRefresh
    <3>3. ASSUME NEW s \in Current', s \in Kin(token', m)
          PROVE  s \in Current /\ s \in Family(m)
      <4>1. CASE s # n
        BY <1>9, <1>11, <3>1, <3>3, <4>1
      <4>2. CASE s = n
        <5>1. req[r].wanted /\ RotateWrite(r)
          BY <1>10, <1>12, <3>1, <3>3, <4>2
        <5>2. req[r].op = "refresh"
          BY <5>1 DEF RotateWrite, At
        <5> QED
          BY <2>2, <3>2, <5>1, <5>2 DEF SharedRefresh
      <4> QED
        BY <4>1, <4>2
    <3> QED
      BY <1>4, <3>1, <3>2, <3>3
  <2> QED
    BY <2>1, <2>2
<1>15. SignedOut'
  <2> SUFFICES ASSUME NEW q \in Request, req'[q].op = "logout", req'[q].pc = "refused"
               PROVE  req'[q].token \notin Live'
    BY DEF SignedOut
  <2>1. q # r
    BY <1>6
  <2>2. req'[q] = req[q] /\ req[q].token # n /\ req[q].token \notin Live
    BY <1>7, <2>1 DEF SignedOut
  <2> QED
    BY <1>3, <1>8, <2>2 DEF Live
<1>16. StoredOrComing'
  <2> SUFFICES ASSUME NEW s \in Current', s # app'.stored
               PROVE  \E q \in Request : req'[q].pc = "tokens" /\ req'[q].token = s
    BY DEF StoredOrComing
  <2>1. CASE s = n
    BY <1>6, <1>10, <2>1
  <2>2. CASE s # n
    <3>1. PICK q \in Request : req[q].pc = "tokens" /\ req[q].token = s
      BY <1>4, <1>9, <2>2 DEF StoredOrComing
    <3>2. q # r
      BY <1>5, <3>1
    <3> QED
      BY <1>7, <3>1, <3>2
  <2> QED
    BY <2>1, <2>2
<1>17. RotatedOnce'
  <2> SUFFICES ASSUME faults = 0
               PROVE  /\ \A q \in Request :
                           /\ req'[q].op = "refresh" => req'[q].wanted
                           /\ \/ req'[q].pc = "tokens"
                              \/ req'[q].op = "refresh" /\ req'[q].pc # "refused"
                              => token'[req'[q].token].is # "rotated"
                      /\ app'.stored # 0 /\ token'[app'.stored].is = "rotated" =>
                           \E q \in Request :
                             req'[q].op = "refresh" /\ req'[q].pc = "tokens"
    BY <1>4 DEF RotatedOnce
  <2>1. ASSUME NEW q \in Request
        PROVE  /\ req'[q].op = "refresh" => req'[q].wanted
               /\ \/ req'[q].pc = "tokens"
                  \/ req'[q].op = "refresh" /\ req'[q].pc # "refused"
                  => token'[req'[q].token].is # "rotated"
    <3>1. CASE q = r
      BY <1>1, <1>6, <3>1
    <3>2. CASE q # r
      <4>1. req'[q] = req[q] /\ (req[q].op = "refresh" => req[q].wanted)
        BY <1>7, <3>2 DEF RotatedOnce
      <4>2. ASSUME \/ req[q].pc = "tokens"
                   \/ req[q].op = "refresh" /\ req[q].pc # "refused"
            PROVE  token'[req[q].token].is # "rotated"
        <5>1. req[q].token \in D /\ token[req[q].token].is # "rotated"
          BY <4>2, Knows DEF RotatedOnce
        <5>2. RotateWrite(r) => req[q].token # t
          <6>1. CASE req[q].pc = "tokens"
            BY <3>2, <6>1 DEF FreshAnswers
          <6>2. CASE req[q].op = "refresh" /\ RotateWrite(r)
            <7>1. req[r].op = "refresh"
              BY <6>2 DEF RotateWrite, At
            <7>2. req[r].wanted /\ req[q].wanted
              BY <6>2, <7>1 DEF RotatedOnce
            <7> QED
              BY <3>2, <6>2, <7>1, <7>2 DEF SharedRefresh
          <6> QED
            BY <4>2, <6>1, <6>2
        <5> QED
          BY <1>1, <1>5, <5>1, <5>2
      <4> QED
        BY <4>1, <4>2
    <3> QED
      BY <3>1, <3>2
  <2>2. ASSUME app'.stored # 0, token'[app'.stored].is = "rotated"
        PROVE  \E q \in Request : req'[q].op = "refresh" /\ req'[q].pc = "tokens"
    <3>1. app.stored \in D /\ app'.stored = app.stored
      BY <1>2, <1>4, <2>2
    <3>2. CASE token[app.stored].is = "rotated"
      <4>1. PICK q \in Request : req[q].op = "refresh" /\ req[q].pc = "tokens"
        BY <2>2, <3>1, <3>2 DEF RotatedOnce
      <4>2. q # r
        BY <1>5, <4>1
      <4> QED
        BY <1>7, <4>1, <4>2
    <3>3. CASE token[app.stored].is # "rotated"
      <4>1. RotateWrite(r)
        BY <1>1, <1>5, <2>2, <3>1, <3>3
      <4>2. req[r].op = "refresh"
        BY <4>1 DEF RotateWrite, At
      <4>3. req[r].wanted
        BY <4>2 DEF RotatedOnce
      <4> QED
        BY <1>6, <4>2, <4>3
    <3> QED
      BY <3>2, <3>3
  <2> QED
    BY <2>1, <2>2
<1> QED
  BY <1>13, <1>14, <1>15, <1>16, <1>17

\* The app takes an answer: what it had stored was replaced, revoked or is
\* given up.
LEMMA SessionsReceiving ==
  ASSUME TypeOK, RequestsInOrder, TokensInOrder, Sessions,
         NEW r \in Request, Receive(r)
  PROVE  Sessions'
<1> USE DEF Sessions
<1> DEFINE t == req[r].token
<1>1. /\ OthersWait(r) /\ req'[r] = Idle
      /\ app'.stored = IF req[r].pc = "tokens" THEN t
                       ELSE IF req[r].op \in {"refresh", "logout"} THEN 0
                       ELSE app.stored
      /\ app'.refreshing = IF req[r].op = "refresh" THEN Nobody ELSE app.refreshing
      /\ stray' = stray \union {s \in {app.stored} \ {0} :
                                  app'.stored # s /\ ~Concerns(req[r], s)}
  BY Received
<1>2. /\ token' = token /\ faults' = faults
      /\ req[r].wanted /\ req[r].pc \in {"tokens", "refused"}
      /\ req[r].op = "logout" => req[r].pc = "refused"
  BY DEF Receive, RequestsInOrder
<1>3. /\ Live' = Live /\ Current' \subseteq Current
      /\ \A s : Kin(token', s) = Family(s)
      /\ Current' \intersect stray' = {}
  BY <1>1, <1>2 DEF Live, Current, Kin, Family
<1>4. ASSUME NEW q \in Request, q # r PROVE req'[q] = req[q]
  BY <1>1, <1>4 DEF OthersWait
<1>5. /\ req'[r].pc = "sent" /\ req'[r].op = "none" /\ req'[r].token = 0
      /\ ~req'[r].wanted
  BY <1>1 DEF Idle
<1>6. FreshAnswers'
  <2> SUFFICES ASSUME NEW q \in Request, req'[q].pc = "tokens"
               PROVE  /\ req'[q].token # app'.stored
                      /\ \A s \in Request \ {q} : req'[s].token # req'[q].token
                      /\ req'[q].op # "refresh" =>
                           Kin(token', req'[q].token) = {req'[q].token}
    BY DEF FreshAnswers, Family, Kin
  <2>1. q # r /\ req'[q] = req[q] /\ req[q].token # 0 /\ req[q].token # t
    BY <1>4, <1>5, Knows DEF FreshAnswers
  <2> QED
    BY <1>1, <1>3, <1>4, <1>5, <2>1 DEF FreshAnswers
<1>7. SharedRefresh'
  <2> SUFFICES ASSUME NEW q \in Request, req'[q].op = "refresh", req'[q].wanted
               PROVE  /\ app'.refreshing = q
                      /\ Current' \intersect Kin(token', req'[q].token) \subseteq
                           (IF req'[q].pc = "refused" THEN {} ELSE {req'[q].token})
    BY DEF SharedRefresh, Family, Kin
  <2>1. q # r /\ req'[q] = req[q]
    BY <1>4, <1>5
  <2>2. req[r].op # "refresh"
    BY <1>2, <2>1 DEF SharedRefresh
  <2> QED
    BY <1>1, <1>3, <2>1, <2>2 DEF SharedRefresh
<1>8. SignedOut'
  BY <1>3, <1>4, <1>5 DEF SignedOut
<1>9. StoredOrComing'
  <2> SUFFICES ASSUME NEW s \in Current', s # app'.stored
               PROVE  \E q \in Request : req'[q].pc = "tokens" /\ req'[q].token = s
    BY DEF StoredOrComing
  <2>1. CASE s = app.stored
    <3>1. s # 0
      BY <1>3 DEF Current, Live, TypeOK
    <3>2. Concerns(req[r], s)
      BY <1>1, <1>3, <2>1, <3>1
    <3>3. CASE req[r].op = "refresh" /\ token[t].family = token[s].family
      <4>1. s \in Current /\ s \in Family(t)
        BY <1>3, <3>3 DEF Current, Live, Family
      <4>2. s \in (IF req[r].pc = "refused" THEN {} ELSE {t})
        BY <1>2, <3>3, <4>1 DEF SharedRefresh
      <4> QED
        BY <1>1, <1>2, <4>2
    <3>4. CASE req[r].op = "logout" /\ t = s
      BY <1>2, <1>3, <3>4 DEF SignedOut, Current
    <3> QED
      BY <3>2, <3>3, <3>4 DEF Concerns
  <2>2. CASE s # app.stored
    <3>1. PICK q \in Request : req[q].pc = "tokens" /\ req[q].token = s
      BY <1>3, <2>2 DEF StoredOrComing
    <3>2. q # r
      BY <1>1, <3>1
    <3> QED
      BY <1>4, <3>1, <3>2
  <2> QED
    BY <2>1, <2>2
<1>10. RotatedOnce'
  <2> SUFFICES ASSUME faults = 0
               PROVE  /\ \A q \in Request :
                           /\ req'[q].op = "refresh" => req'[q].wanted
                           /\ \/ req'[q].pc = "tokens"
                              \/ req'[q].op = "refresh" /\ req'[q].pc # "refused"
                              => token'[req'[q].token].is # "rotated"
                      /\ app'.stored # 0 /\ token'[app'.stored].is = "rotated" =>
                           \E q \in Request :
                             req'[q].op = "refresh" /\ req'[q].pc = "tokens"
    BY <1>2 DEF RotatedOnce
  <2>1. ASSUME NEW q \in Request
        PROVE  /\ req'[q].op = "refresh" => req'[q].wanted
               /\ \/ req'[q].pc = "tokens"
                  \/ req'[q].op = "refresh" /\ req'[q].pc # "refused"
                  => token'[req'[q].token].is # "rotated"
    BY <1>2, <1>4, <1>5 DEF RotatedOnce
  <2>2. ASSUME app'.stored # 0, token'[app'.stored].is = "rotated"
        PROVE  \E q \in Request : req'[q].op = "refresh" /\ req'[q].pc = "tokens"
    <3>1. req[r].pc # "tokens"
      BY <1>1, <1>2, <2>2 DEF RotatedOnce
    <3>2. app'.stored = app.stored /\ req[r].op # "refresh"
      BY <1>1, <2>2, <3>1
    <3>3. PICK q \in Request : req[q].op = "refresh" /\ req[q].pc = "tokens"
      BY <1>2, <2>2, <3>2 DEF RotatedOnce
    <3> QED
      BY <1>4, <3>2, <3>3
  <2> QED
    BY <2>1, <2>2
<1> QED
  BY <1>6, <1>7, <1>8, <1>9, <1>10

\* Answers are lost: the tokens they bring are given up.
LEMMA SessionsAbandoned ==
  ASSUME TypeOK, RequestsInOrder, TokensInOrder, Sessions,
         NEW S \in SUBSET Request, Abandoned(S), token' = token,
         app'.stored \in {0, app.stored},
         \A r \in Request \ S :
           req[r].op = "refresh" /\ req[r].wanted => app'.refreshing = r,
         stray \subseteq stray',
         \A r \in S : req[r].pc = "tokens" => req[r].token \in stray',
         app'.stored # app.stored => app.stored \in stray'
  PROVE  Sessions'
<1> USE DEF Sessions
<1>1. /\ Live' = Live /\ Current' \subseteq Current
      /\ \A s : Kin(token', s) = Family(s)
      /\ Current' \intersect stray' = {}
  BY DEF Live, Current, Kin, Family
<1>2. ASSUME NEW q \in S
      PROVE  /\ req'[q].pc \notin {"tokens", "refused"} /\ ~req'[q].wanted
             /\ req'[q].token \in {0, req[q].token}
  <2>1. req[q] \in OnItsWay
    BY DEF TypeOK
  <2>2. CASE req[q].pc \in {"tokens", "refused"}
    <3>1. req'[q] = Idle
      BY <2>2 DEF Abandoned
    <3> QED
      BY <3>1 DEF Idle
  <2>3. CASE req[q].pc \notin {"tokens", "refused"}
    <3>1. req'[q] = [req[q] EXCEPT !.wanted = FALSE]
      BY <2>3 DEF Abandoned
    <3> QED
      BY <2>1, <2>3, <3>1 DEF OnItsWay
  <2> QED
    BY <2>2, <2>3
<1>3. ASSUME NEW q \in Request, q \notin S PROVE req'[q] = req[q]
  BY <1>3 DEF Abandoned
<1>4. FreshAnswers'
  <2> SUFFICES ASSUME NEW q \in Request, req'[q].pc = "tokens"
               PROVE  /\ req'[q].token # app'.stored
                      /\ \A s \in Request \ {q} : req'[s].token # req'[q].token
                      /\ req'[q].op # "refresh" =>
                           Kin(token', req'[q].token) = {req'[q].token}
    BY DEF FreshAnswers, Family, Kin
  <2>1. req'[q] = req[q] /\ req[q].token # 0
    BY <1>2, <1>3, Knows
  <2>2. ASSUME NEW s \in Request \ {q} PROVE req'[s].token # req[q].token
    BY <1>2, <1>3, <2>1 DEF FreshAnswers
  <2> QED
    BY <1>1, <2>1, <2>2 DEF FreshAnswers
<1>5. SharedRefresh'
  <2> SUFFICES ASSUME NEW q \in Request, req'[q].op = "refresh", req'[q].wanted
               PROVE  /\ app'.refreshing = q
                      /\ Current' \intersect Kin(token', req'[q].token) \subseteq
                           (IF req'[q].pc = "refused" THEN {} ELSE {req'[q].token})
    BY DEF SharedRefresh, Family, Kin
  <2>1. q \notin S /\ req'[q] = req[q]
    BY <1>2, <1>3
  <2> QED
    BY <1>1, <2>1 DEF SharedRefresh
<1>6. SignedOut'
  BY <1>1, <1>2, <1>3 DEF SignedOut
<1>7. StoredOrComing'
  <2> SUFFICES ASSUME NEW s \in Current', s # app'.stored
               PROVE  \E q \in Request : req'[q].pc = "tokens" /\ req'[q].token = s
    BY DEF StoredOrComing
  <2>1. s # app.stored
    BY <1>1
  <2>2. PICK q \in Request : req[q].pc = "tokens" /\ req[q].token = s
    BY <1>1, <2>1 DEF StoredOrComing
  <2> QED
    BY <1>1, <1>3, <2>2
<1>8. RotatedOnce'
  <2>1. faults' # 0
    BY DEF Abandoned, TypeOK
  <2> QED
    BY <2>1 DEF RotatedOnce
<1> QED
  BY <1>4, <1>5, <1>6, <1>7, <1>8

LEMMA SessionsRefuse ==
  ASSUME TypeOK, RequestsInOrder, TokensInOrder, Sessions,
         NEW r \in Request, Refuse(r), req[r].pc \notin {"tokens", "refused"},
         token' = token \/ \E S : Revoke(S), app' = app,
         stray \subseteq stray', faults' = faults,
         req[r].op = "refresh" /\ req[r].wanted =>
           Current' \intersect Kin(token', req[r].token) = {},
         req[r].op = "logout" => req[r].token \notin Live'
  PROVE  Sessions'
<1>1. Dwindles /\ SameApp
  BY RevokeDwindles DEF SameApp
<1>2. /\ OthersWait(r)
      /\ req[r].wanted => req'[r] = Told(req[r].op, "refused", req[r].token)
      /\ ~req[r].wanted => req'[r] = Idle
  BY RefuseRows
<1> HIDE DEF Refuse
<1> QED
  BY <1>1, <1>2, SessionsRefused

LEMMA SessionsGo ==
  ASSUME TypeOK, RequestsInOrder, TokensInOrder, Sessions,
         NEW r \in Request, NEW pc \in Steps \ {"tokens", "refused"}, Go(r, pc),
         req[r].pc \notin {"tokens", "refused"},
         UNCHANGED <<token, app, stray, faults>>
  PROVE  Sessions'
<1>1. Dwindles /\ SameApp /\ stray \subseteq stray'
  BY RevokeDwindles DEF SameApp
<1>2. req'[r] = [req[r] EXCEPT !.pc = pc] /\ OthersWait(r)
  BY GoRows
<1>3. req[r] \in OnItsWay
  BY DEF TypeOK
<1>4. GoesOn(r)
  BY <1>2, <1>3 DEF GoesOn, OnItsWay
<1>5. ASSUME NEW q \in Request PROVE GoesOn(q)
  BY <1>2, <1>4 DEF GoesOn, OthersWait
<1> QED
  BY <1>1, <1>5, SessionsCalm

LEMMA SessionsServing ==
  ASSUME TypeOK, RequestsInOrder, TokensInOrder, Sessions,
         NEW r \in Request, Serving(r)
  PROVE  Sessions'
<1> DEFINE t == req[r].token
<1>0. \A q \in Request : req'[q] = req[q] => GoesOn(q)
  BY DEF GoesOn
<1>1. CASE Minting(r)
  BY <1>1, SessionsMinting
<1>2. CASE SigningIn(r)
  <2>1. /\ UNCHANGED <<token, app, stray, faults>>
        /\ req[r].pc \in {"sent", "reactivate", "provision"}
        /\ \/ Refuse(r)
           \/ \E pc \in {"build", "reactivate", "provision"} : Go(r, pc)
        /\ req[r].op \notin {"refresh", "logout"}
    BY <1>2
       DEF SigningIn, LoginRead, Reactivate, RegisterRead, OauthSignIn, Provision,
           At, server, RequestsInOrder
  <2> QED
    BY <2>1, SessionsRefuse, SessionsGo DEF Steps
<1>3. CASE VerifyRead(r) \/ VerifyWrong(r) \/ SignUpExists(r)
  <2>1. /\ UNCHANGED <<token, app, stray, faults>>
        /\ req[r].pc \in {"sent", "wrong", "provision"}
        /\ Refuse(r) \/ \E pc \in {"right", "wrong", "build"} : Go(r, pc)
        /\ req[r].op \notin {"refresh", "logout"}
    BY <1>3 DEF VerifyRead, VerifyWrong, SignUpExists, At, server, RequestsInOrder
  <2> QED
    BY <2>1, SessionsRefuse, SessionsGo DEF Steps
<1>4. CASE ContactVerified(r)
  <2>1. UNCHANGED <<token, app, stray, faults, req>>
    BY <1>4 DEF ContactVerified, server
  <2> QED
    BY <1>0, <2>1, SessionsCalm, RevokeDwindles DEF SameApp
<1>5. CASE VerifyRight(r)
  <2>1. /\ UNCHANGED <<token, app, stray, faults>>
        /\ req[r].pc = "right" /\ req[r].op \notin {"refresh", "logout"}
    BY <1>5 DEF VerifyRight, server, RequestsInOrder
  <2>2. CASE Refuse(r)
    BY <2>1, <2>2, SessionsRefuse
  <2>3. CASE ~Refuse(r)
    <3>1. OthersWait(r)
          /\ \E pc \in {"reset", "provision", "build"} :
               req'[r] = [req[r] EXCEPT !.user = code[req[r].code].phone, !.pc = pc]
      BY <1>5, <2>3, RightCode
    <3>2. PICK pc \in {"reset", "provision", "build"} :
               req'[r] = [req[r] EXCEPT !.user = code[req[r].code].phone, !.pc = pc]
      BY <3>1
    <3>3. req[r] \in OnItsWay
      BY DEF TypeOK
    <3>4. GoesOn(r)
      BY <2>1, <3>2, <3>3 DEF GoesOn, OnItsWay
    <3>5. ASSUME NEW q \in Request PROVE GoesOn(q)
      BY <1>0, <3>1, <3>4 DEF OthersWait
    <3> QED
      BY <2>1, <3>5, SessionsCalm, RevokeDwindles DEF SameApp
  <2> QED
    BY <2>2, <2>3
<1>6. CASE ResetPassword(r)
  <2>1. /\ app' = app /\ stray' = stray /\ faults' = faults
        /\ req[r].pc = "reset" /\ Refuse(r) /\ \E S : Revoke(S)
        /\ req[r].op \notin {"refresh", "logout"}
    BY <1>6 DEF ResetPassword, server, RequestsInOrder
  <2> QED
    BY <2>1, SessionsRefuse
<1>7. CASE RevokeSession(r)
  <2>1. /\ app' = app /\ stray' = stray /\ faults' = faults
        /\ req[r].pc = "sent" /\ Refuse(r) /\ Revoke({t})
        /\ req[r].op = "logout"
    BY <1>7 DEF RevokeSession, server, At
  <2>2. t \notin Live'
    <3>1. /\ Len(token') = Len(token) /\ token' \in Seq(RefreshToken)
          /\ \A s \in DOMAIN token :
               token'[s].is = IF s \in {t} /\ token[s].is = "live"
                                THEN "revoked" ELSE token[s].is
      BY <2>1, RevokeRows
    <3>2. DOMAIN token' = DOMAIN token
      BY <3>1 DEF TypeOK
    <3> QED
      BY <3>1, <3>2 DEF Live
  <2> QED
    BY <2>1, <2>2, SessionsRefuse
<1>8. CASE RotateRead(r)
  <2>1. /\ app' = app /\ faults' = faults
        /\ req[r].pc = "sent" /\ req[r].op = "refresh"
    BY <1>8 DEF RotateRead, At
  <2>2. t \in DOMAIN token /\ t # 0
    BY <2>1, Knows
  <2>3. CASE t \notin Live /\ Revoke(Family(t)) /\ Refuse(r) /\ UNCHANGED stray
    <3>1. /\ Len(token') = Len(token) /\ token' \in Seq(RefreshToken)
          /\ \A s \in DOMAIN token :
               /\ token'[s].family = token[s].family
               /\ token'[s].is = IF s \in Family(t) /\ token[s].is = "live"
                                THEN "revoked" ELSE token[s].is
      BY <2>3, RevokeRows
    <3>2. DOMAIN token' = DOMAIN token
      BY <3>1 DEF TypeOK
    <3>3. Current' \intersect Kin(token', t) = {}
      BY <2>2, <3>1, <3>2 DEF Current, Live, Kin, Family
    <3> QED
      BY <2>1, <2>3, <3>3, SessionsRefuse
  <2>4. CASE Refuse(r) /\ GiveUp({t}) /\ token' = token
    <3>1. stray' = stray \union {t}
      BY <2>2, <2>4 DEF GiveUp
    <3>2. req[r].wanted => Current' \intersect Kin(token', t) = {}
      <4>1. req[r].wanted => Current \intersect Family(t) \subseteq {t}
        BY <2>1 DEF Sessions, SharedRefresh
      <4>2. Current' = Current \ {t} /\ Kin(token', t) = Family(t)
        BY <2>4, <3>1 DEF Current, Live, Kin, Family
      <4> QED
        BY <4>1, <4>2
    <3> QED
      BY <2>1, <2>4, <3>1, <3>2, SessionsRefuse
  <2>5. CASE Go(r, "rotate") /\ UNCHANGED <<token, stray>>
    BY <2>1, <2>5, SessionsGo DEF Steps
  <2> QED
    BY <1>8, <2>3, <2>4, <2>5 DEF RotateRead
<1> QED
  BY <1>1, <1>2, <1>3, <1>4, <1>5, <1>6, <1>7, <1>8 DEF Serving, VerifyingCode

LEMMA SessionsNext ==
  ASSUME TypeOK, RequestsInOrder, TokensInOrder, Sessions, [Next]_vars
  PROVE  Sessions'
<1>1. ASSUME NEW r \in Request, LoseAnswer(r) PROVE Sessions'
  <2>1. /\ req[r].wanted /\ Abandoned({r}) /\ token' = token
        /\ app'.refreshing = IF req[r].op = "refresh" THEN Nobody ELSE app.refreshing
        /\ IF req[r].op = "logout"
             THEN /\ app'.stored = IF req[r].pc = "tokens" THEN req[r].token ELSE 0
                  /\ Strayed({req[r].token, app.stored})
             ELSE /\ app'.stored = app.stored
                  /\ Strayed(IF req[r].pc = "tokens" THEN {req[r].token} ELSE {})
    BY <1>1, LostAnswer DEF LoseAnswer, Unwanted
  <2>2. req[r].op = "logout" => req[r].pc # "tokens"
    BY DEF RequestsInOrder
  <2>3. req[r].pc = "tokens" => req[r].token # 0
    BY Knows
  <2>4. /\ stray \subseteq stray' /\ app'.stored \in {0, app.stored}
        /\ req[r].pc = "tokens" => req[r].token \in stray'
        /\ app'.stored # app.stored => app.stored \in stray'
    BY <2>1, <2>2, <2>3 DEF Strayed
  <2>5. ASSUME NEW q \in Request \ {r}, req[q].op = "refresh", req[q].wanted
        PROVE  app'.refreshing = q
    BY <2>1, <2>5 DEF Sessions, SharedRefresh
  <2> QED
    BY <2>1, <2>4, <2>5, SessionsAbandoned
<1>2. CASE Stop
  <2>1. /\ Abandoned(Mine) /\ token' = token /\ app'.stored = app.stored
        /\ Strayed(Lost(Mine))
    BY <1>2, Stopped DEF Stop, Unwanted
  <2>2. stray \subseteq stray' /\ Mine \in SUBSET Request
    BY <2>1 DEF Strayed, Mine
  <2>3. ASSUME NEW r \in Mine, req[r].pc = "tokens"
        PROVE  req[r].token \in stray'
    <3>1. req[r].token # 0 /\ req[r].token \in Lost(Mine)
      BY <2>3, Knows DEF Lost, Mine
    <3> QED
      BY <2>1, <3>1 DEF Strayed
  <2>4. ASSUME NEW r \in Request \ Mine PROVE ~req[r].wanted
    BY <2>4 DEF Mine, TypeOK, OnItsWay
  <2> QED
    BY <2>1, <2>2, <2>3, <2>4, SessionsAbandoned
<1>3. CASE Issuing \/ Closing \/ Launch \/ UNCHANGED vars
  <2>1. /\ token' = token \/ \E S : Revoke(S)
        /\ UNCHANGED <<req, faults, stray>> /\ SameApp
    <3>1. CASE Launch
      BY <3>1 DEF Launch, SameApp, TypeOK, App
    <3> QED
      BY <1>3, <3>1, Issued, ClosedRows DEF vars, SameApp
  <2>2. \A r \in Request : GoesOn(r)
    BY <2>1 DEF GoesOn
  <2> QED
    BY <2>1, <2>2, RevokeDwindles, SessionsCalm
<1>4. ASSUME NEW r \in Request, Serving(r) PROVE Sessions'
  BY <1>4, SessionsServing
<1>5. ASSUME NEW r \in Request, Sending(r) PROVE Sessions'
  BY <1>5, SessionsSending
<1>6. ASSUME NEW r \in Request, Receive(r) PROVE Sessions'
  BY <1>6, SessionsReceiving
<1> QED
  BY <1>1, <1>2, <1>3, <1>4, <1>5, <1>6, StepKinds DEF Serving

\* A rotated token ends its family only after an answer was lost.
LEMMA EndedNext ==
  ASSUME TypeOK, RequestsInOrder, Sessions, EndedByNobody, [Next]_vars
  PROVE  EndedByNobody'
<1>1. ASSUME faults' = faults, mistaken' = mistaken PROVE EndedByNobody'
  BY <1>1 DEF EndedByNobody
<1>2. ASSUME faults' = faults + 1 PROVE EndedByNobody'
  BY <1>2 DEF EndedByNobody, TypeOK
<1>3. ASSUME NEW r \in Request, RotateRead(r) PROVE EndedByNobody'
  <2>1. /\ faults' = faults /\ req[r].op = "refresh" /\ req[r].pc = "sent"
        /\ mistaken' = mistaken
           \/ mistaken' = (mistaken \/ token[req[r].token].is = "rotated")
    BY <1>3 DEF RotateRead, At
  <2>2. faults = 0 => token[req[r].token].is # "rotated"
    BY <2>1 DEF Sessions, RotatedOnce
  <2>3. faults = 0 => ~mistaken
    BY DEF EndedByNobody, TypeOK
  <2>4. faults = 0 => ~mistaken'
    BY <2>1, <2>2, <2>3
  <2> QED
    BY <2>1, <2>4 DEF EndedByNobody, TypeOK
<1>4. ASSUME NEW r \in Request,
             SigningIn(r) \/ VerifyingCode(r) \/ Minting(r) \/ RevokeSession(r)
             \/ ResetPassword(r)
      PROVE  EndedByNobody'
  <2>1. UNCHANGED server
    BY <1>4
       DEF SigningIn, LoginRead, Reactivate, RegisterRead, OauthSignIn, Provision,
           VerifyingCode, VerifyRead, VerifyWrong, VerifyRight, SignUpExists,
           ContactVerified, Minting, RotateWrite, BuildSession, RevokeSession,
           ResetPassword
  <2> QED
    BY <1>1, <2>1 DEF server
<1>5. ASSUME NEW r \in Request, Sending(r) PROVE EndedByNobody'
  BY <1>1, <1>5, Sent
<1>6. ASSUME NEW r \in Request, Receive(r) PROVE EndedByNobody'
  BY <1>1, <1>6 DEF Receive
<1>7. ASSUME Stop \/ \E r \in Request : LoseAnswer(r) PROVE EndedByNobody'
  BY <1>2, <1>7 DEF Stop, LoseAnswer, Unwanted
<1>8. CASE Issuing \/ Closing \/ Launch \/ UNCHANGED vars
  BY <1>1, <1>8, Issued, ClosedRows DEF Launch, vars
<1> QED
  BY <1>3, <1>4, <1>5, <1>6, <1>7, <1>8, StepKinds

-----------------------------------------------------------------------------
(***************************************************************************)
(* One-time codes.                                                         *)
(***************************************************************************)
LEMMA GuessingFinite ==
  ASSUME NEW c
  PROVE  /\ IsFiniteSet(Guessing(c)) /\ Cardinality(Guessing(c)) \in Nat
         /\ Cardinality(Guessing(c)) <= Cardinality(Request)
         /\ Cardinality(Request) \in Nat
<1>1. Guessing(c) \subseteq Request /\ IsFiniteSet(Request)
  BY AccountsAssumption DEF Guessing
<1> QED
  BY <1>1, FS_Subset, FS_CardinalityType

\* Whoever guesses after the step guessed before.
LEMMA CodesKept ==
  ASSUME TypeOK, CodesInOrder, NEW c \in Code,
         code'[c].is = code[c].is \/ (code[c].is = "unsent" /\ code'[c].is = "sent"),
         code'[c].uses = code[c].uses, code'[c].attempts = code[c].attempts,
         Guessing(c)' \subseteq Guessing(c)
  PROVE  /\ code'[c].uses = IF code'[c].is = "used" THEN 1 ELSE 0
         /\ code'[c].attempts + Cardinality(Guessing(c)')
              <= MaxAttempts - 1 + Cardinality(Request)
<1>1. /\ Cardinality(Guessing(c)') <= Cardinality(Guessing(c))
      /\ Cardinality(Guessing(c)') \in Nat /\ Cardinality(Guessing(c)) \in Nat
      /\ Cardinality(Request) \in Nat
  BY GuessingFinite, FS_Subset, FS_CardinalityType
<1>2. code[c].attempts \in Nat /\ MaxAttempts \in Nat
  BY AccountsAssumption DEF TypeOK, OtpChallenge
<1>3. code[c].attempts + Cardinality(Guessing(c)) <= MaxAttempts - 1 + Cardinality(Request)
  BY DEF CodesInOrder
<1>4. code[c].uses = IF code[c].is = "used" THEN 1 ELSE 0
  BY DEF CodesInOrder
<1> QED
  BY <1>1, <1>2, <1>3, <1>4

LEMMA OthersGuess ==
  ASSUME NEW r \in Request, OthersWait(r), req'[r].pc # "wrong" \/ req'[r] = req[r],
         NEW c
  PROVE  Guessing(c)' \subseteq Guessing(c)
BY DEF Guessing, OthersWait

LEMMA GoneOn ==
  ASSUME TypeOK, NEW r \in Request,
         Refuse(r) \/ \E pc \in Steps \ {"wrong"} : Go(r, pc)
  PROVE  OthersWait(r) /\ req'[r].pc # "wrong"
<1>1. CASE Refuse(r)
  <2>1. OthersWait(r) /\ req'[r] \in {Idle, Told(req[r].op, "refused", req[r].token)}
    BY <1>1, RefuseRows DEF TypeOK, OnItsWay
  <2> QED
    BY <2>1 DEF Idle, Told
<1>2. ASSUME NEW pc \in Steps \ {"wrong"}, Go(r, pc)
      PROVE  OthersWait(r) /\ req'[r].pc # "wrong"
  <2>1. OthersWait(r) /\ req'[r] = [req[r] EXCEPT !.pc = pc]
    BY <1>2, GoRows
  <2> QED
    BY <2>1 DEF TypeOK, OnItsWay
<1> QED
  BY <1>1, <1>2

\* One more guess that is let in finds the limit not reached yet.
LEMMA CodesRead ==
  ASSUME TypeOK, CodesInOrder, NEW r \in Request, VerifyRead(r)
  PROVE  CodesInOrder'
<1> DEFINE c == req[r].code
<1>1. code' = code
  BY DEF VerifyRead
<1>2. CASE Refuse(r) \/ Go(r, "right")
  <2>1. \A d \in Code : Guessing(d)' \subseteq Guessing(d)
    BY <1>2, GoneOn, OthersGuess DEF Steps
  <2>2. ASSUME NEW d \in Code
        PROVE  /\ code'[d].uses = IF code'[d].is = "used" THEN 1 ELSE 0
               /\ code'[d].attempts + Cardinality(Guessing(d)')
                    <= MaxAttempts - 1 + Cardinality(Request)
    BY <1>1, <2>1, CodesKept
  <2> QED
    BY <2>2 DEF CodesInOrder
<1>3. CASE Go(r, "wrong") /\ ~Exhausted(c)
  <2>1. OthersWait(r) /\ req'[r] = [req[r] EXCEPT !.pc = "wrong"]
    BY <1>3, GoRows DEF Steps
  <2>2. req'[r].code = c
    BY <2>1 DEF TypeOK, OnItsWay
  <2>3. ASSUME NEW d \in Code, d # c
        PROVE  Guessing(d)' \subseteq Guessing(d)
    BY <2>1, <2>2, <2>3 DEF Guessing, OthersWait
  <2>4. ASSUME NEW d \in Code, d = c
        PROVE  code[d].attempts + Cardinality(Guessing(d)')
                 <= MaxAttempts - 1 + Cardinality(Request)
    <3>1. Guessing(d)' \subseteq Request /\ IsFiniteSet(Request)
      BY AccountsAssumption DEF Guessing
    <3>2. /\ Cardinality(Guessing(d)') <= Cardinality(Request)
          /\ Cardinality(Guessing(d)') \in Nat /\ Cardinality(Request) \in Nat
      BY <3>1, FS_Subset, FS_CardinalityType
    <3>3. code[d].attempts \in Nat /\ MaxAttempts \in Nat
      BY AccountsAssumption DEF TypeOK, OtpChallenge
    <3>4. code[d].attempts < MaxAttempts
      BY <1>3, <2>4, <3>3 DEF Exhausted
    <3> QED
      BY <3>2, <3>3, <3>4
  <2>5. ASSUME NEW d \in Code
        PROVE  /\ code'[d].uses = IF code'[d].is = "used" THEN 1 ELSE 0
               /\ code'[d].attempts + Cardinality(Guessing(d)')
                    <= MaxAttempts - 1 + Cardinality(Request)
    <3>1. CASE d = c
      BY <1>1, <2>4, <3>1 DEF CodesInOrder
    <3>2. CASE d # c
      BY <1>1, <2>3, <3>2, CodesKept
    <3> QED
      BY <3>1, <3>2
  <2> QED
    BY <2>5 DEF CodesInOrder
<1> QED
  BY <1>2, <1>3 DEF VerifyRead

\* A wrong guess is counted when it ends.
LEMMA CodesWrong ==
  ASSUME TypeOK, RequestsInOrder, CodesInOrder, NEW r \in Request, VerifyWrong(r)
  PROVE  CodesInOrder'
<1> DEFINE c == req[r].code
<1>1. /\ c \in Code
      /\ code'[c].is = code[c].is /\ code'[c].uses = code[c].uses
      /\ code'[c].attempts = code[c].attempts + 1
      /\ \A d \in Code \ {c} : code'[d] = code[d]
  BY WrongCode
<1>2. OthersWait(r) /\ req'[r].pc # "wrong" /\ req[r].pc = "wrong"
  BY GoneOn DEF VerifyWrong
<1>3. ASSUME NEW d \in Code
      PROVE  /\ code'[d].uses = IF code'[d].is = "used" THEN 1 ELSE 0
             /\ code'[d].attempts + Cardinality(Guessing(d)')
                  <= MaxAttempts - 1 + Cardinality(Request)
  <2>1. CASE d = c
    <3>1. code[d].attempts \in Nat
      BY DEF TypeOK, OtpChallenge
    <3>2. /\ code[d].uses = IF code[d].is = "used" THEN 1 ELSE 0
          /\ code[d].attempts + Cardinality(Guessing(d))
               <= MaxAttempts - 1 + Cardinality(Request)
      BY DEF CodesInOrder
    <3>3. Guessing(d)' = Guessing(d) \ {r} /\ r \in Guessing(d)
      BY <1>2, <2>1 DEF Guessing, OthersWait
    <3>4. /\ Cardinality(Guessing(d)') = Cardinality(Guessing(d)) - 1
          /\ Cardinality(Guessing(d)) \in Nat
      BY <3>3, GuessingFinite, FS_RemoveElement
    <3>5. code'[d].attempts + Cardinality(Guessing(d)')
            = code[d].attempts + Cardinality(Guessing(d))
      BY <1>1, <2>1, <3>1, <3>4
    <3> QED
      BY <1>1, <2>1, <3>2, <3>5
  <2>2. CASE d # c
    <3>1. Guessing(d)' \subseteq Guessing(d) /\ code'[d] = code[d]
      BY <1>1, <1>2, <2>2, OthersGuess
    <3> QED
      BY <3>1, CodesKept
  <2> QED
    BY <2>1, <2>2
<1> QED
  BY <1>3 DEF CodesInOrder

\* A code that was not used yet is used once.
LEMMA CodesRight ==
  ASSUME TypeOK, RequestsInOrder, CodesInOrder, NEW r \in Request, VerifyRight(r)
  PROVE  CodesInOrder'
<1> DEFINE c == req[r].code
<1>1. CASE Refuse(r) /\ UNCHANGED code
  <2>1. OthersWait(r) /\ req'[r].pc # "wrong"
    BY <1>1, GoneOn
  <2>2. ASSUME NEW d \in Code
        PROVE  /\ code'[d].uses = IF code'[d].is = "used" THEN 1 ELSE 0
               /\ code'[d].attempts + Cardinality(Guessing(d)')
                    <= MaxAttempts - 1 + Cardinality(Request)
    BY <1>1, <2>1, OthersGuess, CodesKept
  <2> QED
    BY <2>2 DEF CodesInOrder
<1>2. CASE ~(Refuse(r) /\ UNCHANGED code)
  <2>1. /\ Consumable(c) /\ c \in Code
        /\ code'[c].is = "used" /\ code'[c].uses = code[c].uses + 1
        /\ code'[c].attempts = code[c].attempts
        /\ \A d \in Code \ {c} : code'[d] = code[d]
        /\ OthersWait(r)
        /\ \E pc \in {"reset", "provision", "build"} :
             req'[r] = [req[r] EXCEPT !.user = code[c].phone, !.pc = pc]
    BY <1>2, RightCode
  <2>2. req'[r].pc # "wrong"
    BY <2>1 DEF TypeOK, OnItsWay
  <2>3. \A d \in Code : Guessing(d)' \subseteq Guessing(d)
    BY <2>1, <2>2, OthersGuess
  <2>4. ASSUME NEW d \in Code
        PROVE  /\ code'[d].uses = IF code'[d].is = "used" THEN 1 ELSE 0
               /\ code'[d].attempts + Cardinality(Guessing(d)')
                    <= MaxAttempts - 1 + Cardinality(Request)
    <3>1. CASE d = c
      <4>1. code[d].uses = 0
        BY <2>1, <3>1 DEF Consumable, CodesInOrder
      <4>2. /\ Cardinality(Guessing(d)') <= Cardinality(Guessing(d))
            /\ Cardinality(Guessing(d)') \in Nat /\ Cardinality(Guessing(d)) \in Nat
            /\ Cardinality(Request) \in Nat
        BY <2>3, GuessingFinite, FS_Subset, FS_CardinalityType
      <4>3. code[d].attempts \in Nat /\ MaxAttempts \in Nat
        BY AccountsAssumption DEF TypeOK, OtpChallenge
      <4>4. code[d].attempts + Cardinality(Guessing(d))
              <= MaxAttempts - 1 + Cardinality(Request)
        BY DEF CodesInOrder
      <4>5. /\ code'[d].is = "used" /\ code'[d].uses = code[d].uses + 1
            /\ code'[d].attempts = code[d].attempts
        BY <2>1, <3>1
      <4> QED
        BY <4>1, <4>2, <4>3, <4>4, <4>5
    <3>2. CASE d # c
      BY <2>1, <2>3, <3>2, CodesKept
    <3> QED
      BY <3>1, <3>2
  <2> QED
    BY <2>4 DEF CodesInOrder
<1> QED
  BY <1>1, <1>2

LEMMA CodesNext ==
  ASSUME TypeOK, RequestsInOrder, CodesInOrder, [Next]_vars
  PROVE  CodesInOrder'
<1>1. ASSUME \A c \in Code : \/ code'[c] = code[c]
                             \/ /\ code[c].is = "unsent" /\ code'[c].is = "sent"
                                /\ code'[c].uses = code[c].uses
                                /\ code'[c].attempts = code[c].attempts,
             \A c \in Code : Guessing(c)' \subseteq Guessing(c)
      PROVE  CodesInOrder'
  <2>1. ASSUME NEW c \in Code
        PROVE  /\ code'[c].uses = IF code'[c].is = "used" THEN 1 ELSE 0
               /\ code'[c].attempts + Cardinality(Guessing(c)')
                    <= MaxAttempts - 1 + Cardinality(Request)
    <3>1. /\ code'[c].uses = code[c].uses /\ code'[c].attempts = code[c].attempts
          /\ code'[c].is = code[c].is \/ (code[c].is = "unsent" /\ code'[c].is = "sent")
          /\ Guessing(c)' \subseteq Guessing(c)
      BY <1>1
    <3> QED
      BY <3>1, CodesKept
  <2> QED
    BY <2>1 DEF CodesInOrder
<1>2. ASSUME code' = code, NEW r \in Request, OthersWait(r), req'[r].pc # "wrong"
      PROVE  CodesInOrder'
  BY <1>1, <1>2, OthersGuess
<1>3. ASSUME NEW r \in Request, SigningIn(r) PROVE CodesInOrder'
  <2>1. /\ code' = code
        /\ Refuse(r) \/ \E pc \in {"build", "reactivate", "provision"} : Go(r, pc)
    BY <1>3 DEF SigningIn, LoginRead, Reactivate, RegisterRead, OauthSignIn, Provision
  <2> QED
    BY <1>2, <2>1, GoneOn DEF Steps
<1>4. ASSUME NEW r \in Request, VerifyingCode(r) PROVE CodesInOrder'
  <2>1. CASE SignUpExists(r)
    BY <1>2, <2>1, GoneOn DEF SignUpExists, Steps
  <2>2. CASE ContactVerified(r)
    BY <1>1, <2>2 DEF ContactVerified, Guessing
  <2> QED
    BY <1>4, <2>1, <2>2, CodesRead, CodesWrong, CodesRight DEF VerifyingCode
<1>5. ASSUME NEW r \in Request, RotateRead(r) \/ RevokeSession(r) \/ ResetPassword(r)
      PROVE  CodesInOrder'
  <2>1. code' = code /\ (Refuse(r) \/ Go(r, "rotate"))
    BY <1>5 DEF RotateRead, RevokeSession, ResetPassword
  <2> QED
    BY <1>2, <2>1, GoneOn DEF Steps
<1>6. ASSUME NEW r \in Request, Minting(r) PROVE CodesInOrder'
  <2>1. code' = code
    BY <1>6 DEF Minting, RotateWrite, BuildSession
  <2>2. OthersWait(r) /\ (req'[r] = Idle \/ req'[r] = Told(req[r].op, "tokens", Len(token) + 1))
    BY <1>6, Minted DEF TypeOK, OnItsWay
  <2>3. req'[r].pc # "wrong"
    BY <2>2 DEF Idle, Told
  <2> QED
    BY <1>2, <2>1, <2>2, <2>3
<1>7. ASSUME NEW r \in Request, Sending(r) PROVE CodesInOrder'
  BY <1>2, <1>7, Sent
<1>8. ASSUME NEW r \in Request, Receive(r) PROVE CodesInOrder'
  <2>1. OthersWait(r) /\ req'[r] = Idle /\ code' = code
    BY <1>8, Received DEF Receive
  <2> QED
    BY <1>2, <2>1 DEF Idle
<1>9. ASSUME NEW S \in SUBSET Request, Abandoned(S), code' = code PROVE CodesInOrder'
  <2>1. ASSUME NEW c, NEW s \in Guessing(c)' PROVE s \in Guessing(c)
    <3>1. s \in Request /\ req'[s].pc = "wrong" /\ req'[s].code = c
      BY DEF Guessing
    <3>2. req[s].pc = "wrong" /\ req[s].code = c
      <4>1. CASE s \notin S
        BY <1>9, <3>1, <4>1 DEF Abandoned
      <4>2. CASE s \in S
        <5>1. req'[s] # Idle
          BY <3>1 DEF Idle
        <5>2. req'[s] = [req[s] EXCEPT !.wanted = FALSE]
          BY <1>9, <4>2, <5>1 DEF Abandoned
        <5>3. req[s] \in OnItsWay
          BY <3>1 DEF TypeOK
        <5> QED
          BY <3>1, <5>2, <5>3 DEF OnItsWay
      <4> QED
        BY <4>1, <4>2
    <3> QED
      BY <3>1, <3>2 DEF Guessing
  <2> QED
    BY <1>1, <1>9, <2>1
<1>10. ASSUME NEW r \in Request, LoseAnswer(r) PROVE CodesInOrder'
  BY <1>9, <1>10, LostAnswer DEF LoseAnswer, Unwanted
<1>11. CASE Stop
  BY <1>9, <1>11, Stopped DEF Stop, Unwanted, Mine
<1>12. CASE Issuing \/ Closing \/ Launch \/ UNCHANGED vars
  <2>1. req' = req
    BY <1>12, Issued, ClosedRows DEF Launch, vars
  <2>2. \A c \in Code : \/ code'[c] = code[c]
                        \/ /\ code[c].is = "unsent" /\ code'[c].is = "sent"
                           /\ code'[c].uses = code[c].uses
                           /\ code'[c].attempts = code[c].attempts
    BY <1>12, Issued, ClosedRows DEF Launch, vars
  <2> QED
    BY <1>1, <2>1, <2>2 DEF Guessing
<1> QED
  BY <1>3, <1>4, <1>5, <1>6, <1>7, <1>8, <1>10, <1>11, <1>12, StepKinds

-----------------------------------------------------------------------------
(***************************************************************************)
(* The theorems.                                                           *)
(***************************************************************************)
LEMMA InitFacts ==
  ASSUME Init
  PROVE  IInv
<1>1. \A r \in Request : req[r] = Idle
  BY DEF Init
<1>2. TypeOK
  <2>1. account \in [User -> Status]
    BY DEF Init, Status
  <2>2. token \in Seq(RefreshToken) /\ Len(token) <= MaxTokens
    BY AccountsAssumption DEF Init
  <2>3. code \in [Code -> OtpChallenge]
    <3>1. (CHOOSE u \in User : TRUE) \in User
      BY AccountsAssumption
    <3> DEFINE someone == CHOOSE u \in User : TRUE
    <3>2. /\ someone \in User
          /\ code = [c \in Code |-> [is |-> "unsent", phone |-> someone,
                                     user |-> Nobody, uses |-> 0, attempts |-> 0,
                                     purpose |-> "login"]]
      BY <3>1 DEF Init
    <3> HIDE DEF someone
    <3> QED
      BY <3>2 DEF OtpChallenge
  <2>4. req \in [Request -> OnItsWay]
    BY IdleType DEF Init
  <2>5. app \in App
    BY AccountsAssumption DEF Init, App
  <2>6. /\ faults \in Nat /\ closures \in Nat /\ faults + closures <= MaxMishaps
        /\ mistaken \in BOOLEAN /\ stray \subseteq 1 .. MaxTokens
    <3>1. /\ faults = 0 /\ closures = 0 /\ ~mistaken /\ mistaken \in BOOLEAN
          /\ stray = {} /\ MaxMishaps \in Nat
      BY AccountsAssumption DEF Init
    <3> QED
      BY <3>1
  <2> QED
    BY <2>1, <2>2, <2>3, <2>4, <2>5, <2>6 DEF TypeOK
<1>3. RequestsInOrder
  <2>1. \A r \in Request : Ordered(req[r], DOMAIN token)
    BY <1>1, OrderedIdle
  <2> QED
    BY <2>1 DEF RequestsInOrder, Ordered, Answered
<1>4. TokensInOrder
  BY DEF Init, TokensInOrder
<1>5. FreshAnswers /\ SharedRefresh /\ SignedOut
  BY <1>1 DEF FreshAnswers, SharedRefresh, SignedOut, Idle
<1>6. StoredOrComing
  BY DEF Init, StoredOrComing, Current, Live
<1>7. RotatedOnce
  <2>1. app.stored = 0
    BY DEF Init
  <2> QED
    BY <1>1, <2>1 DEF RotatedOnce, Idle
<1>8. EndedByNobody
  BY DEF Init, EndedByNobody
<1>9. CodesInOrder
  <2>1. ASSUME NEW c \in Code
        PROVE  /\ code[c].uses = IF code[c].is = "used" THEN 1 ELSE 0
               /\ code[c].attempts + Cardinality(Guessing(c))
                    <= MaxAttempts - 1 + Cardinality(Request)
    <3>1. code[c].is = "unsent" /\ code[c].uses = 0 /\ code[c].attempts = 0
      BY DEF Init
    <3>2. Guessing(c) = {}
      BY <1>1 DEF Guessing, Idle
    <3>3. Cardinality(Guessing(c)) = 0 /\ Cardinality(Request) \in Nat
      BY <3>2, FS_EmptySet, FS_CardinalityType, AccountsAssumption
    <3> QED
      BY <3>1, <3>3, AccountsAssumption
  <2> QED
    BY <2>1 DEF CodesInOrder
<1> QED
  BY <1>2, <1>3, <1>4, <1>5, <1>6, <1>7, <1>8, <1>9 DEF IInv

\* The invariants hold of every execution, together with what makes them
\* inductive: what requests and tokens look like, whose the live tokens of the
\* handset are, and how many guesses a code still lets in.
THEOREM Invariance == Spec => []IInv
<1>1. Init => IInv
  BY InitFacts
<1>2. IInv /\ [Next]_vars => IInv'
  BY TypeNext, RequestsNext, TokensNext, SessionsNext, EndedNext, CodesNext
     DEF IInv, Sessions
<1> QED
  BY <1>1, <1>2, PTL DEF Spec

\* Accounts, tokens, codes, requests and the app keep their types.
THEOREM TypeCorrect == Spec => []TypeOK
<1>1. IInv => TypeOK
  BY DEF IInv
<1> QED
  BY <1>1, Invariance, PTL

\* A one-time code is used once, by whatever requests compete for it, and
\* wrong guesses stop at the limit, but for those that were let in before.
THEOREM CodeUsedOnceHolds == Spec => []CodeUsedOnce
<1>1. IInv => CodeUsedOnce
  <2>1. ASSUME IInv, NEW c \in Code
        PROVE  code[c].uses <= 1
               /\ code[c].attempts <= MaxAttempts - 1 + Cardinality(Request)
    <3>1. code[c].attempts \in Nat /\ MaxAttempts \in Nat
      BY <2>1, AccountsAssumption DEF IInv, TypeOK, OtpChallenge
    <3>2. Cardinality(Guessing(c)) \in Nat /\ Cardinality(Request) \in Nat
      BY GuessingFinite
    <3>3. /\ code[c].uses = IF code[c].is = "used" THEN 1 ELSE 0
          /\ code[c].attempts + Cardinality(Guessing(c))
               <= MaxAttempts - 1 + Cardinality(Request)
      BY <2>1 DEF IInv, CodesInOrder
    <3> QED
      BY <3>1, <3>2, <3>3
  <2> QED
    BY <2>1 DEF CodeUsedOnce
<1> QED
  BY <1>1, Invariance, PTL

\* The handset's own requests never end its session, unless an answer was
\* lost or the app was stopped: they share one refresh.
THEOREM EndedByNobodyHolds == Spec => []EndedByNobody
<1>1. IInv => EndedByNobody
  BY DEF IInv
<1> QED
  BY <1>1, Invariance, PTL

\* Every live session of the handset is stored, on its way to it, or was given
\* up because of a fault, a closed account or a later sign-in.
THEOREM NoForgottenSessionHolds == Spec => []NoForgottenSession
<1>1. IInv => NoForgottenSession
  <2>1. ASSUME IInv, NEW t \in Live, t # app.stored, t \notin stray
        PROVE  \E r \in Request : req[r].wanted /\ req[r].token = t
    <3>1. PICK r \in Request : req[r].pc = "tokens" /\ req[r].token = t
      BY <2>1 DEF IInv, StoredOrComing, Current
    <3>2. req[r].wanted
      BY <2>1, <3>1 DEF IInv, RequestsInOrder, Answered
    <3> QED
      BY <3>1, <3>2
  <2> QED
    BY <2>1 DEF NoForgottenSession
<1> QED
  BY <1>1, Invariance, PTL
=============================================================================
