---------------------------- MODULE SessionProofs ----------------------------
(***************************************************************************)
(* The login of one user and its sessions (AuthSessions), for any number   *)
(* of requests that overlap and die: the OTP and its guesses, the refresh  *)
(* token, and the profile that every save may write.                       *)
(***************************************************************************)
EXTENDS Requests, FiniteSetTheorems, TLAPS


(* The requests of a user. *)
LEMMA AuthOpsAre == AuthOps = {"otp", "login", "firebase", "refresh", "profile", "me", "logout"}
  BY DEF AuthOps

(* The cardinality that the instance knows is the one of FiniteSets. *)
LEMMA AuthCountSame == \A S : Auth!Cardinality(S) = Cardinality(S)
  BY DEF Auth!Cardinality, Cardinality

AuthAllOps == {"otp", "login", "firebase", "refresh", "profile", "me", "logout"}
AuthSteps == {"idle", "cooldown", "setCode", "delTries", "setCool", "lock", "getCode", "incr", "codeTtl",
          "expire", "setLock", "delCode", "find", "insert", "sign", "reload", "save", "logout"}
AuthEntity == [name : Nat, push : Nat, hash : Nat]
AuthRequest == [op : AuthAllOps, pc : AuthSteps, guess : Nat, code : Nat, tries : Nat, token : Nat,
            user : AuthEntity, set : SUBSET Auth!Columns, dirty : SUBSET Auth!Columns, out : BOOLEAN]

(* The steps a request takes follow from its operation *)
AuthOpAt(op, pc) ==
    /\ pc \in {"cooldown", "setCode", "setCool"} => op = "otp"
    /\ pc \in {"lock", "getCode", "incr", "codeTtl", "expire", "setLock", "delCode"} => op = "login"
    /\ pc = "delTries" => op \in {"otp", "login"}
    /\ pc = "find" => op \in Auth!SessionOps \cup Auth!EditOps
    /\ pc = "insert" => op \in Auth!Logins
    /\ pc = "sign" => op \in Auth!SessionOps
    /\ pc \in {"reload", "save"} => op \in Auth!SessionOps \cup Auth!EditOps
    /\ pc = "logout" => op = "logout"

(* A login goes on to the user's row with the code that was stored *)
AuthCodeRead(r) ==
    /\ r.op = "login" /\ r.pc \in {"find", "insert", "sign", "reload", "save"} => r.guess = r.code
    /\ r.op = "login" /\ r.pc \in {"incr", "setLock", "delCode", "delTries", "find", "insert", "sign",
                                   "reload", "save"} => r.code # Auth!NoCode
    /\ r.pc \in {"incr", "setLock"} => r.guess # r.code

(* What a handler has set in the entity, and what save is going to write *)
AuthSetInEntity(r) ==
    /\ r.pc \notin {"reload", "save"} => r.set = {}
    /\ r.pc \in {"reload", "save"} /\ r.op \in Auth!SessionOps =>
          r.set = {"hash"} /\ r.user.hash # Auth!NoCode /\ r.token # Auth!NoCode
    /\ r.pc \in {"reload", "save"} /\ r.op \in Auth!EditOps => r.set \subseteq {"name", "push"}
    /\ r.pc = "save" => r.set \subseteq r.dirty /\ r.dirty \subseteq r.set \cup {"name", "push"}

AuthShaped(r) == AuthOpAt(r.op, r.pc) /\ AuthCodeRead(r) /\ AuthSetInEntity(r)

AuthShape == authReq \in [Slots -> AuthRequest] /\ \A q \in Slots : AuthShaped(authReq[q])

AuthPast == [wrong : Nat, clears : Nat, uses : [1..MaxCodes -> Nat], alone : BOOLEAN,
                 crashes : Nat, out : BOOLEAN, refused : SUBSET {"token", "logout", "failure"}, stale : BOOLEAN, edits : Nat,
                 name : Nat, push : Nat]

AuthNumbers ==
    /\ sms \in BOOLEAN
    /\ otp \in [code : Nat, ending : Nat, tries : Nat, until : Nat, lock : BOOLEAN, cool : BOOLEAN]
    /\ issued \in Nat /\ elapsed \in Nat /\ minted \in Nat
    /\ row \in [exists : BOOLEAN, name : Nat, push : Nat, hash : Nat]
    /\ held \in SUBSET Nat
    /\ past \in AuthPast

AuthTypeInv == AuthShape /\ AuthNumbers

(* The slot without a request. *)
LEMMA AuthIdleShaped == Auth!Idle \in AuthRequest /\ AuthShaped(Auth!Idle) /\ Auth!Idle.pc = "idle" /\ Auth!Idle.op = "otp" /\ Auth!Idle.code = 0
                    /\ Auth!Idle.guess = 0 /\ Auth!Idle.token = 0 /\ Auth!Idle.dirty = {} /\ Auth!Idle.set = {}
                    /\ Auth!Idle.user = [name |-> 0, push |-> 0, hash |-> 0]
  BY DEF Auth!Idle, AuthRequest, AuthAllOps, AuthSteps, AuthEntity, Auth!Columns, Auth!NoCode, AuthShaped, AuthOpAt, AuthCodeRead, AuthSetInEntity,
         Auth!SessionOps, Auth!Logins, Auth!EditOps

(* A request that takes a step *)
AuthMoves(q, r) == authReq' = [authReq EXCEPT ![q] = r]

(* A request that moves to one of the shapes keeps the shape of all. *)
LEMMA AuthShapeMoves ==
    ASSUME AuthShape, NEW q \in Slots, NEW r \in AuthRequest, AuthShaped(r), AuthMoves(q, r)
    PROVE  AuthShape'
<1>1. authReq' \in [Slots -> AuthRequest]
  BY DEF AuthShape, AuthMoves
<1>2. \A p \in Slots : AuthShaped(authReq'[p])
  BY DEF AuthShape, AuthMoves
<1> QED
  BY <1>1, <1>2 DEF AuthShape

(* Goto *)
LEMMA AuthGotoShape ==
    ASSUME AuthShape, NEW q \in Slots, NEW step \in AuthSteps, Auth!Goto(q, step)
    PROVE  LET h == authReq[q]
               r == [h EXCEPT !.pc = step]
           IN  /\ AuthMoves(q, r) /\ r \in AuthRequest
               /\ r.op = h.op /\ r.pc = step /\ r.guess = h.guess /\ r.code = h.code
               /\ r.tries = h.tries /\ r.token = h.token /\ r.user = h.user /\ r.set = h.set
               /\ r.dirty = h.dirty /\ r.out = h.out
<1>1. authReq[q] \in AuthRequest
  BY DEF AuthShape
<1> DEFINE h == authReq[q]
<1>2. AuthMoves(q, [h EXCEPT !.pc = step])
  BY DEF Auth!Goto, AuthMoves, AuthShape
<1> HIDE DEF h
<1>3. h \in AuthRequest
  BY <1>1 DEF h
<1>4. LET r == [h EXCEPT !.pc = step]
           IN  /\ r \in AuthRequest
               /\ r.op = h.op /\ r.pc = step /\ r.guess = h.guess /\ r.code = h.code
               /\ r.tries = h.tries /\ r.token = h.token /\ r.user = h.user /\ r.set = h.set
               /\ r.dirty = h.dirty /\ r.out = h.out
  BY <1>3 DEF AuthRequest
<1> QED
  BY <1>2, <1>4 DEF h

(* The same for the steps that read, set or count something *)
LEMMA AuthSetsShape ==
    ASSUME AuthShape, NEW q \in Slots, NEW h, h = authReq[q], NEW step \in AuthSteps,
           NEW code \in Nat, NEW tries \in Nat, NEW token \in Nat, NEW user \in AuthEntity,
           NEW set \in SUBSET Auth!Columns, NEW dirty \in SUBSET Auth!Columns
    PROVE  LET r == [h EXCEPT !.pc = step, !.code = code, !.tries = tries, !.token = token, !.user = user,
                              !.set = set, !.dirty = dirty]
           IN  /\ r \in AuthRequest
               /\ r.op = h.op /\ r.pc = step /\ r.guess = h.guess /\ r.code = code
               /\ r.tries = tries /\ r.token = token /\ r.user = user /\ r.set = set
               /\ r.dirty = dirty /\ r.out = h.out
<1>1. h \in AuthRequest
  BY DEF AuthShape
<1> QED
  BY <1>1 DEF AuthRequest

(* What each step does with its request *)
AuthEndsAs(q) == AuthMoves(q, Auth!Idle)
AuthFollows(h, r) ==
    /\ r \in AuthRequest
    /\ r.op = h.op /\ r.guess = h.guess /\ r.out = h.out
AuthKeeps(h, r) == r.token = h.token /\ r.user = h.user /\ r.set = h.set /\ r.dirty = h.dirty

(* login: a request that reads no OTP ends, and one that reads one goes on with *)
(* it, to delete it on a match or to count the miss.                            *)
LEMMA AuthGetCodeDoes ==
    ASSUME AuthTypeInv, NEW q \in Slots, Auth!GetCode(q)
    PROVE  \/ otp.code = Auth!NoCode /\ AuthEndsAs(q)
           \/ /\ otp.code # Auth!NoCode
              /\ \E r \in AuthRequest : /\ AuthMoves(q, r) /\ AuthFollows(authReq[q], r) /\ AuthKeeps(authReq[q], r)
                                        /\ r.code = otp.code /\ r.tries = authReq[q].tries
                                        /\ r.pc = IF otp.code = r.guess THEN "delCode" ELSE "incr"
<1> DEFINE h == authReq[q]
           step == IF otp.code = h.guess THEN "delCode" ELSE "incr"
           r == [h EXCEPT !.code = otp.code, !.pc = step]
<1>1. h \in AuthRequest /\ otp.code \in Nat /\ step \in AuthSteps
  BY DEF AuthTypeInv, AuthShape, AuthNumbers, AuthSteps
<1>2. CASE otp.code = Auth!NoCode
  BY <1>2 DEF Auth!GetCode, Auth!Ends, AuthEndsAs, AuthMoves
<1>3. CASE otp.code # Auth!NoCode
  <2>1. AuthMoves(q, r)
    BY <1>3 DEF Auth!GetCode, AuthMoves, AuthTypeInv, AuthShape
  <2> HIDE DEF h, step
  <2>2. AuthFollows(h, r) /\ AuthKeeps(h, r) /\ r.code = otp.code /\ r.tries = h.tries /\ r.pc = step /\ r.guess = h.guess
    BY <1>1 DEF AuthRequest, AuthFollows, AuthKeeps
  <2> QED
    BY <1>3, <2>1, <2>2 DEF h, step, AuthFollows
<1> QED
  BY <1>2, <1>3

(* The INCR of the attempts: the first miss goes on to the TTL, the third one to *)
(* the lock.                                                                     *)
LEMMA AuthIncrTriesDoes ==
    ASSUME AuthTypeInv, NEW q \in Slots, Auth!IncrTries(q)
    PROVE  LET n == otp.tries + 1 IN
           \/ n # 1 /\ ~Auth!Locks(n) /\ AuthEndsAs(q)
           \/ \E r \in AuthRequest : /\ AuthMoves(q, r) /\ AuthFollows(authReq[q], r) /\ AuthKeeps(authReq[q], r)
                                     /\ r.code = authReq[q].code
                                     /\ r.pc = IF n = 1 THEN "codeTtl" ELSE "setLock"
                                     /\ n = 1 \/ Auth!Locks(n)
<1> DEFINE h == authReq[q]
           n == otp.tries + 1
<1>1. h \in AuthRequest /\ n \in Nat /\ n >= 1
  BY DEF AuthTypeInv, AuthShape, AuthNumbers
<1>2. CASE n = 1
  <2> DEFINE r == [h EXCEPT !.tries = n, !.pc = "codeTtl"]
  <2>0. authReq' = [authReq EXCEPT ![q].tries = n, ![q].pc = "codeTtl"]
    BY <1>2 DEF Auth!IncrTries
  <2>1. AuthMoves(q, r)
    BY <2>0 DEF AuthMoves, AuthTypeInv, AuthShape
  <2> HIDE DEF h, n
  <2>2. r \in AuthRequest /\ AuthFollows(h, r) /\ AuthKeeps(h, r) /\ r.code = h.code /\ r.pc = "codeTtl"
    BY <1>1 DEF AuthRequest, AuthFollows, AuthKeeps, AuthSteps
  <2> QED
    BY <1>2, <2>1, <2>2 DEF h, n
<1>3. CASE n # 1 /\ Auth!Locks(n)
  <2> DEFINE r == [h EXCEPT !.pc = "setLock"]
  <2>1. Auth!Goto(q, "setLock")
    BY <1>1, <1>3 DEF Auth!IncrTries
  <2>2. r \in AuthRequest /\ AuthFollows(h, r) /\ AuthKeeps(h, r) /\ r.code = h.code /\ r.pc = "setLock" /\ AuthMoves(q, r)
    <3>1. "setLock" \in AuthSteps
      BY DEF AuthSteps
    <3> QED
      BY <2>1, <3>1, AuthGotoShape DEF AuthTypeInv, AuthFollows, AuthKeeps
  <2> QED
    BY <1>3, <2>2
<1>4. CASE n # 1 /\ ~Auth!Locks(n)
  BY <1>1, <1>4 DEF Auth!IncrTries, Auth!Ends, AuthEndsAs, AuthMoves
<1> QED
  BY <1>2, <1>3, <1>4

(* The TTL of the OTP: gone or in its last half second, or read for the EXPIRE of *)
(* the counter.                                                                  *)
LEMMA AuthReadCodeTtlDoes ==
    ASSUME AuthTypeInv, NEW q \in Slots, Auth!ReadCodeTtl(q)
    PROVE  \/ AuthEndsAs(q)
           \/ \E r \in AuthRequest : /\ AuthMoves(q, r) /\ AuthFollows(authReq[q], r) /\ AuthKeeps(authReq[q], r)
                                     /\ r.code = otp.code /\ r.pc = "expire" /\ otp.code > otp.ending
<1> DEFINE h == authReq[q]
           r == [h EXCEPT !.code = otp.code, !.pc = "expire"]
<1>1. h \in AuthRequest /\ otp.code \in Nat /\ otp.ending \in Nat
  BY DEF AuthTypeInv, AuthShape, AuthNumbers
<1>2. CASE otp.code <= otp.ending
  BY <1>2 DEF Auth!ReadCodeTtl, Auth!Ends, AuthEndsAs, AuthMoves
<1>3. CASE ~(otp.code <= otp.ending)
  <2>1. AuthMoves(q, r)
    BY <1>3 DEF Auth!ReadCodeTtl, AuthMoves, AuthTypeInv, AuthShape
  <2> HIDE DEF h
  <2>2. r \in AuthRequest /\ AuthFollows(h, r) /\ AuthKeeps(h, r) /\ r.code = otp.code /\ r.pc = "expire"
    BY <1>1 DEF AuthRequest, AuthFollows, AuthKeeps, AuthSteps
  <2>3. otp.code > otp.ending
    BY <1>1, <1>3
  <2> QED
    BY <2>1, <2>2, <2>3 DEF h
<1> QED
  BY <1>2, <1>3

(* The user's row: a refresh is refused, a login or a refresh goes on to sign, an *)
(* edit sets its column in the entity.                                            *)
LEMMA AuthFindUserDoes ==
    ASSUME AuthTypeInv, NEW q \in Slots, Auth!FindUser(q)
    PROVE  LET h == authReq[q] IN
           \/ /\ h.op = "refresh" /\ row.hash = Auth!NoCode /\ AuthEndsAs(q)
              /\ past' = [past EXCEPT !.refused = @ \cup {Auth!Cause(h)}]
           \/ /\ h.op \in Auth!SessionOps /\ (h.op = "refresh" => row.hash # Auth!NoCode)
              /\ past' = past
              /\ \E r \in AuthRequest : /\ AuthMoves(q, r) /\ AuthFollows(h, r) /\ r.code = h.code /\ r.token = h.token
                                        /\ r.set = h.set /\ r.dirty = h.dirty
                                        /\ r.pc = IF h.op = "refresh" \/ row.exists THEN "sign" ELSE "insert"
                                        /\ r.user = [name |-> row.name, push |-> row.push,
                                                     hash |-> IF h.op = "refresh" THEN row.hash ELSE Auth!NoCode]
           \/ /\ h.op \in Auth!EditOps
              /\ past' = [past EXCEPT !.edits = @ + 1]
              /\ \E r \in AuthRequest, c \in {"name", "push"} :
                    /\ AuthMoves(q, r) /\ AuthFollows(h, r) /\ r.code = h.code /\ r.token = h.token
                    /\ r.pc = "reload" /\ r.dirty = h.dirty /\ r.set = {c}
                    /\ r.user[c] = past.edits + 1
                    /\ \A d \in {"name", "push"} \ {c} : r.user[d] = row[d]
                    /\ r.user.hash = Auth!NoCode
<1> DEFINE h == authReq[q]
           user == [name |-> row.name, push |-> row.push,
                    hash |-> IF h.op = "refresh" THEN row.hash ELSE Auth!NoCode]
<1>1. h \in AuthRequest /\ user \in AuthEntity /\ past.edits + 1 \in Nat
  BY DEF AuthTypeInv, AuthShape, AuthNumbers, AuthEntity, Auth!NoCode, AuthPast
<1>2. h.op \in Auth!SessionOps \cup Auth!EditOps
  BY DEF Auth!FindUser, Auth!At, AuthTypeInv, AuthShape, AuthShaped, AuthOpAt
<1>o. /\ h.op \in Auth!Logins => h.op # "refresh" /\ h.op \notin Auth!EditOps
      /\ h.op \in Auth!EditOps => h.op # "refresh" /\ h.op \notin Auth!Logins
      /\ h.op = "refresh" => h.op \notin Auth!EditOps /\ h.op \notin Auth!Logins
  BY DEF Auth!Logins, Auth!EditOps
<1>3. CASE h.op \in Auth!SessionOps /\ (h.op = "refresh" => row.hash # Auth!NoCode)
  <2> DEFINE step == IF h.op = "refresh" \/ row.exists THEN "sign" ELSE "insert"
             r == [h EXCEPT !.user = user, !.pc = step]
  <2>1. ASSUME h.op \in Auth!Logins PROVE AuthMoves(q, r) /\ past' = past
    <3>1. AuthMoves(q, r) /\ past' = past
      BY <1>o, <2>1 DEF Auth!FindUser, AuthMoves, AuthTypeInv, AuthShape
    <3> QED
      BY <3>1
  <2>2. ASSUME h.op = "refresh" PROVE AuthMoves(q, r) /\ past' = past
    <3>1. Auth!Matches(h.token, row.hash)
      BY <1>3, <2>2 DEF Auth!Matches
    <3>2. AuthMoves(q, r) /\ past' = past
      BY <1>o, <2>2, <3>1 DEF Auth!FindUser, AuthMoves, AuthTypeInv, AuthShape
    <3> QED
      BY <3>2
  <2>3. AuthMoves(q, r) /\ past' = past
    BY <1>3, <2>1, <2>2 DEF Auth!SessionOps
  <2>4. step \in AuthSteps
    BY DEF AuthSteps
  <2> HIDE DEF h, user, step
  <2>5. /\ r \in AuthRequest /\ AuthFollows(h, r) /\ r.code = h.code /\ r.token = h.token
        /\ r.set = h.set /\ r.dirty = h.dirty /\ r.pc = step /\ r.user = user
    BY <1>1, <2>4 DEF AuthRequest, AuthFollows
  <2> QED
    BY <1>3, <2>3, <2>5 DEF h, user, step
<1>4. CASE h.op = "refresh" /\ row.hash = Auth!NoCode
  BY <1>o, <1>4 DEF Auth!FindUser, Auth!Matches, AuthEndsAs, Auth!Ends, AuthMoves
<1>5. CASE h.op \in Auth!EditOps
  <2>1. PICK c \in {"name", "push"} :
            authReq' = [authReq EXCEPT ![q].user = [user EXCEPT ![c] = past.edits + 1],
                               ![q].set = {c}, ![q].pc = "reload"]
    BY <1>o, <1>5 DEF Auth!FindUser
  <2> DEFINE new == [user EXCEPT ![c] = past.edits + 1]
             r == [h EXCEPT !.user = new, !.set = {c}, !.pc = "reload"]
  <2>2. AuthMoves(q, r)
    BY <2>1 DEF AuthMoves, AuthTypeInv, AuthShape
  <2>3. past' = [past EXCEPT !.edits = @ + 1]
    BY <1>o, <1>5 DEF Auth!FindUser
  <2>4. /\ new \in AuthEntity /\ new[c] = past.edits + 1 /\ new.hash = Auth!NoCode
        /\ \A d \in {"name", "push"} \ {c} : new[d] = row[d]
    BY <1>1, <1>o, <1>5 DEF AuthEntity
  <2> HIDE DEF h, new
  <2>5. /\ r \in AuthRequest /\ AuthFollows(h, r) /\ r.code = h.code /\ r.token = h.token
        /\ r.set = {c} /\ r.dirty = h.dirty /\ r.pc = "reload" /\ r.user = new
    BY <1>1, <2>4 DEF AuthRequest, AuthFollows, AuthSteps, Auth!Columns
  <2>6. /\ r \in AuthRequest /\ AuthMoves(q, r) /\ AuthFollows(h, r) /\ r.code = h.code /\ r.token = h.token
        /\ r.pc = "reload" /\ r.dirty = h.dirty /\ r.set = {c}
        /\ r.user[c] = past.edits + 1 /\ r.user.hash = Auth!NoCode
        /\ \A d \in {"name", "push"} \ {c} : r.user[d] = row[d]
    BY <2>2, <2>4, <2>5
  <2> HIDE DEF r
  <2> QED
    BY <1>5, <2>3, <2>6 DEF h
<1> QED
  BY <1>2, <1>3, <1>4, <1>5 DEF Auth!SessionOps

(* generateTokens: a new token, and its hash in the entity. *)
LEMMA AuthSignDoes ==
    ASSUME AuthTypeInv, NEW q \in Slots, Auth!Sign(q)
    PROVE  \E r \in AuthRequest : /\ AuthMoves(q, r) /\ AuthFollows(authReq[q], r) /\ r.code = authReq[q].code
                                  /\ r.token = minted + 1 /\ r.user.hash = minted + 1
                                  /\ r.user.name = authReq[q].user.name /\ r.user.push = authReq[q].user.push
                                  /\ r.set = {"hash"} /\ r.dirty = authReq[q].dirty /\ r.pc = "reload"
<1> DEFINE h == authReq[q]
           user == [h.user EXCEPT !.hash = minted + 1]
           r == [h EXCEPT !.token = minted + 1, !.user = user, !.set = {"hash"}, !.pc = "reload"]
<1>1. h \in AuthRequest /\ minted + 1 \in Nat /\ h.user \in AuthEntity
  BY DEF AuthTypeInv, AuthShape, AuthNumbers, AuthRequest
<1>2. AuthMoves(q, r)
  BY <1>1, ZenonT(60) DEF Auth!Sign, AuthMoves, AuthTypeInv, AuthShape
<1>3. user \in AuthEntity /\ user.hash = minted + 1 /\ user.name = h.user.name /\ user.push = h.user.push
  BY <1>1 DEF AuthEntity
<1> HIDE DEF h, user
<1>4. /\ r \in AuthRequest /\ AuthFollows(h, r) /\ r.code = h.code /\ r.token = minted + 1
      /\ r.set = {"hash"} /\ r.dirty = h.dirty /\ r.pc = "reload" /\ r.user = user
  BY <1>1, <1>3 DEF AuthRequest, AuthFollows, AuthSteps, Auth!Columns
<1> QED
  BY <1>2, <1>3, <1>4 DEF h

(* The first half of save: the columns to be written are those set, and those *)
(* that differ from the row.                                                  *)
LEMMA AuthReloadUserDoes ==
    ASSUME AuthTypeInv, NEW q \in Slots, Auth!ReloadUser(q)
    PROVE  \E r \in AuthRequest :
              /\ AuthMoves(q, r) /\ AuthFollows(authReq[q], r) /\ r.code = authReq[q].code
              /\ r.token = authReq[q].token /\ r.user = authReq[q].user /\ r.set = authReq[q].set /\ r.pc = "save"
              /\ r.dirty = authReq[q].set \cup {c \in {"name", "push"} : authReq[q].user[c] # row[c]}
<1> DEFINE h == authReq[q]
           dirty == h.set \cup {c \in {"name", "push"} : h.user[c] # row[c]}
           r == [h EXCEPT !.pc = "save", !.dirty = dirty]
<1>1. h \in AuthRequest /\ dirty \in SUBSET Auth!Columns
  BY DEF AuthTypeInv, AuthShape, AuthRequest, Auth!Columns
<1>2. AuthMoves(q, r)
  BY <1>1 DEF Auth!ReloadUser, AuthMoves, AuthTypeInv, AuthShape
<1> HIDE DEF h, dirty
<1>4. /\ r \in AuthRequest /\ AuthFollows(h, r) /\ r.code = h.code /\ r.token = h.token
      /\ r.set = h.set /\ r.dirty = dirty /\ r.pc = "save" /\ r.user = h.user
  BY <1>1 DEF AuthRequest, AuthFollows, AuthSteps
<1> QED
  BY <1>2, <1>4 DEF h, dirty

(* A new request has what its client sent, and nothing else. *)
LEMMA AuthBeginDoes ==
    ASSUME AuthTypeInv, NEW q \in Slots, NEW op \in AuthOps, NEW guess \in Nat, NEW token \in Nat,
           Auth!Begin(q, op, guess, token)
    PROVE  \E r \in AuthRequest : /\ AuthMoves(q, r) /\ r.op = op /\ r.pc = Auth!FirstStep(op) /\ r.guess = guess
                                  /\ r.code = Auth!NoCode /\ r.token = token /\ r.set = {} /\ r.dirty = {}
                                  /\ r.user = Auth!Idle.user
<1> DEFINE r == [Auth!Idle EXCEPT !.op = op, !.pc = Auth!FirstStep(op), !.guess = guess, !.token = token,
                             !.out = past.out]
<1>1. op \in AuthAllOps /\ Auth!FirstStep(op) \in AuthSteps /\ guess \in Nat /\ token \in Nat /\ past.out \in BOOLEAN
  BY AuthOpsAre DEF AuthAllOps, Auth!FirstStep, AuthSteps, AuthTypeInv, AuthNumbers, Auth!NoCode, AuthPast
<1>2. AuthMoves(q, r)
  BY DEF Auth!Begin, AuthMoves
<1>3. /\ r \in AuthRequest /\ r.op = op /\ r.pc = Auth!FirstStep(op) /\ r.guess = guess
      /\ r.code = Auth!Idle.code /\ r.token = token /\ r.set = Auth!Idle.set /\ r.dirty = Auth!Idle.dirty
      /\ r.user = Auth!Idle.user
  <2>1. Auth!Idle \in AuthRequest
    BY AuthIdleShaped
  <2> QED
    BY <1>1, <2>1 DEF AuthRequest
<1> QED
  BY <1>2, <1>3, AuthIdleShaped DEF Auth!NoCode

(* A handler that only goes on keeps all it has. *)
LEMMA AuthGotoDoes ==
    ASSUME AuthTypeInv, NEW q \in Slots, NEW step \in AuthSteps, Auth!Goto(q, step)
    PROVE  \E r \in AuthRequest : /\ AuthMoves(q, r) /\ AuthFollows(authReq[q], r) /\ AuthKeeps(authReq[q], r)
                                  /\ r.code = authReq[q].code /\ r.pc = step
  BY AuthGotoShape DEF AuthTypeInv, AuthFollows, AuthKeeps

(* A handler that returns frees its slot. *)
LEMMA AuthEndsDoes == ASSUME NEW q \in Slots, Auth!Ends(q) PROVE AuthEndsAs(q)
  BY DEF Auth!Ends, AuthEndsAs, AuthMoves

(* A slot that is freed keeps the shape of all. *)
LEMMA AuthEndsShape == ASSUME AuthShape, NEW q \in Slots, AuthEndsAs(q) PROVE AuthShape'
  BY AuthIdleShaped, AuthShapeMoves DEF AuthEndsAs

-----------------------------------------------------------------------------
(* The steps that follow one another *)
LEMMA AuthFollowsShape ==
    ASSUME AuthShape, NEW q \in Slots, NEW r \in AuthRequest, AuthMoves(q, r), AuthFollows(authReq[q], r), AuthKeeps(authReq[q], r),
           AuthOpAt(r.op, r.pc), AuthCodeRead(r), r.pc \notin {"reload", "save"}, authReq[q].pc \notin {"reload", "save"}
    PROVE  AuthShape'
<1>1. AuthShaped(r)
  BY DEF AuthShape, AuthShaped, AuthSetInEntity, AuthFollows, AuthKeeps
<1> QED
  BY <1>1, AuthShapeMoves

(* Every step of a handler keeps the shapes. *)
LEMMA AuthShapeStep ==
    ASSUME AuthTypeInv, NEW q \in Slots, Auth!RequestStep(q)
    PROVE  AuthShape'
<1> DEFINE h == authReq[q]
<1>h. h \in AuthRequest /\ AuthShaped(h) /\ AuthShape
  BY DEF AuthTypeInv, AuthShape
<1>g. ASSUME NEW step \in AuthSteps \ {"reload", "save"}, Auth!Goto(q, step), h.pc \notin {"reload", "save"},
             AuthOpAt(h.op, step), AuthCodeRead([op |-> h.op, pc |-> step, guess |-> h.guess, code |-> h.code])
      PROVE  AuthShape'
  <2>1. PICK r \in AuthRequest : /\ AuthMoves(q, r) /\ AuthFollows(h, r) /\ AuthKeeps(h, r)
                                 /\ r.code = h.code /\ r.pc = step
    BY <1>g, AuthGotoDoes
  <2>2. AuthOpAt(r.op, r.pc) /\ AuthCodeRead(r)
    BY <1>g, <2>1 DEF AuthFollows, AuthCodeRead
  <2> QED
    BY <1>g, <1>h, <2>1, <2>2, AuthFollowsShape
<1>e. ASSUME Auth!Ends(q) PROVE AuthShape'
  BY <1>e, <1>h, AuthEndsDoes, AuthEndsShape
<1>1. CASE Auth!CheckCooldown(q)
  <2>1. h.pc = "cooldown" /\ h.op = "otp"
    BY <1>1, <1>h DEF Auth!CheckCooldown, Auth!At, AuthShaped, AuthOpAt
  <2>2. Auth!Ends(q) \/ Auth!Goto(q, "setCool") \/ Auth!Goto(q, "setCode")
    BY <1>1 DEF Auth!CheckCooldown
  <2> QED
    BY <2>1, <2>2, <1>g, <1>e DEF AuthOpAt, AuthCodeRead, AuthSteps
<1>2. CASE Auth!SetCode(q)
  <2>1. h.pc = "setCode" /\ h.op = "otp" /\ Auth!Goto(q, "delTries")
    BY <1>2, <1>h DEF Auth!SetCode, Auth!At, AuthShaped, AuthOpAt
  <2> QED
    BY <2>1, <1>g DEF AuthOpAt, AuthCodeRead, AuthSteps
<1>3. CASE Auth!DelTries(q)
  <2>1. h.pc = "delTries" /\ h.op \in {"otp", "login"} /\ (h.op = "login" => h.code # Auth!NoCode)
    BY <1>3, <1>h DEF Auth!DelTries, Auth!At, AuthShaped, AuthOpAt, AuthCodeRead
  <2>2. \/ Auth!Ends(q)
        \/ Auth!Goto(q, "setCool") /\ h.op = "otp"
        \/ Auth!Goto(q, "find") /\ h.op = "login" /\ h.guess = h.code
    BY <1>3, <2>1 DEF Auth!DelTries
  <2> QED
    BY <2>1, <2>2, <1>g, <1>e DEF AuthOpAt, AuthCodeRead, AuthSteps, Auth!SessionOps, Auth!Logins
<1>4. CASE Auth!SetCooldown(q)
  BY <1>4, <1>e DEF Auth!SetCooldown
<1>5. CASE Auth!CheckLock(q)
  <2>1. h.pc = "lock" /\ h.op = "login"
    BY <1>5, <1>h DEF Auth!CheckLock, Auth!At, AuthShaped, AuthOpAt
  <2>2. Auth!Ends(q) \/ Auth!Goto(q, "getCode")
    BY <1>5 DEF Auth!CheckLock
  <2> QED
    BY <2>1, <2>2, <1>g, <1>e DEF AuthOpAt, AuthCodeRead, AuthSteps
<1>6. CASE Auth!GetCode(q)
  <2>1. h.pc = "getCode" /\ h.op = "login"
    BY <1>6, <1>h DEF Auth!GetCode, Auth!At, AuthShaped, AuthOpAt
  <2>2. CASE AuthEndsAs(q)
    BY <1>h, <2>2, AuthEndsShape
  <2>3. ASSUME otp.code # Auth!NoCode, NEW r \in AuthRequest, AuthMoves(q, r), AuthFollows(h, r), AuthKeeps(h, r),
               r.code = otp.code, r.pc = IF otp.code = r.guess THEN "delCode" ELSE "incr"
        PROVE  AuthShape'
    <3>1. AuthOpAt(r.op, r.pc) /\ AuthCodeRead(r)
      BY <2>1, <2>3 DEF AuthFollows, AuthOpAt, AuthCodeRead
    <3> QED
      BY <1>h, <2>1, <2>3, <3>1, AuthFollowsShape
  <2> QED
    BY <1>6, <2>2, <2>3, AuthGetCodeDoes
<1>7. CASE Auth!IncrTries(q)
  <2>1. h.pc = "incr" /\ h.op = "login" /\ h.guess # h.code /\ h.code # Auth!NoCode
    BY <1>7, <1>h DEF Auth!IncrTries, Auth!At, AuthShaped, AuthOpAt, AuthCodeRead
  <2>2. CASE AuthEndsAs(q)
    BY <1>h, <2>2, AuthEndsShape
  <2>3. ASSUME NEW r \in AuthRequest, AuthMoves(q, r), AuthFollows(h, r), AuthKeeps(h, r), r.code = h.code,
               r.pc \in {"codeTtl", "setLock"}
        PROVE  AuthShape'
    <3>1. AuthOpAt(r.op, r.pc) /\ AuthCodeRead(r)
      BY <2>1, <2>3 DEF AuthFollows, AuthOpAt, AuthCodeRead
    <3> QED
      BY <1>h, <2>1, <2>3, <3>1, AuthFollowsShape
  <2> QED
    BY <1>7, <2>2, <2>3, AuthIncrTriesDoes
<1>8. CASE Auth!ReadCodeTtl(q)
  <2>1. h.pc = "codeTtl" /\ h.op = "login"
    BY <1>8, <1>h DEF Auth!ReadCodeTtl, Auth!At, AuthShaped, AuthOpAt
  <2>2. CASE AuthEndsAs(q)
    BY <1>h, <2>2, AuthEndsShape
  <2>3. ASSUME NEW r \in AuthRequest, AuthMoves(q, r), AuthFollows(h, r), AuthKeeps(h, r), r.code = otp.code, r.pc = "expire"
        PROVE  AuthShape'
    <3>1. AuthOpAt(r.op, r.pc) /\ AuthCodeRead(r)
      BY <2>1, <2>3 DEF AuthFollows, AuthOpAt, AuthCodeRead
    <3> QED
      BY <1>h, <2>1, <2>3, <3>1, AuthFollowsShape
  <2> QED
    BY <1>8, <2>2, <2>3, AuthReadCodeTtlDoes
<1>9. CASE Auth!ExpireTries(q)
  BY <1>9, <1>e DEF Auth!ExpireTries
<1>10. CASE Auth!SetLock(q)
  <2>1. h.pc = "setLock" /\ h.op = "login" /\ Auth!Goto(q, "delCode") /\ h.code # Auth!NoCode
    BY <1>10, <1>h DEF Auth!SetLock, Auth!At, AuthShaped, AuthOpAt, AuthCodeRead
  <2> QED
    BY <2>1, <1>g DEF AuthOpAt, AuthCodeRead, AuthSteps
<1>11. CASE Auth!DelCode(q)
  <2>1. h.pc = "delCode" /\ h.op = "login" /\ Auth!Goto(q, "delTries") /\ h.code # Auth!NoCode
    BY <1>11, <1>h DEF Auth!DelCode, Auth!At, AuthShaped, AuthOpAt, AuthCodeRead
  <2> QED
    BY <2>1, <1>g DEF AuthOpAt, AuthCodeRead, AuthSteps
<1>12. CASE Auth!FindUser(q)
  <2>1. h.pc = "find" /\ h.set = {}
    BY <1>12, <1>h DEF Auth!FindUser, Auth!At, AuthShaped, AuthSetInEntity
  <2>2. CASE AuthEndsAs(q)
    BY <1>h, <2>2, AuthEndsShape
  <2>3. ASSUME h.op \in Auth!SessionOps, NEW r \in AuthRequest, AuthMoves(q, r), AuthFollows(h, r), r.code = h.code,
               r.token = h.token, r.set = h.set,
               r.pc = IF h.op = "refresh" \/ row.exists THEN "sign" ELSE "insert"
        PROVE  AuthShape'
    <3>1. AuthOpAt(r.op, r.pc) /\ AuthCodeRead(r) /\ AuthSetInEntity(r)
      BY <1>h, <2>1, <2>3 DEF AuthFollows, AuthOpAt, AuthCodeRead, AuthShaped, AuthSetInEntity, Auth!SessionOps
    <3> QED
      BY <1>h, <2>3, <3>1, AuthShapeMoves DEF AuthShaped
  <2>4. ASSUME h.op \in Auth!EditOps, NEW r \in AuthRequest, NEW c \in {"name", "push"}, AuthMoves(q, r), AuthFollows(h, r),
               r.code = h.code, r.pc = "reload", r.set = {c}
        PROVE  AuthShape'
    <3>1. AuthOpAt(r.op, r.pc) /\ AuthCodeRead(r) /\ AuthSetInEntity(r)
      BY <1>h, <2>1, <2>4 DEF AuthFollows, AuthOpAt, AuthCodeRead, AuthShaped, AuthSetInEntity, Auth!SessionOps, Auth!Logins, Auth!EditOps
    <3> QED
      BY <1>h, <2>4, <3>1, AuthShapeMoves DEF AuthShaped
  <2> QED
    BY <1>12, <2>2, <2>3, <2>4, AuthFindUserDoes
<1>13. CASE Auth!InsertUser(q)
  <2>1. h.pc = "insert" /\ h.op \in Auth!Logins
    BY <1>13, <1>h DEF Auth!InsertUser, Auth!At, AuthShaped, AuthOpAt
  <2>2. CASE Auth!Goto(q, "sign")
    <3>1. AuthCodeRead([op |-> h.op, pc |-> "sign", guess |-> h.guess, code |-> h.code])
      BY <1>h, <2>1 DEF AuthShaped, AuthCodeRead
    <3> QED
      BY <2>1, <2>2, <3>1, <1>g DEF AuthOpAt, AuthSteps, Auth!SessionOps
  <2> QED
    BY <1>13, <2>2, <1>e DEF Auth!InsertUser
<1>14. CASE Auth!Sign(q)
  <2>1. h.pc = "sign" /\ h.op \in Auth!SessionOps
    BY <1>14, <1>h DEF Auth!Sign, Auth!At, AuthShaped, AuthOpAt
  <2>2. PICK r \in AuthRequest :
           /\ AuthMoves(q, r) /\ AuthFollows(h, r) /\ r.code = h.code
           /\ r.token = minted + 1 /\ r.user.hash = minted + 1
           /\ r.set = {"hash"} /\ r.pc = "reload"
    BY <1>14, AuthSignDoes
  <2>3. minted + 1 # Auth!NoCode
    BY DEF AuthTypeInv, AuthNumbers, Auth!NoCode
  <2>4. AuthOpAt(r.op, r.pc) /\ AuthCodeRead(r) /\ AuthSetInEntity(r)
    BY <1>h, <2>1, <2>2, <2>3 DEF AuthFollows, AuthOpAt, AuthCodeRead, AuthShaped, AuthSetInEntity, Auth!SessionOps, Auth!Logins, Auth!EditOps
  <2> QED
    BY <1>h, <2>2, <2>4, AuthShapeMoves DEF AuthShaped
<1>15. CASE Auth!ReloadUser(q)
  <2>1. h.pc = "reload"
    BY <1>15 DEF Auth!ReloadUser, Auth!At
  <2>2. PICK r \in AuthRequest :
              /\ AuthMoves(q, r) /\ AuthFollows(h, r) /\ r.code = h.code
              /\ r.token = h.token /\ r.user = h.user /\ r.set = h.set /\ r.pc = "save"
              /\ r.dirty = h.set \cup {c \in {"name", "push"} : h.user[c] # row[c]}
    BY <1>15, AuthReloadUserDoes
  <2>3. AuthOpAt(r.op, r.pc) /\ AuthCodeRead(r) /\ AuthSetInEntity(r)
    BY <1>h, <2>1, <2>2 DEF AuthFollows, AuthOpAt, AuthCodeRead, AuthShaped, AuthSetInEntity
  <2> QED
    BY <1>h, <2>2, <2>3, AuthShapeMoves DEF AuthShaped
<1>16. CASE Auth!SaveUser(q) \/ Auth!Logout(q)
  BY <1>16, <1>e DEF Auth!SaveUser, Auth!Logout
<1> QED
  BY <1>1, <1>2, <1>3, <1>4, <1>5, <1>6, <1>7, <1>8, <1>9, <1>10, <1>11, <1>12, <1>13, <1>14, <1>15, <1>16
  DEF Auth!RequestStep

(* The second half of save, in the history. *)
LEMMA AuthSaveDoes ==
    ASSUME AuthTypeInv, NEW q \in Slots, Auth!SaveUser(q)
    PROVE  LET h == authReq[q] IN
           /\ past' \in AuthPast
           /\ past'.name = (IF "name" \in h.set THEN h.user.name ELSE past.name)
           /\ past'.push = (IF "push" \in h.set THEN h.user.push ELSE past.push)
           /\ past'.stale = (past.stale \/ \E x \in Slots \ {q} : Auth!HoldsEntity(x))
           /\ past'.out = (past.out /\ h.op \notin Auth!Logins)
           /\ past'.uses = Auth!UsedBy(h, past.uses)
           /\ past'.wrong = past.wrong /\ past'.clears = past.clears /\ past'.alone = past.alone
           /\ past'.crashes = past.crashes /\ past'.refused = past.refused /\ past'.edits = past.edits
<1> DEFINE h == authReq[q]
           n == IF "name" \in h.set THEN h.user.name ELSE past.name
           p == IF "push" \in h.set THEN h.user.push ELSE past.push
           s == past.stale \/ \E x \in Slots \ {q} : Auth!HoldsEntity(x)
           o == past.out /\ h.op \notin Auth!Logins
           u == Auth!UsedBy(h, past.uses)
           p1 == [past EXCEPT !.name = n, !.push = p]
           p2 == [p1 EXCEPT !.stale = s, !.out = o]
           p3 == [p2 EXCEPT !.uses = u]
<1>1. past \in AuthPast /\ h \in AuthRequest
  BY DEF AuthTypeInv, AuthNumbers, AuthShape
<1>2. n \in Nat /\ p \in Nat /\ s \in BOOLEAN /\ o \in BOOLEAN
  BY <1>1 DEF AuthPast, AuthRequest, AuthEntity
<1>3. u \in [1..MaxCodes -> Nat]
  <2> DEFINE k == h.code
             us == past.uses
  <2>1. us \in [1..MaxCodes -> Nat]
    BY <1>1 DEF AuthPast
  <2> HIDE DEF us, k
  <2>2. [us EXCEPT ![k] = us[k] + 1] \in [1..MaxCodes -> Nat]
    <3>1. CASE k \in 1..MaxCodes
      <4>1. us[k] \in Nat /\ us[k] + 1 \in Nat
        BY <2>1, <3>1
      <4> QED
        BY <2>1, <4>1
    <3>2. CASE k \notin 1..MaxCodes
      BY <2>1, <3>2
    <3> QED
      BY <3>1, <3>2
  <2>3. u = IF h.op = "login" THEN [us EXCEPT ![k] = us[k] + 1] ELSE us
    BY DEF us, k, Auth!UsedBy
  <2> QED
    BY <2>1, <2>2, <2>3
<1>4. past' = [past EXCEPT !.name = n, !.push = p, !.stale = s, !.out = o, !.uses = u]
  <2>1. past' = [past EXCEPT
          !.name = IF "name" \in h.set THEN h.user.name ELSE @,
          !.push = IF "push" \in h.set THEN h.user.push ELSE @,
          !.stale = @ \/ \E x \in Slots \ {q} : Auth!HoldsEntity(x),
          !.out = @ /\ h.op \notin Auth!Logins,
          !.uses = Auth!UsedBy(h, @)]
    BY DEF Auth!SaveUser
  <2> QED
    BY <2>1
<1> HIDE DEF h, n, p, s, o, u
<1>5. /\ p1 \in AuthPast /\ p1.name = n /\ p1.push = p /\ p1.stale = past.stale /\ p1.out = past.out
      /\ p1.uses = past.uses /\ p1.wrong = past.wrong /\ p1.clears = past.clears
      /\ p1.alone = past.alone /\ p1.crashes = past.crashes /\ p1.refused = past.refused
      /\ p1.edits = past.edits
  BY <1>1, <1>2 DEF AuthPast
<1> HIDE DEF p1
<1>6. /\ p2 \in AuthPast /\ p2.name = p1.name /\ p2.push = p1.push /\ p2.stale = s /\ p2.out = o
      /\ p2.uses = p1.uses /\ p2.wrong = p1.wrong /\ p2.clears = p1.clears
      /\ p2.alone = p1.alone /\ p2.crashes = p1.crashes /\ p2.refused = p1.refused
      /\ p2.edits = p1.edits
  BY <1>2, <1>5 DEF AuthPast
<1> HIDE DEF p2
<1>7. /\ p3 \in AuthPast /\ p3.name = p2.name /\ p3.push = p2.push /\ p3.stale = p2.stale /\ p3.out = p2.out
      /\ p3.uses = u /\ p3.wrong = p2.wrong /\ p3.clears = p2.clears
      /\ p3.alone = p2.alone /\ p3.crashes = p2.crashes /\ p3.refused = p2.refused
      /\ p3.edits = p2.edits
  BY <1>3, <1>6 DEF AuthPast
<1>8. past' = p3
  BY <1>4 DEF p1, p2
<1> HIDE DEF p3
<1> QED
  BY <1>5, <1>6, <1>7, <1>8 DEF h, n, p, s, o, u

-----------------------------------------------------------------------------
(* The losses of the counter are counted by one. *)
LEMMA AuthClearsNat ==
    ASSUME AuthNumbers
    PROVE  /\ Auth!Clears \in Nat
           /\ Auth!Clears = IF otp.code # 0 /\ past.wrong > 0 THEN past.clears + 1 ELSE past.clears
<1>1. past.clears \in Nat
  BY DEF AuthNumbers, AuthPast
<1> QED
  BY <1>1 DEF Auth!Clears, Auth!NoCode

(* Every step of a handler keeps the types of the rest. *)
LEMMA AuthNumbersStep ==
    ASSUME AuthTypeInv, NEW q \in Slots, Auth!RequestStep(q)
    PROVE  AuthNumbers'
<1> DEFINE h == authReq[q]
<1>h. h \in AuthRequest /\ h.user \in AuthEntity /\ h.token \in Nat /\ AuthNumbers
  BY DEF AuthTypeInv, AuthShape, AuthRequest
<1>p. past \in AuthPast /\ past.wrong \in Nat /\ past.edits \in Nat /\ past.crashes \in Nat /\ past.uses \in [1..MaxCodes -> Nat]
  BY <1>h DEF AuthNumbers, AuthPast
<1>u. ASSUME UNCHANGED <<sms, otp, issued, elapsed, past, row, minted, held>> PROVE AuthNumbers'
  BY <1>h, <1>u DEF AuthNumbers
<1>1. CASE Auth!CheckCooldown(q) \/ Auth!CheckLock(q) \/ Auth!GetCode(q) \/ Auth!ReadCodeTtl(q) \/ Auth!ReloadUser(q)
  BY <1>1, <1>u DEF Auth!CheckCooldown, Auth!CheckLock, Auth!GetCode, Auth!ReadCodeTtl, Auth!ReloadUser, Auth!UNCHANGED_User
<1>2. CASE Auth!SetCode(q)
  <2>1. /\ issued' = issued + 1 /\ otp' = [otp EXCEPT !.code = issued + 1]
        /\ past' = [past EXCEPT !.wrong = 0, !.clears = 0]
        /\ UNCHANGED <<sms, elapsed, row, minted, held>>
    BY <1>2 DEF Auth!SetCode, Auth!UNCHANGED_User
  <2>2. past' \in AuthPast
    BY <1>p, <2>1 DEF AuthPast
  <2> QED
    BY <1>h, <2>1, <2>2 DEF AuthNumbers
<1>3. CASE Auth!DelTries(q)
  <2>1. /\ otp' = [otp EXCEPT !.tries = 0, !.until = Auth!NoCode]
        /\ past' = [past EXCEPT !.clears = Auth!Clears]
        /\ UNCHANGED <<sms, issued, elapsed, row, minted, held>>
    BY <1>3 DEF Auth!DelTries, Auth!UNCHANGED_User
  <2>2. Auth!Clears \in Nat
    BY AuthClearsNat DEF AuthTypeInv
  <2>3. past' \in AuthPast
    BY <1>p, <2>1, <2>2 DEF AuthPast
  <2> QED
    BY <1>h, <2>1, <2>3 DEF AuthNumbers, Auth!NoCode
<1>4. CASE Auth!SetCooldown(q) \/ Auth!SetLock(q)
  BY <1>4, <1>h DEF Auth!SetCooldown, Auth!SetLock, Auth!UNCHANGED_User, AuthNumbers
<1>5. CASE Auth!IncrTries(q)
  <2>1. /\ otp' = [otp EXCEPT !.tries = otp.tries + 1]
        /\ past' = [past EXCEPT !.wrong = IF authReq[q].code = otp.code THEN @ + 1 ELSE @]
        /\ UNCHANGED <<sms, issued, elapsed, row, minted, held>>
    BY <1>5 DEF Auth!IncrTries, Auth!UNCHANGED_User
  <2>2. past' \in AuthPast
    <3> DEFINE n == IF authReq[q].code = otp.code THEN past.wrong + 1 ELSE past.wrong
    <3>1. past' = [past EXCEPT !.wrong = n] /\ n \in Nat
      BY <1>p, <2>1
    <3> HIDE DEF n
    <3> QED
      BY <1>p, <3>1 DEF AuthPast
  <2> QED
    BY <1>h, <2>1, <2>2 DEF AuthNumbers
<1>6. CASE Auth!ExpireTries(q)
  <2>1. /\ otp' = IF otp.tries > 0 THEN [otp EXCEPT !.until = h.code] ELSE otp
        /\ UNCHANGED <<sms, issued, elapsed, row, minted, held, past>>
    BY <1>6 DEF Auth!ExpireTries, Auth!UNCHANGED_User
  <2>2. h.code \in Nat
    BY <1>h DEF AuthRequest
  <2> QED
    BY <1>h, <2>1, <2>2 DEF AuthNumbers
<1>7. CASE Auth!DelCode(q)
  BY <1>7, <1>h DEF Auth!DelCode, Auth!Spent, Auth!NoCode, Auth!UNCHANGED_User, AuthNumbers
<1>8. CASE Auth!FindUser(q)
  <2>1. UNCHANGED <<sms, otp, issued, elapsed, row, minted, held>>
    BY <1>8 DEF Auth!FindUser, Auth!UNCHANGED_User
  <2>2. \/ past' = [past EXCEPT !.refused = @ \cup {Auth!Cause(h)}]
        \/ past' = past
        \/ past' = [past EXCEPT !.edits = @ + 1]
    BY <1>8, AuthFindUserDoes
  <2>3. past' \in AuthPast
    <3>1. past.edits + 1 \in Nat
      BY <1>p
    <3>2. CASE past' = [past EXCEPT !.refused = @ \cup {Auth!Cause(h)}]
      <4> DEFINE more == past.refused \cup {Auth!Cause(h)}
      <4>1. more \in SUBSET {"token", "logout", "failure"} /\ past' = [past EXCEPT !.refused = more]
        BY <1>p, <3>2 DEF AuthPast, Auth!Cause
      <4> HIDE DEF more
      <4> QED
        BY <1>p, <4>1 DEF AuthPast
    <3>3. CASE past' = [past EXCEPT !.edits = past.edits + 1]
      BY <1>p, <3>1, <3>3 DEF AuthPast
    <3> QED
      BY <1>p, <2>2, <3>2, <3>3
  <2> QED
    BY <1>h, <2>1, <2>3 DEF AuthNumbers
<1>9. CASE Auth!InsertUser(q)
  BY <1>9, <1>h DEF Auth!InsertUser, AuthNumbers
<1>10. CASE Auth!Sign(q)
  BY <1>10, <1>h DEF Auth!Sign, AuthNumbers
<1>11. CASE Auth!SaveUser(q)
  <2>1. row' = [c \in DOMAIN row |-> IF c \in h.dirty THEN h.user[c] ELSE row[c]]
    BY <1>11 DEF Auth!SaveUser, Auth!Written
  <2>2. "exists" \notin h.dirty
    BY <1>h DEF AuthRequest, Auth!Columns
  <2>3. row' \in [exists : BOOLEAN, name : Nat, push : Nat, hash : Nat]
    <3>1. /\ row'.exists = row.exists
          /\ row'.name = IF "name" \in h.dirty THEN h.user.name ELSE row.name
          /\ row'.push = IF "push" \in h.dirty THEN h.user.push ELSE row.push
          /\ row'.hash = IF "hash" \in h.dirty THEN h.user.hash ELSE row.hash
          /\ row' = [exists |-> row'.exists, name |-> row'.name, push |-> row'.push, hash |-> row'.hash]
      BY <1>h, <2>1, <2>2 DEF AuthNumbers
    <3>2. row'.exists \in BOOLEAN /\ row'.name \in Nat /\ row'.push \in Nat /\ row'.hash \in Nat
      BY <1>h, <3>1 DEF AuthNumbers, AuthEntity
    <3> QED
      BY <3>1, <3>2
  <2>4. held' \in SUBSET Nat
    BY <1>11, <1>h DEF Auth!SaveUser, AuthNumbers
  <2>6. past' \in AuthPast
    BY <1>11, AuthSaveDoes
  <2>7. UNCHANGED <<sms, otp, issued, elapsed, minted>>
    BY <1>11 DEF Auth!SaveUser
  <2> QED
    BY <1>h, <2>3, <2>4, <2>6, <2>7 DEF AuthNumbers
<1>12. CASE Auth!Logout(q)
  BY <1>12, <1>h DEF Auth!Logout, Auth!LogoutUpdate, AuthNumbers, AuthPast
<1> QED
  BY <1>1, <1>2, <1>3, <1>4, <1>5, <1>6, <1>7, <1>8, <1>9, <1>10, <1>11, <1>12 DEF Auth!RequestStep

(* A new request keeps the types. *)
LEMMA AuthBeginTypes ==
    ASSUME AuthTypeInv, NEW q \in Slots, NEW op \in AuthOps, NEW guess \in {Auth!NoCode, otp.code},
           NEW token \in held \cup {Auth!NoCode}, Auth!Begin(q, op, guess, token)
    PROVE  AuthTypeInv'
<1>0. guess \in Nat /\ token \in Nat
  BY DEF AuthTypeInv, AuthNumbers, Auth!NoCode
<1>1. PICK r \in AuthRequest : /\ AuthMoves(q, r) /\ r.op = op /\ r.pc = Auth!FirstStep(op) /\ r.guess = guess
                               /\ r.code = Auth!NoCode /\ r.token = token /\ r.set = {} /\ r.dirty = {}
                               /\ r.user = Auth!Idle.user
  BY <1>0, AuthBeginDoes
<1>2. AuthShaped(r)
  BY <1>1, AuthOpsAre DEF AuthShaped, AuthOpAt, AuthCodeRead, AuthSetInEntity, Auth!FirstStep, Auth!SessionOps, Auth!Logins, Auth!EditOps
<1>3. AuthShape'
  BY <1>1, <1>2, AuthShapeMoves DEF AuthTypeInv
<1>4. AuthNumbers'
  <2>1. (past.alone /\ Auth!Busy = {}) \in BOOLEAN
    BY DEF AuthTypeInv, AuthNumbers, AuthPast
  <2>2. past' = [past EXCEPT !.alone = (past.alone /\ Auth!Busy = {})]
    BY DEF Auth!Begin
  <2> HIDE DEF Auth!Busy
  <2>3. past' \in AuthPast
    BY <2>1, <2>2 DEF AuthTypeInv, AuthNumbers, AuthPast
  <2>4. UNCHANGED <<sms, otp, issued, elapsed, row, minted, held>>
    BY DEF Auth!Begin, Auth!UNCHANGED_User
  <2> QED
    BY <2>3, <2>4 DEF AuthTypeInv, AuthNumbers
<1> QED
  BY <1>3, <1>4 DEF AuthTypeInv

(* A request that fails or dies leaves its mark in the history. *)
LEMMA AuthFailureDoes ==
    ASSUME AuthTypeInv, NEW q \in Slots, Auth!RefreshFails(q) \/ Auth!Crash(q)
    PROVE  /\ past' \in AuthPast /\ past'.crashes = past.crashes + 1
           /\ past'.refused \subseteq past.refused \cup {"failure"}
           /\ past'.wrong = past.wrong /\ past'.clears = past.clears /\ past'.uses = past.uses
           /\ past'.alone = past.alone /\ past'.out = past.out /\ past'.stale = past.stale
           /\ past'.edits = past.edits /\ past'.name = past.name /\ past'.push = past.push
<1>1. past \in AuthPast /\ past.crashes + 1 \in Nat
  BY DEF AuthTypeInv, AuthNumbers, AuthPast
<1> DEFINE more == past.refused \cup {"failure"}
<1>2. more \in SUBSET {"token", "logout", "failure"} /\ more \subseteq past.refused \cup {"failure"}
  BY <1>1 DEF AuthPast
<1>3. \/ past' = [past EXCEPT !.crashes = past.crashes + 1]
      \/ past' = [past EXCEPT !.crashes = past.crashes + 1, !.refused = more]
  BY DEF Auth!RefreshFails, Auth!Crash
<1> HIDE DEF more
<1>4. CASE past' = [past EXCEPT !.crashes = past.crashes + 1]
  BY <1>1, <1>4 DEF AuthPast
<1>5. CASE past' = [past EXCEPT !.crashes = past.crashes + 1, !.refused = more]
  BY <1>1, <1>2, <1>5 DEF AuthPast
<1> QED
  BY <1>3, <1>4, <1>5

(* The timers and the death of a process keep the types. *)
LEMMA AuthOtherTypes ==
    ASSUME AuthTypeInv, \/ Auth!NearEnd \/ Auth!Elapse \/ Auth!TriesEnd \/ Auth!TimerEnds
           \/ \E q \in Slots : Auth!RefreshFails(q) \/ Auth!Crash(q)
    PROVE  AuthTypeInv'
<1>1. CASE Auth!Elapse
  <2>1. UNCHANGED <<sms, issued, authReq, past, row, minted, held>>
    BY <1>1 DEF Auth!Elapse, Auth!UNCHANGED_User
  <2>2. otp' = [otp EXCEPT !.code = IF otp.code = elapsed + 1 THEN 0 ELSE otp.code] /\ elapsed' = elapsed + 1
    BY <1>1 DEF Auth!Elapse, Auth!NoCode
  <2>3. otp' \in [code : Nat, ending : Nat, tries : Nat, until : Nat, lock : BOOLEAN, cool : BOOLEAN] /\ elapsed' \in Nat
    <3>1. (IF otp.code = elapsed + 1 THEN 0 ELSE otp.code) \in Nat /\ elapsed + 1 \in Nat
      BY DEF AuthTypeInv, AuthNumbers
    <3> QED
      BY <2>2, <3>1 DEF AuthTypeInv, AuthNumbers
  <2> QED
    BY <2>1, <2>3 DEF AuthTypeInv, AuthShape, AuthNumbers
<1>2. CASE Auth!TriesEnd
  <2>1. UNCHANGED <<sms, issued, elapsed, authReq, row, minted, held>>
    BY <1>2 DEF Auth!TriesEnd, Auth!UNCHANGED_User
  <2>2. Auth!Clears \in Nat
    BY AuthClearsNat DEF AuthTypeInv
  <2>3. otp' = [otp EXCEPT !.tries = 0, !.until = 0] /\ past' = [past EXCEPT !.clears = Auth!Clears]
    BY <1>2 DEF Auth!TriesEnd, Auth!NoCode
  <2> QED
    BY <2>1, <2>2, <2>3 DEF AuthTypeInv, AuthShape, AuthNumbers, AuthPast
<1>3. CASE Auth!TimerEnds
  BY <1>3 DEF Auth!TimerEnds, Auth!UNCHANGED_User, AuthTypeInv, AuthShape, AuthNumbers
<1>4. ASSUME NEW q \in Slots, Auth!RefreshFails(q) \/ Auth!Crash(q) PROVE AuthTypeInv'
  <2>1. AuthShape'
    BY <1>4, AuthEndsDoes, AuthEndsShape DEF Auth!RefreshFails, Auth!Crash, AuthTypeInv
  <2>2. UNCHANGED <<sms, otp, issued, elapsed, row, minted, held>>
    BY <1>4 DEF Auth!RefreshFails, Auth!Crash, Auth!UNCHANGED_User
  <2>3. past' \in AuthPast
    BY <1>4, AuthFailureDoes
  <2> QED
    BY <2>1, <2>2, <2>3 DEF AuthTypeInv, AuthNumbers
<1>5. CASE Auth!NearEnd
  <2>1. UNCHANGED <<sms, issued, elapsed, authReq, past, row, minted, held>> /\ otp' = [otp EXCEPT !.ending = otp.ending + 1]
    BY <1>5 DEF Auth!NearEnd, Auth!UNCHANGED_User
  <2>2. otp.ending + 1 \in Nat
    BY DEF AuthTypeInv, AuthNumbers
  <2> QED
    BY <2>1, <2>2 DEF AuthTypeInv, AuthShape, AuthNumbers
<1> QED
  BY <1>1, <1>2, <1>3, <1>4, <1>5

(* The types hold at the start. *)
LEMMA AuthInitTypes == Auth!Init => AuthTypeInv
<1> SUFFICES ASSUME Auth!Init PROVE AuthTypeInv
  OBVIOUS
<1>1. AuthShape
  BY AuthIdleShaped DEF Auth!Init, AuthShape
<1>2. /\ sms \in BOOLEAN /\ issued = 0 /\ elapsed = 0 /\ minted = 0 /\ held = {}
      /\ otp = [code |-> 0, ending |-> 0, tries |-> 0, until |-> 0, lock |-> FALSE, cool |-> FALSE]
      /\ row = [exists |-> FALSE, name |-> 0, push |-> 0, hash |-> 0]
      /\ past = [wrong |-> 0, clears |-> 0, uses |-> [c \in 1..MaxCodes |-> 0],
               alone |-> TRUE, crashes |-> 0, out |-> FALSE, refused |-> {},
               stale |-> FALSE, edits |-> 0, name |-> 0, push |-> 0]
  BY DEF Auth!Init, Auth!NoCode
<1>3. [c \in 1..MaxCodes |-> 0] \in [1..MaxCodes -> Nat]
  OBVIOUS
<1>4. past \in AuthPast
  BY <1>2, <1>3 DEF AuthPast
<1>5. AuthNumbers
  BY <1>2, <1>4 DEF AuthNumbers
<1> QED
  BY <1>1, <1>5 DEF AuthTypeInv

(* Every step keeps the types. *)
LEMMA AuthNextTypes == AuthTypeInv /\ [Auth!Next]_(Auth!authVars) => AuthTypeInv'
<1> SUFFICES ASSUME AuthTypeInv, [Auth!Next]_(Auth!authVars) PROVE AuthTypeInv'
  OBVIOUS
<1>1. CASE UNCHANGED Auth!authVars
  BY <1>1 DEF Auth!authVars, AuthTypeInv, AuthShape, AuthNumbers
<1>2. ASSUME NEW q \in Slots, Auth!RequestStep(q) PROVE AuthTypeInv'
  BY <1>2, AuthShapeStep, AuthNumbersStep DEF AuthTypeInv
<1> QED
  BY <1>1, <1>2, AuthBeginTypes, AuthOtherTypes DEF Auth!Next

-----------------------------------------------------------------------------
(* The sessions: who goes on with the row has found it; a held token was saved with a  *)
(* hash; and as long as no save has overtaken an entity that somebody held, the entities *)
(* are the row as it is, up to what their handlers have set.                            *)
AuthSessionOK(r, rw, hd, stale) ==
    /\ r.pc \in {"sign", "reload", "save"} => rw.exists
    /\ r.pc # "idle" /\ r.op \in {"refresh", "profile", "me", "logout"} => hd # {}
    /\ r.pc = "insert" => r.user.name = Auth!NoCode /\ r.user.push = Auth!NoCode
    /\ ~stale /\ r.pc \in {"sign", "reload"} => \A c \in {"name", "push"} \ r.set : r.user[c] = rw[c]
    /\ ~stale /\ r.pc = "save" => r.dirty \cap {"name", "push"} \subseteq r.set

AuthRowOK ==
    /\ held # {} => row.exists /\ (~past.out => row.hash # Auth!NoCode)
    /\ ~row.exists => row.name = Auth!NoCode /\ row.push = Auth!NoCode
    /\ past.refused \subseteq {"logout", "failure"}
    /\ ~past.stale => row.name = past.name /\ row.push = past.push

AuthSession == AuthRowOK /\ \A q \in Slots : AuthSessionOK(authReq[q], row, held, past.stale)

(* A free slot says nothing of the row. *)
LEMMA AuthIdleSession == \A rw, hd, stale : AuthSessionOK(Auth!Idle, rw, hd, stale)
  BY AuthIdleShaped DEF AuthSessionOK

(* What most steps leave of the history *)
AuthSameSession ==
    /\ past'.refused \subseteq past.refused \cup {"logout", "failure"} /\ (past.out => past'.out)
    /\ past'.stale = past.stale /\ past'.name = past.name /\ past'.push = past.push

(* A request that moves and leaves the row alone keeps the sessions. *)
LEMMA AuthSessionMoves ==
    ASSUME AuthShape, AuthSession, NEW q \in Slots, NEW r, AuthMoves(q, r), UNCHANGED <<row, held>>,
           AuthSameSession, AuthSessionOK(r, row, held, past.stale)
    PROVE  AuthSession'
<1>1. \A p \in Slots : authReq'[p] = IF p = q THEN r ELSE authReq[p]
  BY DEF AuthMoves, AuthShape
<1>2. \A p \in Slots : AuthSessionOK(authReq'[p], row', held', past'.stale)
  BY <1>1 DEF AuthSession, AuthSameSession
<1>3. AuthRowOK'
  BY DEF AuthSession, AuthRowOK, AuthSameSession
<1> QED
  BY <1>2, <1>3 DEF AuthSession

(* Every step of a handler keeps the sessions: the heart of it is save, which *)
(* writes an entity that is the row but for what the handler has set.         *)
LEMMA AuthSessionStep ==
    ASSUME AuthTypeInv, AuthSession, NEW q \in Slots, Auth!RequestStep(q)
    PROVE  AuthSession'
<1> DEFINE h == authReq[q]
<1>h. h \in AuthRequest /\ AuthShaped(h) /\ AuthShape /\ AuthNumbers /\ AuthSessionOK(h, row, held, past.stale) /\ past \in AuthPast
  BY DEF AuthTypeInv, AuthShape, AuthSession, AuthNumbers
<1>s. ASSUME past' = past PROVE AuthSameSession
  BY <1>s DEF AuthSameSession
<1>g. ASSUME NEW r, AuthMoves(q, r), UNCHANGED <<row, held>>, AuthSameSession,
             r.op = h.op, h.pc # "idle", r.pc \notin {"insert", "sign", "reload", "save"}
      PROVE  AuthSession'
  <2>1. AuthSessionOK(r, row, held, past.stale)
    BY <1>g, <1>h DEF AuthSessionOK
  <2> QED
    BY <1>g, <1>h, <2>1, AuthSessionMoves
<1>e. ASSUME Auth!Ends(q), UNCHANGED <<row, held>>, AuthSameSession PROVE AuthSession'
  BY <1>e, <1>h, AuthEndsDoes, AuthIdleSession, AuthSessionMoves DEF AuthEndsAs
<1>o. ASSUME NEW step \in AuthSteps \ {"idle", "insert", "sign", "reload", "save"}, Auth!Goto(q, step), h.pc # "idle",
             UNCHANGED <<row, held>>, AuthSameSession
      PROVE  AuthSession'
  <2>1. PICK r \in AuthRequest : AuthMoves(q, r) /\ AuthFollows(h, r) /\ r.pc = step
    BY <1>o, AuthGotoDoes
  <2> QED
    BY <1>o, <2>1, <1>g DEF AuthFollows
<1>1. CASE Auth!CheckCooldown(q) \/ Auth!CheckLock(q)
  <2>1. h.pc # "idle" /\ UNCHANGED <<row, held, past>>
    BY <1>1 DEF Auth!CheckCooldown, Auth!CheckLock, Auth!At, Auth!UNCHANGED_User
  <2>2. Auth!Ends(q) \/ Auth!Goto(q, "setCool") \/ Auth!Goto(q, "setCode") \/ Auth!Goto(q, "getCode")
    BY <1>1 DEF Auth!CheckCooldown, Auth!CheckLock
  <2> QED
    BY <2>1, <2>2, <1>e, <1>o, <1>s DEF AuthSteps
<1>2. CASE Auth!SetCode(q) \/ Auth!SetLock(q) \/ Auth!DelCode(q)
  <2>1. h.pc # "idle" /\ UNCHANGED <<row, held>>
    BY <1>2 DEF Auth!SetCode, Auth!SetLock, Auth!DelCode, Auth!At, Auth!UNCHANGED_User
  <2>2. Auth!Goto(q, "delTries") \/ Auth!Goto(q, "delCode")
    BY <1>2 DEF Auth!SetCode, Auth!SetLock, Auth!DelCode
  <2>3. AuthSameSession
    BY <1>h, <1>2 DEF Auth!SetCode, Auth!SetLock, Auth!DelCode, AuthPast, AuthSameSession
  <2> QED
    BY <2>1, <2>2, <2>3, <1>o DEF AuthSteps
<1>3. CASE Auth!DelTries(q)
  <2>1. h.pc # "idle" /\ UNCHANGED <<row, held>>
    BY <1>3 DEF Auth!DelTries, Auth!At, Auth!UNCHANGED_User
  <2>2. Auth!Goto(q, "setCool") \/ Auth!Goto(q, "find") \/ Auth!Ends(q)
    BY <1>3 DEF Auth!DelTries
  <2>3. AuthSameSession
    BY <1>h, <1>3 DEF Auth!DelTries, AuthPast, AuthSameSession
  <2> QED
    BY <2>1, <2>2, <2>3, <1>e, <1>o DEF AuthSteps
<1>4. CASE Auth!SetCooldown(q) \/ Auth!ExpireTries(q)
  BY <1>4, <1>e, <1>s DEF Auth!SetCooldown, Auth!ExpireTries, Auth!UNCHANGED_User
<1>5. CASE Auth!GetCode(q)
  <2>1. h.pc # "idle" /\ UNCHANGED <<row, held, past>>
    BY <1>5 DEF Auth!GetCode, Auth!At, Auth!UNCHANGED_User
  <2>2. CASE AuthEndsAs(q)
    BY <1>h, <1>s, <2>1, <2>2, AuthIdleSession, AuthSessionMoves DEF AuthEndsAs
  <2>3. ASSUME NEW r \in AuthRequest, AuthMoves(q, r), AuthFollows(h, r), r.pc \in {"delCode", "incr"} PROVE AuthSession'
    BY <2>1, <2>3, <1>g, <1>s DEF AuthFollows
  <2> QED
    BY <1>5, <2>2, <2>3, AuthGetCodeDoes
<1>6. CASE Auth!IncrTries(q)
  <2>1. h.pc # "idle" /\ UNCHANGED <<row, held>> /\ AuthSameSession
    BY <1>6, <1>h DEF Auth!IncrTries, Auth!At, Auth!UNCHANGED_User, AuthPast, AuthSameSession
  <2>2. CASE AuthEndsAs(q)
    BY <1>h, <1>s, <2>1, <2>2, AuthIdleSession, AuthSessionMoves DEF AuthEndsAs
  <2>3. ASSUME NEW r \in AuthRequest, AuthMoves(q, r), AuthFollows(h, r), r.pc \in {"codeTtl", "setLock"} PROVE AuthSession'
    BY <2>1, <2>3, <1>g, <1>s DEF AuthFollows
  <2> QED
    BY <1>6, <2>2, <2>3, AuthIncrTriesDoes
<1>7. CASE Auth!ReadCodeTtl(q)
  <2>1. h.pc # "idle" /\ UNCHANGED <<row, held, past>>
    BY <1>7 DEF Auth!ReadCodeTtl, Auth!At, Auth!UNCHANGED_User
  <2>2. CASE AuthEndsAs(q)
    BY <1>h, <1>s, <2>1, <2>2, AuthIdleSession, AuthSessionMoves DEF AuthEndsAs
  <2>3. ASSUME NEW r \in AuthRequest, AuthMoves(q, r), AuthFollows(h, r), r.pc = "expire" PROVE AuthSession'
    BY <2>1, <2>3, <1>g, <1>s DEF AuthFollows
  <2> QED
    BY <1>7, <2>2, <2>3, AuthReadCodeTtlDoes
<1>8. CASE Auth!FindUser(q)
  <2>1. h.pc = "find" /\ h.set = {} /\ UNCHANGED <<row, held>>
    BY <1>8, <1>h DEF Auth!FindUser, Auth!At, AuthShaped, AuthSetInEntity, Auth!UNCHANGED_User
  <2>2. h.op \in Auth!EditOps \cup {"refresh"} => row.exists /\ (~past.out => row.hash # Auth!NoCode)
    BY <1>h, <2>1 DEF AuthSessionOK, Auth!EditOps, AuthSession, AuthRowOK
  <2>3. ASSUME h.op \in Auth!SessionOps, past' = past, NEW r \in AuthRequest, AuthMoves(q, r), AuthFollows(h, r),
               r.set = h.set,
               r.pc = IF h.op = "refresh" \/ row.exists THEN "sign" ELSE "insert",
               r.user = [name |-> row.name, push |-> row.push,
                         hash |-> IF h.op = "refresh" THEN row.hash ELSE Auth!NoCode]
        PROVE  AuthSession'
    <3>1. r.user.name = row.name /\ r.user.push = row.push
      BY <2>3
    <3>2. AuthSessionOK(r, row, held, past.stale)
      BY <1>h, <2>1, <2>2, <2>3, <3>1 DEF AuthSessionOK, AuthFollows, AuthSession, AuthRowOK
    <3> QED
      BY <1>h, <1>s, <2>1, <2>3, <3>2, AuthSessionMoves
  <2>4. ASSUME h.op \in Auth!EditOps, past' = [past EXCEPT !.edits = @ + 1], NEW r \in AuthRequest,
               NEW c \in {"name", "push"}, AuthMoves(q, r), AuthFollows(h, r), r.pc = "reload", r.set = {c},
               \A d \in {"name", "push"} \ {c} : r.user[d] = row[d]
        PROVE  AuthSession'
    <3>1. AuthSessionOK(r, row, held, past.stale)
      BY <1>h, <2>1, <2>2, <2>4 DEF AuthSessionOK, AuthFollows, Auth!EditOps
    <3>2. AuthSameSession
      BY <1>h, <2>4 DEF AuthPast, AuthSameSession
    <3> QED
      BY <1>h, <2>1, <2>4, <3>1, <3>2, AuthSessionMoves
  <2>5. ASSUME h.op = "refresh", row.hash = Auth!NoCode, AuthEndsAs(q),
               past' = [past EXCEPT !.refused = @ \cup {Auth!Cause(h)}]
        PROVE  AuthSession'
    <3>1. past.out
      BY <2>2, <2>5
    <3>2. past' = [past EXCEPT !.refused = past.refused \cup {"logout"}]
      BY <2>5, <3>1 DEF Auth!Cause
    <3>3. AuthSameSession
      BY <1>h, <3>2 DEF AuthPast, AuthSameSession
    <3> QED
      BY <1>h, <2>1, <2>5, <3>3, AuthIdleSession, AuthSessionMoves DEF AuthEndsAs
  <2> QED
    BY <1>8, <2>3, <2>4, <2>5, AuthFindUserDoes
<1>9. CASE Auth!InsertUser(q)
  <2>1. /\ h.pc = "insert" /\ row' = [row EXCEPT !.exists = TRUE] /\ UNCHANGED <<held, past>>
        /\ h.op \in Auth!Logins /\ h.set = {}
    BY <1>9, <1>h DEF Auth!InsertUser, Auth!At, AuthShaped, AuthOpAt, AuthSetInEntity
  <2>2. /\ row'.exists /\ row'.name = row.name /\ row'.push = row.push /\ row'.hash = row.hash
    BY <1>h, <2>1 DEF AuthNumbers
  <2>3. ASSUME NEW p \in Slots PROVE AuthSessionOK(authReq[p], row', held', past'.stale)
    <3>1. AuthSessionOK(authReq[p], row, held, past.stale)
      BY DEF AuthSession
    <3> QED
      BY <2>1, <2>2, <3>1 DEF AuthSessionOK
  <2>4. AuthRowOK'
    BY <2>1, <2>2 DEF AuthSession, AuthRowOK
  <2>5. CASE Auth!Ends(q)
    <3>1. \A p \in Slots : authReq'[p] = IF p = q THEN Auth!Idle ELSE authReq[p]
      BY <1>h, <2>5 DEF Auth!Ends, AuthShape
    <3> QED
      BY <2>3, <2>4, <3>1, AuthIdleSession DEF AuthSession
  <2>6. CASE ~row.exists /\ Auth!Goto(q, "sign")
    <3>1. PICK r \in AuthRequest : AuthMoves(q, r) /\ AuthFollows(h, r) /\ AuthKeeps(h, r) /\ r.pc = "sign"
      BY <2>6, AuthGotoDoes DEF AuthSteps
    <3>2. \A p \in Slots : authReq'[p] = IF p = q THEN r ELSE authReq[p]
      BY <1>h, <3>1 DEF AuthMoves, AuthShape
    <3>3. AuthSessionOK(r, row', held', past'.stale)
      BY <1>h, <2>1, <2>2, <2>6, <3>1 DEF AuthSessionOK, AuthFollows, AuthKeeps, AuthSession, AuthRowOK, Auth!Logins
    <3> QED
      BY <2>3, <2>4, <3>2, <3>3 DEF AuthSession
  <2> QED
    BY <1>9, <2>5, <2>6 DEF Auth!InsertUser
<1>10. CASE Auth!Sign(q)
  <2>1. h.pc = "sign" /\ h.set = {} /\ UNCHANGED <<row, held, past>>
    BY <1>10, <1>h DEF Auth!Sign, Auth!At, AuthShaped, AuthSetInEntity
  <2>2. PICK r \in AuthRequest :
           /\ AuthMoves(q, r) /\ AuthFollows(h, r) /\ r.user.name = h.user.name /\ r.user.push = h.user.push
           /\ r.set = {"hash"} /\ r.pc = "reload"
    BY <1>10, AuthSignDoes
  <2>3. AuthSessionOK(r, row, held, past.stale)
    BY <1>h, <2>1, <2>2 DEF AuthSessionOK, AuthFollows
  <2> QED
    BY <1>h, <1>s, <2>1, <2>2, <2>3, AuthSessionMoves
<1>11. CASE Auth!ReloadUser(q)
  <2>1. h.pc = "reload" /\ UNCHANGED <<row, held, past>>
    BY <1>11, <1>h DEF Auth!ReloadUser, Auth!At, Auth!UNCHANGED_User
  <2>2. PICK r \in AuthRequest :
              /\ AuthMoves(q, r) /\ AuthFollows(h, r) /\ r.user = h.user /\ r.set = h.set /\ r.pc = "save"
              /\ r.dirty = h.set \cup {c \in {"name", "push"} : h.user[c] # row[c]}
    BY <1>11, AuthReloadUserDoes
  <2>3. AuthSessionOK(r, row, held, past.stale)
    BY <1>h, <2>1, <2>2 DEF AuthSessionOK, AuthFollows
  <2> QED
    BY <1>h, <1>s, <2>1, <2>2, <2>3, AuthSessionMoves
<1>12. CASE Auth!SaveUser(q)
  <2>1. /\ h.pc = "save" /\ h.op \in Auth!SessionOps \cup Auth!EditOps /\ row.exists /\ AuthEndsAs(q)
        /\ h.set \subseteq h.dirty /\ h.dirty \subseteq h.set \cup {"name", "push"}
    BY <1>12, <1>h, AuthEndsDoes DEF Auth!SaveUser, Auth!At, AuthShaped, AuthOpAt, AuthSetInEntity, AuthSessionOK
  <2>2. /\ row'.exists = row.exists
        /\ row'.name = IF "name" \in h.dirty THEN h.user.name ELSE row.name
        /\ row'.push = IF "push" \in h.dirty THEN h.user.push ELSE row.push
        /\ row'.hash = IF "hash" \in h.dirty THEN h.user.hash ELSE row.hash
    <3>1. row' = [c \in DOMAIN row |-> IF c \in h.dirty THEN h.user[c] ELSE row[c]]
      BY <1>12 DEF Auth!SaveUser, Auth!Written
    <3>2. "exists" \notin h.dirty
      BY <1>h DEF AuthRequest, Auth!Columns
    <3> QED
      BY <1>h, <3>1, <3>2 DEF AuthNumbers
  <2>3. /\ past'.name = (IF "name" \in h.set THEN h.user.name ELSE past.name)
        /\ past'.push = (IF "push" \in h.set THEN h.user.push ELSE past.push)
        /\ past'.stale = (past.stale \/ \E x \in Slots \ {q} : Auth!HoldsEntity(x))
        /\ past'.refused = past.refused /\ past'.out = (past.out /\ h.op \notin Auth!Logins)
    BY <1>12, AuthSaveDoes
  <2>4. held' = IF h.op \in Auth!SessionOps THEN held \cup {h.token} ELSE held
    BY <1>12 DEF Auth!SaveUser
  <2>5. held' # {} /\ (~past'.out => row'.hash # Auth!NoCode)
    <3>1. CASE h.op \in Auth!SessionOps
      <4>1. h.set = {"hash"} /\ h.user.hash # Auth!NoCode
        BY <1>h, <2>1, <3>1 DEF AuthShaped, AuthSetInEntity
      <4> QED
        BY <2>1, <2>2, <2>4, <3>1, <4>1
    <3>2. CASE h.op \in Auth!EditOps
      <4>1. h.set \subseteq {"name", "push"}
        BY <1>h, <2>1, <3>2 DEF AuthShaped, AuthSetInEntity
      <4>2. held # {} /\ (~past'.out => row.hash # Auth!NoCode)
        BY <1>h, <2>1, <2>3, <3>2 DEF AuthSessionOK, Auth!EditOps, Auth!Logins, AuthSession, AuthRowOK
      <4>3. "hash" \notin h.dirty
        BY <2>1, <4>1
      <4> QED
        BY <2>2, <2>4, <4>2, <4>3
    <3> QED
      BY <2>1, <3>1, <3>2
  <2>6. ~past'.stale => row'.name = past'.name /\ row'.push = past'.push
    <3>1. ~past'.stale => /\ ~past.stale /\ row.name = past.name /\ row.push = past.push
                          /\ h.dirty \cap {"name", "push"} \subseteq h.set
      BY <1>h, <2>1, <2>3 DEF AuthSession, AuthRowOK, AuthSessionOK
    <3> QED
      BY <2>1, <2>2, <2>3, <3>1
  <2>7. AuthRowOK'
    BY <2>1, <2>2, <2>3, <2>5, <2>6 DEF AuthRowOK, AuthSession
  <2>8. \A p \in Slots : authReq'[p] = IF p = q THEN Auth!Idle ELSE authReq[p]
    BY <1>h, <2>1 DEF AuthEndsAs, AuthMoves, AuthShape
  <2>9. ASSUME NEW p \in Slots, p # q PROVE AuthSessionOK(authReq[p], row', held', past'.stale)
    <3>1. AuthSessionOK(authReq[p], row, held, past.stale)
      BY DEF AuthSession
    <3>2. ~past'.stale => ~past.stale /\ authReq[p].pc \notin {"sign", "reload"}
      BY <2>3, <2>9 DEF Auth!HoldsEntity
    <3> QED
      BY <2>1, <2>2, <2>5, <3>1, <3>2 DEF AuthSessionOK
  <2> QED
    BY <2>7, <2>8, <2>9, AuthIdleSession DEF AuthSession
<1>13. CASE Auth!Logout(q)
  <2>1. UNCHANGED <<row, held>> /\ AuthSameSession /\ Auth!Ends(q)
    BY <1>13, <1>h DEF Auth!Logout, Auth!LogoutUpdate, AuthPast, AuthSameSession
  <2> QED
    BY <2>1, <1>e
<1> QED
  BY <1>1, <1>2, <1>3, <1>4, <1>5, <1>6, <1>7, <1>8, <1>9, <1>10, <1>11, <1>12, <1>13 DEF Auth!RequestStep

(* Every step keeps the sessions. *)
LEMMA AuthSessionNext == AuthTypeInv /\ AuthSession /\ [Auth!Next]_(Auth!authVars) => AuthSession'
<1> SUFFICES ASSUME AuthTypeInv, AuthSession, [Auth!Next]_(Auth!authVars) PROVE AuthSession'
  OBVIOUS
<1>p. past \in AuthPast /\ AuthShape
  BY DEF AuthTypeInv, AuthNumbers
<1>u. ASSUME UNCHANGED <<row, held, authReq>>, AuthSameSession PROVE AuthSession'
  BY <1>u DEF AuthSession, AuthRowOK, AuthSameSession
<1>1. CASE UNCHANGED Auth!authVars
  BY <1>1, <1>u DEF Auth!authVars, AuthSameSession
<1>2. ASSUME NEW q \in Slots, NEW op \in AuthOps, NEW guess \in {Auth!NoCode, otp.code},
             NEW token \in held \cup {Auth!NoCode}, Auth!Begin(q, op, guess, token)
      PROVE  AuthSession'
  <2>0. guess \in Nat /\ token \in Nat
    BY DEF AuthTypeInv, AuthNumbers, Auth!NoCode
  <2>b. \E r \in AuthRequest : /\ AuthMoves(q, r) /\ r.op = op /\ r.pc = Auth!FirstStep(op) /\ r.guess = guess
                                /\ r.code = Auth!NoCode /\ r.token = token /\ r.set = {} /\ r.dirty = {}
                                /\ r.user = Auth!Idle.user
    BY <1>2, <2>0, AuthBeginDoes
  <2>1. PICK r \in AuthRequest : AuthMoves(q, r) /\ r.op = op /\ r.pc = Auth!FirstStep(op)
    BY <2>b
  <2>2. Auth!FirstStep(op) \notin {"insert", "sign", "reload", "save"}
    BY DEF Auth!FirstStep
  <2>3. op \in {"refresh", "profile", "me", "logout"} => held # {}
    BY <1>2 DEF Auth!Begin, Auth!Logins
  <2>4. AuthSessionOK(r, row, held, past.stale)
    BY <2>1, <2>2, <2>3 DEF AuthSessionOK
  <2>5. UNCHANGED <<row, held>> /\ AuthSameSession
    BY <1>2, <1>p DEF Auth!Begin, Auth!UNCHANGED_User, AuthPast, AuthSameSession
  <2> QED
    BY <1>p, <2>1, <2>4, <2>5, AuthSessionMoves
<1>3. ASSUME NEW q \in Slots, Auth!RefreshFails(q) \/ Auth!Crash(q) PROVE AuthSession'
  <2>1. UNCHANGED <<row, held>> /\ Auth!Ends(q)
    BY <1>3 DEF Auth!RefreshFails, Auth!Crash, Auth!UNCHANGED_User
  <2>2. AuthSameSession
    BY <1>3, AuthFailureDoes DEF AuthSameSession
  <2> QED
    BY <1>p, <2>1, <2>2, AuthEndsDoes, AuthIdleSession, AuthSessionMoves DEF AuthEndsAs
<1>4. CASE Auth!NearEnd \/ Auth!Elapse \/ Auth!TimerEnds
  BY <1>4, <1>u DEF Auth!NearEnd, Auth!Elapse, Auth!TimerEnds, Auth!UNCHANGED_User, AuthSameSession
<1>5. CASE Auth!TriesEnd
  BY <1>5, <1>u, <1>p DEF Auth!TriesEnd, Auth!UNCHANGED_User, AuthPast, AuthSameSession
<1> QED
  BY <1>1, <1>2, <1>3, <1>4, <1>5, AuthSessionStep DEF Auth!Next

(* The sessions hold at the start. *)
LEMMA AuthSessionInit == Auth!Init => AuthSession
<1> SUFFICES ASSUME Auth!Init PROVE AuthSession
  OBVIOUS
<1>1. AuthRowOK
  BY DEF Auth!Init, AuthRowOK
<1>2. \A q \in Slots : authReq[q] = Auth!Idle
  BY DEF Auth!Init
<1> QED
  BY <1>1, <1>2, AuthIdleSession DEF AuthSession

(* AuthService.refreshToken refuses a refresh token that a client holds only  *)
(* after a logout, or when a query of the refresh fails, however many         *)
(* requests of the user overlap and die, and the profile keeps the last edit  *)
(* that was saved, unless a handler saves an entity it had loaded before.     *)
LEMMA AuthSessionsHold == Auth!Spec => [](Auth!RefreshAccepted /\ Auth!EditsKept)
<1>1. AuthTypeInv /\ AuthSession => Auth!RefreshAccepted /\ Auth!EditsKept
  BY DEF AuthSession, AuthRowOK, Auth!RefreshAccepted, Auth!EditsKept
<1> QED
  BY <1>1, AuthInitTypes, AuthNextTypes, AuthSessionInit, AuthSessionNext, PTL DEF Auth!Spec

-----------------------------------------------------------------------------
(* Numbers of OTPs, tokens and edits stay within what was made and within the bounds *)
AuthWithin(r, i, m, e) ==
    /\ r.code <= i
    /\ r.token <= m /\ r.user.hash <= m
    /\ r.user.name <= e /\ r.user.push <= e

AuthIssues(r) == r.op = "otp" /\ r.pc \in {"cooldown", "setCode"}
AuthMints(r) == r.op \in Auth!SessionOps /\ (r.op = "login" => r.guess # Auth!NoCode) /\ r.pc \notin {"idle", "reload", "save"}
AuthEdits(r) == r.op \in Auth!EditOps /\ r.pc = "find"

AuthIssuing == {q \in Slots : AuthIssues(authReq[q])}
AuthMinting == {q \in Slots : AuthMints(authReq[q])}
AuthEditing == {q \in Slots : AuthEdits(authReq[q])}

AuthCaps ==
    /\ issued + Cardinality(AuthIssuing) <= MaxCodes
    /\ minted + Cardinality(AuthMinting) <= MaxTokens
    /\ past.edits + Cardinality(AuthEditing) <= MaxEdits

AuthMade ==
    /\ otp.code <= issued /\ otp.until <= issued /\ elapsed <= otp.ending /\ otp.ending <= issued
    /\ otp.code # Auth!NoCode => elapsed < otp.code
    /\ row.hash <= minted /\ row.name <= past.edits /\ row.push <= past.edits
    /\ held \subseteq 1..minted

AuthBounds == AuthCaps /\ AuthMade /\ \A q \in Slots : AuthWithin(authReq[q], issued, minted, past.edits)

(* A part of a set of slots is not larger. *)
LEMMA AuthFewer ==
    ASSUME NEW S \in SUBSET Slots, NEW T \in SUBSET S
    PROVE  Cardinality(S) \in Nat /\ Cardinality(T) \in Nat /\ Cardinality(T) <= Cardinality(S)
  BY RequestsAssumption, FS_Subset, FS_CardinalityType

(* Without one of its slots a set is smaller by one. *)
LEMMA AuthOneLess ==
    ASSUME NEW S \in SUBSET Slots, NEW q \in S, NEW T, T \subseteq S \ {q}
    PROVE  Cardinality(S) \in Nat /\ Cardinality(T) \in Nat /\ Cardinality(T) + 1 <= Cardinality(S)
<1>1. IsFiniteSet(S) /\ Cardinality(S) \in Nat
  BY RequestsAssumption, FS_Subset, FS_CardinalityType
<1>2. Cardinality(S \ {q}) = Cardinality(S) - 1
  BY <1>1, FS_RemoveElement
<1>3. T \in SUBSET (S \ {q}) /\ (S \ {q}) \in SUBSET Slots
  OBVIOUS
<1>4. Cardinality(T) \in Nat /\ Cardinality(T) <= Cardinality(S \ {q}) /\ Cardinality(S \ {q}) \in Nat
  BY <1>3, AuthFewer
<1> QED
  BY <1>1, <1>2, <1>4

(* With one more slot a set grows by at most one. *)
LEMMA AuthOneMore ==
    ASSUME NEW S \in SUBSET Slots, NEW q, NEW T \in SUBSET Slots, T \subseteq S \cup {q}
    PROVE  Cardinality(S) \in Nat /\ Cardinality(T) \in Nat /\ Cardinality(T) <= Cardinality(S) + 1
<1>1. IsFiniteSet(S) /\ Cardinality(S) \in Nat /\ IsFiniteSet(T) /\ Cardinality(T) \in Nat
  BY RequestsAssumption, FS_Subset, FS_CardinalityType
<1>2. /\ IsFiniteSet(S \cup {q})
      /\ Cardinality(S \cup {q}) = IF q \in S THEN Cardinality(S) ELSE Cardinality(S) + 1
  BY <1>1, FS_AddElement
<1>3. T \in SUBSET (S \cup {q})
  OBVIOUS
<1>4. Cardinality(T) <= Cardinality(S \cup {q})
  BY <1>2, <1>3, FS_Subset
<1>5. CASE q \in S
  BY <1>1, <1>2, <1>4, <1>5
<1>6. CASE q \notin S
  BY <1>1, <1>2, <1>4, <1>6
<1> QED
  BY <1>5, <1>6

(* A request makes a number at most once, and not after it has left those that *)
(* will.                                                                       *)
LEMMA AuthCapsMoves ==
    ASSUME AuthTypeInv, AuthCaps, NEW q \in Slots, NEW r, AuthMoves(q, r),
           AuthIssues(r) => AuthIssues(authReq[q]), AuthMints(r) => AuthMints(authReq[q]), AuthEdits(r) => AuthEdits(authReq[q]),
           issued' = issued \/ (issued' = issued + 1 /\ AuthIssues(authReq[q]) /\ ~AuthIssues(r)),
           minted' = minted \/ (minted' = minted + 1 /\ AuthMints(authReq[q]) /\ ~AuthMints(r)),
           past'.edits = past.edits \/ (past'.edits = past.edits + 1 /\ AuthEdits(authReq[q]) /\ ~AuthEdits(r))
    PROVE  AuthCaps'
<1>1. \A p \in Slots : authReq'[p] = IF p = q THEN r ELSE authReq[p]
  BY DEF AuthMoves, AuthTypeInv, AuthShape
<1>2. issued \in Nat /\ minted \in Nat /\ past.edits \in Nat
  BY DEF AuthTypeInv, AuthNumbers, AuthPast
<1>a. RequestsAssumption
  BY RequestsAssumption
<1>3. issued' + Cardinality(AuthIssuing') <= MaxCodes
  <2>1. AuthIssuing \in SUBSET Slots /\ AuthIssuing' \in SUBSET AuthIssuing
    BY <1>1 DEF AuthIssuing
  <2>2. AuthIssues(authReq[q]) /\ ~AuthIssues(r) => q \in AuthIssuing /\ AuthIssuing' \subseteq AuthIssuing \ {q}
    BY <1>1 DEF AuthIssuing
  <2>3. Cardinality(AuthIssuing) \in Nat /\ Cardinality(AuthIssuing') \in Nat /\ Cardinality(AuthIssuing') <= Cardinality(AuthIssuing)
    BY <2>1, AuthFewer
  <2>4. AuthIssues(authReq[q]) /\ ~AuthIssues(r) => Cardinality(AuthIssuing') + 1 <= Cardinality(AuthIssuing)
    BY <2>1, <2>2, AuthOneLess
  <2> QED
    BY <1>2, <1>a, <2>3, <2>4 DEF AuthCaps, RequestsAssumption
<1>4. minted' + Cardinality(AuthMinting') <= MaxTokens
  <2>1. AuthMinting \in SUBSET Slots /\ AuthMinting' \in SUBSET AuthMinting
    BY <1>1 DEF AuthMinting
  <2>2. AuthMints(authReq[q]) /\ ~AuthMints(r) => q \in AuthMinting /\ AuthMinting' \subseteq AuthMinting \ {q}
    BY <1>1 DEF AuthMinting
  <2>3. Cardinality(AuthMinting) \in Nat /\ Cardinality(AuthMinting') \in Nat /\ Cardinality(AuthMinting') <= Cardinality(AuthMinting)
    BY <2>1, AuthFewer
  <2>4. AuthMints(authReq[q]) /\ ~AuthMints(r) => Cardinality(AuthMinting') + 1 <= Cardinality(AuthMinting)
    BY <2>1, <2>2, AuthOneLess
  <2> QED
    BY <1>2, <1>a, <2>3, <2>4 DEF AuthCaps, RequestsAssumption
<1>5. past'.edits + Cardinality(AuthEditing') <= MaxEdits
  <2>1. AuthEditing \in SUBSET Slots /\ AuthEditing' \in SUBSET AuthEditing
    BY <1>1 DEF AuthEditing
  <2>2. AuthEdits(authReq[q]) /\ ~AuthEdits(r) => q \in AuthEditing /\ AuthEditing' \subseteq AuthEditing \ {q}
    BY <1>1 DEF AuthEditing
  <2>3. Cardinality(AuthEditing) \in Nat /\ Cardinality(AuthEditing') \in Nat /\ Cardinality(AuthEditing') <= Cardinality(AuthEditing)
    BY <2>1, AuthFewer
  <2>4. AuthEdits(authReq[q]) /\ ~AuthEdits(r) => Cardinality(AuthEditing') + 1 <= Cardinality(AuthEditing)
    BY <2>1, <2>2, AuthOneLess
  <2> QED
    BY <1>2, <1>a, <2>3, <2>4 DEF AuthCaps, RequestsAssumption
<1> QED
  BY <1>3, <1>4, <1>5 DEF AuthCaps

(* A request that moves and numbers nothing keeps the bounds. *)
LEMMA AuthBoundsMoves ==
    ASSUME AuthTypeInv, AuthBounds, NEW q \in Slots, NEW r, AuthMoves(q, r),
           AuthIssues(r) => AuthIssues(authReq[q]), AuthMints(r) => AuthMints(authReq[q]), AuthEdits(r) => AuthEdits(authReq[q]),
           UNCHANGED <<issued, minted>>, past'.edits = past.edits,
           AuthWithin(r, issued, minted, past.edits), AuthMade'
    PROVE  AuthBounds'
<1>1. \A p \in Slots : authReq'[p] = IF p = q THEN r ELSE authReq[p]
  BY DEF AuthMoves, AuthTypeInv, AuthShape
<1>2. \A p \in Slots : AuthWithin(authReq'[p], issued', minted', past'.edits)
  BY <1>1 DEF AuthBounds
<1>3. AuthCaps'
  BY AuthCapsMoves DEF AuthBounds
<1> QED
  BY <1>2, <1>3 DEF AuthBounds

(* A free slot is within all bounds. *)
LEMMA AuthIdleBounds ==
    ASSUME NEW i \in Nat, NEW m \in Nat, NEW e \in Nat
    PROVE  AuthWithin(Auth!Idle, i, m, e) /\ ~AuthIssues(Auth!Idle) /\ ~AuthMints(Auth!Idle) /\ ~AuthEdits(Auth!Idle)
  BY AuthIdleShaped DEF AuthWithin, AuthIssues, AuthMints, AuthEdits, Auth!SessionOps, Auth!Logins, Auth!EditOps

(* Every step of a handler keeps the bounds. *)
LEMMA AuthBoundsStep ==
    ASSUME AuthTypeInv, AuthBounds, NEW q \in Slots, Auth!RequestStep(q)
    PROVE  AuthBounds'
<1> DEFINE h == authReq[q]
<1>h. h \in AuthRequest /\ AuthShaped(h) /\ AuthShape /\ AuthNumbers /\ AuthWithin(h, issued, minted, past.edits) /\ past \in AuthPast
  BY DEF AuthTypeInv, AuthShape, AuthBounds, AuthNumbers
<1>n. issued \in Nat /\ minted \in Nat /\ past.edits \in Nat /\ otp.code \in Nat /\ otp.until \in Nat /\ otp.ending \in Nat
      /\ elapsed \in Nat /\ row.hash \in Nat /\ row.name \in Nat /\ row.push \in Nat
  BY <1>h DEF AuthNumbers, AuthPast
<1>m. UNCHANGED <<issued, minted, row, held, elapsed>> /\ past'.edits = past.edits
        /\ otp'.code \in {otp.code, Auth!NoCode} /\ otp'.until \in {otp.until, Auth!NoCode, h.code}
        /\ otp'.ending = otp.ending => AuthMade'
  BY <1>n, <1>h DEF AuthBounds, AuthMade, AuthWithin, Auth!NoCode, AuthRequest
<1>e. ASSUME Auth!Ends(q) \/ AuthEndsAs(q), UNCHANGED <<issued, minted>>, past'.edits = past.edits, AuthMade' PROVE AuthBounds'
  <2>1. AuthEndsAs(q)
    BY <1>e, AuthEndsDoes
  <2>2. AuthWithin(Auth!Idle, issued, minted, past.edits) /\ ~AuthIssues(Auth!Idle) /\ ~AuthMints(Auth!Idle) /\ ~AuthEdits(Auth!Idle)
    BY <1>n, AuthIdleBounds
  <2> QED
    BY <1>e, <2>1, <2>2, AuthBoundsMoves DEF AuthEndsAs
<1>o. ASSUME NEW step \in AuthSteps \ {"find"}, Auth!Goto(q, step), h.pc \notin {"idle", "reload", "save"},
             step \in {"cooldown", "setCode"} => h.pc \in {"cooldown", "setCode"},
             UNCHANGED <<issued, minted>>, past'.edits = past.edits, AuthMade'
      PROVE  AuthBounds'
  <2>1. PICK r \in AuthRequest : /\ AuthMoves(q, r) /\ AuthFollows(h, r) /\ AuthKeeps(h, r) /\ r.code = h.code
                                 /\ r.pc = step
    BY <1>o, AuthGotoDoes
  <2>2. AuthIssues(r) => AuthIssues(h)
    BY <1>o, <2>1 DEF AuthFollows, AuthIssues
  <2>3. (AuthMints(r) => AuthMints(h)) /\ (AuthEdits(r) => AuthEdits(h))
    BY <1>o, <2>1 DEF AuthFollows, AuthMints, AuthEdits
  <2>4. AuthWithin(r, issued, minted, past.edits)
    BY <1>h, <2>1 DEF AuthFollows, AuthKeeps, AuthWithin
  <2> QED
    BY <1>o, <2>1, <2>2, <2>3, <2>4, AuthBoundsMoves
<1>1. CASE Auth!CheckCooldown(q) \/ Auth!CheckLock(q)
  <2>1. UNCHANGED <<issued, minted, row, held, elapsed, otp, past>> /\ h.pc \in {"cooldown", "lock"}
    BY <1>1 DEF Auth!CheckCooldown, Auth!CheckLock, Auth!At, Auth!UNCHANGED_User
  <2>2. \/ Auth!Ends(q) \/ Auth!Goto(q, "setCool") \/ Auth!Goto(q, "getCode")
        \/ Auth!Goto(q, "setCode") /\ h.pc = "cooldown"
    BY <1>1 DEF Auth!CheckCooldown, Auth!CheckLock, Auth!At
  <2> QED
    BY <1>m, <2>1, <2>2, <1>e, <1>o DEF AuthSteps
<1>2. CASE Auth!SetCode(q)
  <2>1. /\ h.pc = "setCode" /\ h.op = "otp" /\ issued' = issued + 1 /\ otp' = [otp EXCEPT !.code = issued + 1]
        /\ UNCHANGED <<minted, row, held, elapsed>> /\ Auth!Goto(q, "delTries")
        /\ past' = [past EXCEPT !.wrong = 0, !.clears = 0]
    BY <1>2, <1>h DEF Auth!SetCode, Auth!At, Auth!UNCHANGED_User, AuthShaped, AuthOpAt
  <2>2. past'.edits = past.edits /\ otp'.code = issued + 1 /\ otp'.until = otp.until /\ otp'.ending = otp.ending
    BY <1>h, <2>1 DEF AuthPast, AuthNumbers
  <2>3. PICK r \in AuthRequest : /\ AuthMoves(q, r) /\ AuthFollows(h, r) /\ AuthKeeps(h, r) /\ r.code = h.code
                                 /\ r.pc = "delTries"
    BY <2>1, AuthGotoDoes DEF AuthSteps
  <2>4. AuthIssues(h) /\ ~AuthIssues(r) /\ ~AuthMints(r) /\ ~AuthEdits(r)
    BY <2>1, <2>3 DEF AuthIssues, AuthMints, AuthEdits, AuthFollows, Auth!SessionOps, Auth!Logins, Auth!EditOps
  <2>5. AuthCaps'
    BY <2>1, <2>2, <2>3, <2>4, AuthCapsMoves DEF AuthBounds
  <2>6. AuthMade'
    BY <1>n, <2>1, <2>2 DEF AuthBounds, AuthMade
  <2>7. ASSUME NEW p \in Slots PROVE AuthWithin(authReq[p], issued + 1, minted, past.edits)
    <3>1. AuthWithin(authReq[p], issued, minted, past.edits) /\ authReq[p].code \in Nat
      BY <1>h DEF AuthBounds, AuthShape, AuthRequest
    <3> QED
      BY <1>n, <3>1 DEF AuthWithin
  <2>8. AuthWithin(r, issued + 1, minted, past.edits)
    BY <2>3, <2>7 DEF AuthWithin, AuthKeeps
  <2>9. \A p \in Slots : authReq'[p] = IF p = q THEN r ELSE authReq[p]
    BY <1>h, <2>3 DEF AuthMoves, AuthShape
  <2> QED
    BY <2>1, <2>2, <2>5, <2>6, <2>7, <2>8, <2>9 DEF AuthBounds
<1>3. CASE Auth!DelTries(q)
  <2>1. /\ h.pc = "delTries" /\ h.op \in {"otp", "login"} /\ (h.op = "login" => h.code # Auth!NoCode)
        /\ UNCHANGED <<issued, minted, row, held, elapsed>>
        /\ otp' = [otp EXCEPT !.tries = 0, !.until = Auth!NoCode]
        /\ past' = [past EXCEPT !.clears = Auth!Clears]
    BY <1>3, <1>h DEF Auth!DelTries, Auth!At, Auth!UNCHANGED_User, AuthShaped, AuthOpAt, AuthCodeRead
  <2>2. past'.edits = past.edits /\ otp'.code = otp.code /\ otp'.until = Auth!NoCode /\ otp'.ending = otp.ending
    BY <1>h, <2>1 DEF AuthPast, AuthNumbers
  <2>3. \/ Auth!Ends(q) \/ Auth!Goto(q, "setCool")
        \/ Auth!Goto(q, "find") /\ h.op = "login" /\ h.guess = h.code
    BY <1>3, <2>1 DEF Auth!DelTries
  <2>4. CASE Auth!Goto(q, "find") /\ h.op = "login" /\ h.guess = h.code
    <3>1. PICK r \in AuthRequest : /\ AuthMoves(q, r) /\ AuthFollows(h, r) /\ AuthKeeps(h, r) /\ r.code = h.code
                                   /\ r.pc = "find"
      BY <2>4, AuthGotoDoes DEF AuthSteps
    <3>2. ~AuthIssues(r) /\ AuthMints(h) /\ ~AuthEdits(r)
      BY <2>1, <2>4, <3>1 DEF AuthIssues, AuthMints, AuthEdits, AuthFollows, Auth!SessionOps, Auth!Logins, Auth!EditOps
    <3>3. AuthWithin(r, issued, minted, past.edits)
      BY <1>h, <3>1 DEF AuthFollows, AuthKeeps, AuthWithin
    <3> QED
      BY <1>m, <2>1, <2>2, <3>1, <3>2, <3>3, AuthBoundsMoves
  <2> QED
    BY <1>m, <2>1, <2>2, <2>3, <2>4, <1>e, <1>o DEF AuthSteps
<1>4. CASE Auth!SetCooldown(q) \/ Auth!ExpireTries(q)
  <2>1. UNCHANGED <<issued, minted, row, held, elapsed, past>> /\ Auth!Ends(q)
    BY <1>4 DEF Auth!SetCooldown, Auth!ExpireTries, Auth!UNCHANGED_User
  <2>2. otp'.code = otp.code /\ otp'.until \in {otp.until, h.code} /\ otp'.ending = otp.ending
    BY <1>4, <1>h DEF Auth!SetCooldown, Auth!ExpireTries, AuthNumbers
  <2> QED
    BY <1>m, <2>1, <2>2, <1>e
<1>5. CASE Auth!GetCode(q) \/ Auth!ReadCodeTtl(q)
  <2>1. UNCHANGED <<issued, minted, row, held, elapsed, past, otp>>
        /\ h.pc \in {"getCode", "codeTtl"} /\ h.op = "login"
    BY <1>5, <1>h DEF Auth!GetCode, Auth!ReadCodeTtl, Auth!At, Auth!UNCHANGED_User, AuthShaped, AuthOpAt
  <2>2. CASE AuthEndsAs(q)
    BY <1>m, <2>1, <2>2, <1>e
  <2>3. ASSUME NEW r \in AuthRequest, AuthMoves(q, r), AuthFollows(h, r), AuthKeeps(h, r), r.code = otp.code,
               r.pc \in {"delCode", "incr", "expire"}
        PROVE  AuthBounds'
    <3>1. ~AuthIssues(r) /\ (AuthMints(r) => AuthMints(h)) /\ ~AuthEdits(r)
      BY <2>1, <2>3 DEF AuthIssues, AuthMints, AuthEdits, AuthFollows, Auth!EditOps
    <3>2. AuthWithin(r, issued, minted, past.edits)
      BY <1>h, <2>3 DEF AuthKeeps, AuthWithin, AuthBounds, AuthMade
    <3> QED
      BY <1>m, <2>1, <2>3, <3>1, <3>2, AuthBoundsMoves
  <2> QED
    BY <1>5, <2>2, <2>3, AuthGetCodeDoes, AuthReadCodeTtlDoes
<1>6. CASE Auth!IncrTries(q)
  <2>1. UNCHANGED <<issued, minted, row, held, elapsed>> /\ h.pc = "incr" /\ h.op = "login"
    BY <1>6, <1>h DEF Auth!IncrTries, Auth!At, Auth!UNCHANGED_User, AuthShaped, AuthOpAt
  <2>2. past'.edits = past.edits /\ otp'.code = otp.code /\ otp'.until = otp.until /\ otp'.ending = otp.ending
    BY <1>6, <1>h DEF Auth!IncrTries, AuthPast, AuthNumbers
  <2>3. CASE AuthEndsAs(q)
    BY <1>m, <2>1, <2>2, <2>3, <1>e
  <2>4. ASSUME NEW r \in AuthRequest, AuthMoves(q, r), AuthFollows(h, r), AuthKeeps(h, r), r.code = h.code,
               r.pc \in {"codeTtl", "setLock"}
        PROVE  AuthBounds'
    <3>1. ~AuthIssues(r) /\ (AuthMints(r) => AuthMints(h)) /\ ~AuthEdits(r)
      BY <2>1, <2>4 DEF AuthIssues, AuthMints, AuthEdits, AuthFollows, Auth!EditOps
    <3>2. AuthWithin(r, issued, minted, past.edits)
      BY <1>h, <2>4 DEF AuthKeeps, AuthWithin
    <3> QED
      BY <1>m, <2>1, <2>2, <2>4, <3>1, <3>2, AuthBoundsMoves
  <2> QED
    BY <1>6, <2>3, <2>4, AuthIncrTriesDoes
<1>7. CASE Auth!SetLock(q) \/ Auth!DelCode(q)
  <2>1. UNCHANGED <<issued, minted, row, held, elapsed, past>> /\ h.pc \in {"setLock", "delCode"}
        /\ (Auth!Goto(q, "delCode") \/ Auth!Goto(q, "delTries"))
    BY <1>7 DEF Auth!SetLock, Auth!DelCode, Auth!At, Auth!UNCHANGED_User
  <2>2. otp'.code \in {otp.code, Auth!NoCode} /\ otp'.until = otp.until /\ otp'.ending = otp.ending
    BY <1>7, <1>h DEF Auth!SetLock, Auth!DelCode, Auth!Spent, AuthNumbers
  <2> QED
    BY <1>m, <2>1, <2>2, <1>o DEF AuthSteps
<1>8. CASE Auth!FindUser(q)
  <2>1. h.pc = "find" /\ UNCHANGED <<row, held, issued, minted, elapsed, otp>>
    BY <1>8 DEF Auth!FindUser, Auth!At, Auth!UNCHANGED_User
  <2>2. ASSUME AuthEndsAs(q), past' = [past EXCEPT !.refused = @ \cup {Auth!Cause(h)}] PROVE AuthBounds'
    <3>1. past'.edits = past.edits
      BY <1>h, <2>2 DEF AuthPast
    <3> QED
      BY <1>m, <2>1, <2>2, <3>1, <1>e
  <2>3. ASSUME h.op \in Auth!SessionOps, past' = past, NEW r \in AuthRequest, AuthMoves(q, r), AuthFollows(h, r),
               r.code = h.code, r.token = h.token, r.pc \in {"sign", "insert"},
               r.user = [name |-> row.name, push |-> row.push,
                         hash |-> IF h.op = "refresh" THEN row.hash ELSE Auth!NoCode]
        PROVE  AuthBounds'
    <3>1. ~AuthIssues(r) /\ (AuthMints(r) => AuthMints(h)) /\ ~AuthEdits(r)
      BY <2>1, <2>3 DEF AuthIssues, AuthMints, AuthEdits, AuthFollows
    <3>2. /\ r.user.name = row.name /\ r.user.push = row.push
          /\ r.user.hash = (IF h.op = "refresh" THEN row.hash ELSE Auth!NoCode)
      BY <2>3
    <3>3. AuthWithin(r, issued, minted, past.edits)
      BY <1>h, <1>n, <2>3, <3>2 DEF AuthWithin, AuthBounds, AuthMade, Auth!NoCode
    <3> QED
      BY <1>m, <2>1, <2>3, <3>1, <3>3, AuthBoundsMoves
  <2>4. ASSUME h.op \in Auth!EditOps, past' = [past EXCEPT !.edits = @ + 1], NEW r \in AuthRequest,
               NEW c \in {"name", "push"}, AuthMoves(q, r), AuthFollows(h, r), r.code = h.code, r.token = h.token,
               r.pc = "reload", r.user[c] = past.edits + 1, r.user.hash = Auth!NoCode,
               \A d \in {"name", "push"} \ {c} : r.user[d] = row[d]
        PROVE  AuthBounds'
    <3>1. past'.edits = past.edits + 1
      BY <1>h, <2>4 DEF AuthPast
    <3>2. AuthEdits(h) /\ ~AuthIssues(r) /\ ~AuthMints(r) /\ ~AuthEdits(r)
      BY <2>1, <2>4 DEF AuthIssues, AuthMints, AuthEdits, AuthFollows
    <3>3. AuthCaps'
      BY <2>1, <2>4, <3>1, <3>2, AuthCapsMoves DEF AuthBounds
    <3>4. AuthMade'
      BY <1>n, <2>1, <3>1 DEF AuthBounds, AuthMade
    <3>5. ASSUME NEW p \in Slots PROVE AuthWithin(authReq[p], issued, minted, past.edits + 1)
      <4>1. AuthWithin(authReq[p], issued, minted, past.edits) /\ authReq[p].user \in AuthEntity
        BY <1>h DEF AuthBounds, AuthShape, AuthRequest
      <4> QED
        BY <1>n, <4>1 DEF AuthWithin, AuthEntity
    <3>6. r.user.name <= past.edits + 1 /\ r.user.push <= past.edits + 1
      <4>1. row.name <= past.edits /\ row.push <= past.edits
        BY DEF AuthBounds, AuthMade
      <4>2. CASE c = "name"
        BY <1>n, <2>4, <4>1, <4>2
      <4>3. CASE c = "push"
        BY <1>n, <2>4, <4>1, <4>3
      <4> QED
        BY <4>2, <4>3
    <3>7. AuthWithin(r, issued, minted, past.edits + 1)
      BY <1>h, <1>n, <2>4, <3>6 DEF AuthWithin, Auth!NoCode
    <3>8. \A p \in Slots : authReq'[p] = IF p = q THEN r ELSE authReq[p]
      BY <1>h, <2>4 DEF AuthMoves, AuthShape
    <3> QED
      BY <2>1, <3>1, <3>3, <3>4, <3>5, <3>7, <3>8 DEF AuthBounds
  <2> QED
    BY <1>8, <2>2, <2>3, <2>4, AuthFindUserDoes
<1>9. CASE Auth!InsertUser(q)
  <2>1. /\ h.pc = "insert" /\ row' = [row EXCEPT !.exists = TRUE]
        /\ UNCHANGED <<held, past, issued, minted, elapsed, otp>>
        /\ (Auth!Ends(q) \/ Auth!Goto(q, "sign"))
    BY <1>9, <1>h DEF Auth!InsertUser, Auth!At
  <2>2. row'.name = row.name /\ row'.push = row.push /\ row'.hash = row.hash
    BY <1>h, <2>1 DEF AuthNumbers
  <2>3. AuthMade'
    BY <2>1, <2>2 DEF AuthBounds, AuthMade
  <2> QED
    BY <2>1, <2>3, <1>e, <1>o DEF AuthSteps
<1>10. CASE Auth!Sign(q)
  <2>1. h.pc = "sign" /\ h.op \in Auth!SessionOps /\ minted' = minted + 1
        /\ UNCHANGED <<row, held, past, issued, elapsed, otp>>
        /\ (h.op = "login" => h.guess # Auth!NoCode)
    BY <1>10, <1>h DEF Auth!Sign, Auth!At, AuthShaped, AuthOpAt, AuthCodeRead
  <2>2. PICK r \in AuthRequest :
           /\ AuthMoves(q, r) /\ AuthFollows(h, r) /\ r.code = h.code /\ r.token = minted + 1
           /\ r.user.hash = minted + 1
           /\ r.user.name = h.user.name /\ r.user.push = h.user.push
           /\ r.set = {"hash"} /\ r.pc = "reload"
    BY <1>10, AuthSignDoes
  <2>3. AuthMints(h) /\ ~AuthIssues(r) /\ ~AuthMints(r) /\ ~AuthEdits(r)
    BY <2>1, <2>2 DEF AuthIssues, AuthMints, AuthEdits, AuthFollows
  <2>4. AuthCaps'
    BY <2>1, <2>2, <2>3, AuthCapsMoves DEF AuthBounds
  <2>5. AuthMade'
    BY <1>n, <2>1 DEF AuthBounds, AuthMade
  <2>6. ASSUME NEW p \in Slots PROVE AuthWithin(authReq[p], issued, minted + 1, past.edits)
    <3>1. AuthWithin(authReq[p], issued, minted, past.edits) /\ authReq[p].user \in AuthEntity /\ authReq[p].token \in Nat
      BY <1>h DEF AuthBounds, AuthShape, AuthRequest
    <3> QED
      BY <1>n, <3>1 DEF AuthWithin, AuthEntity
  <2>7. AuthWithin(r, issued, minted + 1, past.edits)
    BY <1>h, <1>n, <2>2 DEF AuthWithin
  <2>8. \A p \in Slots : authReq'[p] = IF p = q THEN r ELSE authReq[p]
    BY <1>h, <2>2 DEF AuthMoves, AuthShape
  <2> QED
    BY <2>1, <2>4, <2>5, <2>6, <2>7, <2>8 DEF AuthBounds
<1>11. CASE Auth!ReloadUser(q)
  <2>1. h.pc = "reload" /\ UNCHANGED <<row, held, past, issued, minted, elapsed, otp>>
    BY <1>11, <1>h DEF Auth!ReloadUser, Auth!At, Auth!UNCHANGED_User
  <2>2. PICK r \in AuthRequest :
              /\ AuthMoves(q, r) /\ AuthFollows(h, r) /\ r.code = h.code /\ r.token = h.token
              /\ r.user = h.user /\ r.pc = "save"
    BY <1>11, AuthReloadUserDoes
  <2>3. ~AuthIssues(r) /\ ~AuthMints(r) /\ ~AuthEdits(r) /\ AuthWithin(r, issued, minted, past.edits)
    BY <1>h, <2>1, <2>2 DEF AuthIssues, AuthMints, AuthEdits, AuthWithin
  <2> QED
    BY <1>m, <2>1, <2>2, <2>3, AuthBoundsMoves
<1>12. CASE Auth!SaveUser(q)
  <2>1. h.pc = "save" /\ h.op \in Auth!SessionOps \cup Auth!EditOps /\ Auth!Ends(q)
        /\ UNCHANGED <<issued, minted, elapsed, otp>>
    BY <1>12, <1>h DEF Auth!SaveUser, Auth!At, AuthShaped, AuthOpAt
  <2>2. past'.edits = past.edits
    BY <1>12, AuthSaveDoes
  <2>3. /\ row'.name = IF "name" \in h.dirty THEN h.user.name ELSE row.name
        /\ row'.push = IF "push" \in h.dirty THEN h.user.push ELSE row.push
        /\ row'.hash = IF "hash" \in h.dirty THEN h.user.hash ELSE row.hash
    <3>1. row' = [c \in DOMAIN row |-> IF c \in h.dirty THEN h.user[c] ELSE row[c]]
      BY <1>12 DEF Auth!SaveUser, Auth!Written
    <3> QED
      BY <1>h, <3>1 DEF AuthNumbers
  <2>4. held' \subseteq 1..minted
    <3>1. held' = IF h.op \in Auth!SessionOps THEN held \cup {h.token} ELSE held
      BY <1>12 DEF Auth!SaveUser
    <3>2. h.op \in Auth!SessionOps => h.token \in 1..minted
      <4>1. h.token \in Nat /\ h.token <= minted
        BY <1>h DEF AuthRequest, AuthWithin
      <4>2. h.op \in Auth!SessionOps => h.token # 0
        BY <1>h, <2>1 DEF AuthShaped, AuthSetInEntity, Auth!NoCode
      <4> QED
        BY <1>n, <4>1, <4>2
    <3> QED
      BY <3>1, <3>2 DEF AuthBounds, AuthMade
  <2>5. AuthMade'
    BY <1>h, <2>1, <2>2, <2>3, <2>4 DEF AuthBounds, AuthMade, AuthWithin
  <2> QED
    BY <2>1, <2>2, <2>5, <1>e
<1>13. CASE Auth!Logout(q)
  <2>1. UNCHANGED <<row, held, issued, minted, elapsed, otp>> /\ past'.edits = past.edits /\ Auth!Ends(q)
    BY <1>13, <1>h DEF Auth!Logout, Auth!LogoutUpdate, AuthPast
  <2> QED
    BY <1>m, <2>1, <1>e
<1> QED
  BY <1>1, <1>2, <1>3, <1>4, <1>5, <1>6, <1>7, <1>8, <1>9, <1>10, <1>11, <1>12, <1>13 DEF Auth!RequestStep

(* Every step keeps the bounds: a new request is counted before it may number *)
(* anything.                                                                  *)
LEMMA AuthBoundsNext == AuthTypeInv /\ AuthBounds /\ [Auth!Next]_(Auth!authVars) => AuthBounds'
<1> SUFFICES ASSUME AuthTypeInv, AuthBounds, [Auth!Next]_(Auth!authVars) PROVE AuthBounds'
  OBVIOUS
<1>n. /\ issued \in Nat /\ minted \in Nat /\ past.edits \in Nat /\ otp.code \in Nat /\ otp.until \in Nat /\ otp.ending \in Nat
      /\ elapsed \in Nat /\ past \in AuthPast /\ AuthNumbers
  BY DEF AuthTypeInv, AuthNumbers, AuthPast
<1>u. ASSUME UNCHANGED <<issued, minted, authReq>>, past'.edits = past.edits, AuthMade' PROVE AuthBounds'
  BY <1>u DEF AuthBounds, AuthCaps, AuthIssuing, AuthMinting, AuthEditing
<1>1. CASE UNCHANGED Auth!authVars
  BY <1>1, <1>u DEF Auth!authVars, AuthBounds, AuthMade
<1>2. ASSUME NEW q \in Slots, NEW op \in AuthOps, NEW guess \in {Auth!NoCode, otp.code},
             NEW token \in held \cup {Auth!NoCode}, Auth!Begin(q, op, guess, token)
      PROVE  AuthBounds'
  <2>0. guess \in Nat /\ token \in Nat /\ token <= minted
    BY <1>n DEF AuthTypeInv, AuthNumbers, Auth!NoCode, AuthBounds, AuthMade
  <2>1. PICK r \in AuthRequest : /\ AuthMoves(q, r) /\ r.op = op /\ r.pc = Auth!FirstStep(op) /\ r.guess = guess
                                 /\ r.code = Auth!NoCode /\ r.token = token /\ r.user = Auth!Idle.user
    BY <1>2, <2>0, AuthBeginDoes
  <2>2. UNCHANGED <<row, held, issued, minted, elapsed, otp>> /\ past'.edits = past.edits
    BY <1>2, <1>n DEF Auth!Begin, Auth!UNCHANGED_User, AuthPast
  <2>3. AuthWithin(r, issued, minted, past.edits)
    BY <1>n, <2>0, <2>1, AuthIdleShaped DEF AuthWithin, Auth!NoCode
  <2>4. AuthMade'
    BY <2>2 DEF AuthBounds, AuthMade
  <2>5. \A p \in Slots : authReq'[p] = IF p = q THEN r ELSE authReq[p]
    BY <2>1 DEF AuthMoves, AuthTypeInv, AuthShape
  <2>6. Auth!Busy \in SUBSET Slots /\ Cardinality(Auth!Busy) \in Nat
    BY AuthFewer DEF Auth!Busy
  <2>7. /\ AuthIssuing \in SUBSET Auth!Busy /\ AuthMinting \in SUBSET Auth!Busy /\ AuthEditing \in SUBSET Auth!Busy
        /\ AuthIssuing' \subseteq AuthIssuing \cup {q} /\ AuthMinting' \subseteq AuthMinting \cup {q}
        /\ AuthEditing' \subseteq AuthEditing \cup {q}
        /\ AuthIssuing' \in SUBSET Slots /\ AuthMinting' \in SUBSET Slots /\ AuthEditing' \in SUBSET Slots
        /\ AuthIssuing \in SUBSET Slots /\ AuthMinting \in SUBSET Slots /\ AuthEditing \in SUBSET Slots
    BY <2>5 DEF AuthIssuing, AuthMinting, AuthEditing, Auth!Busy, AuthIssues, AuthMints, AuthEdits, Auth!At
  <2>8. /\ Cardinality(AuthIssuing) \in Nat /\ Cardinality(AuthIssuing') \in Nat
        /\ Cardinality(AuthIssuing) <= Cardinality(Auth!Busy)
        /\ Cardinality(AuthIssuing') <= Cardinality(AuthIssuing) + 1
        /\ Cardinality(AuthMinting) \in Nat /\ Cardinality(AuthMinting') \in Nat
        /\ Cardinality(AuthMinting) <= Cardinality(Auth!Busy)
        /\ Cardinality(AuthMinting') <= Cardinality(AuthMinting) + 1
        /\ Cardinality(AuthEditing) \in Nat /\ Cardinality(AuthEditing') \in Nat
        /\ Cardinality(AuthEditing) <= Cardinality(Auth!Busy)
        /\ Cardinality(AuthEditing') <= Cardinality(AuthEditing) + 1
    BY <2>6, <2>7, AuthFewer, AuthOneMore
  <2>9. /\ ~AuthIssues(r) => AuthIssuing' \in SUBSET AuthIssuing
        /\ ~AuthMints(r) => AuthMinting' \in SUBSET AuthMinting
        /\ ~AuthEdits(r) => AuthEditing' \in SUBSET AuthEditing
    BY <2>5 DEF AuthIssuing, AuthMinting, AuthEditing
  <2>10. /\ ~AuthIssues(r) => Cardinality(AuthIssuing') <= Cardinality(AuthIssuing)
         /\ ~AuthMints(r) => Cardinality(AuthMinting') <= Cardinality(AuthMinting)
         /\ ~AuthEdits(r) => Cardinality(AuthEditing') <= Cardinality(AuthEditing)
    BY <2>7, <2>9, AuthFewer
  <2>11. /\ AuthIssues(r) => issued + Cardinality(Auth!Busy) < MaxCodes
         /\ AuthMints(r) => minted + Cardinality(Auth!Busy) < MaxTokens
         /\ AuthEdits(r) => past.edits + Cardinality(Auth!Busy) < MaxEdits
    BY <1>2, <2>1, AuthCountSame DEF Auth!Begin, AuthIssues, AuthMints, AuthEdits
  <2>12. AuthCaps'
    <3>1. issued' + Cardinality(AuthIssuing') <= MaxCodes
      <4>1. CASE AuthIssues(r)
        BY <1>n, <2>2, <2>6, <2>8, <2>11, <4>1, RequestsAssumption
      <4>2. CASE ~AuthIssues(r)
        BY <1>n, <2>2, <2>8, <2>10, <4>2, RequestsAssumption DEF AuthBounds, AuthCaps
      <4> QED
        BY <4>1, <4>2
    <3>2. minted' + Cardinality(AuthMinting') <= MaxTokens
      <4>1. CASE AuthMints(r)
        BY <1>n, <2>2, <2>6, <2>8, <2>11, <4>1, RequestsAssumption
      <4>2. CASE ~AuthMints(r)
        BY <1>n, <2>2, <2>8, <2>10, <4>2, RequestsAssumption DEF AuthBounds, AuthCaps
      <4> QED
        BY <4>1, <4>2
    <3>3. past'.edits + Cardinality(AuthEditing') <= MaxEdits
      <4>1. CASE AuthEdits(r)
        BY <1>n, <2>2, <2>6, <2>8, <2>11, <4>1, RequestsAssumption
      <4>2. CASE ~AuthEdits(r)
        BY <1>n, <2>2, <2>8, <2>10, <4>2, RequestsAssumption DEF AuthBounds, AuthCaps
      <4> QED
        BY <4>1, <4>2
    <3> QED
      BY <3>1, <3>2, <3>3 DEF AuthCaps
  <2>13. \A p \in Slots : AuthWithin(authReq'[p], issued', minted', past'.edits)
    BY <2>2, <2>3, <2>5 DEF AuthBounds
  <2> QED
    BY <2>4, <2>12, <2>13 DEF AuthBounds
<1>3. ASSUME NEW q \in Slots, Auth!RefreshFails(q) \/ Auth!Crash(q) PROVE AuthBounds'
  <2>1. UNCHANGED <<row, held, issued, minted, elapsed, otp>> /\ past'.edits = past.edits /\ AuthEndsAs(q)
    <3>1. past'.edits = past.edits
      BY <1>3, AuthFailureDoes
    <3> QED
      BY <1>3, <3>1, AuthEndsDoes DEF Auth!RefreshFails, Auth!Crash, Auth!UNCHANGED_User
  <2>2. AuthWithin(Auth!Idle, issued, minted, past.edits) /\ ~AuthIssues(Auth!Idle) /\ ~AuthMints(Auth!Idle) /\ ~AuthEdits(Auth!Idle)
    BY <1>n, AuthIdleBounds
  <2>3. AuthMade'
    BY <2>1 DEF AuthBounds, AuthMade
  <2> QED
    BY <2>1, <2>2, <2>3, AuthBoundsMoves DEF AuthEndsAs
<1>4. CASE Auth!Elapse
  <2>1. /\ UNCHANGED <<issued, minted, row, held, authReq, past>> /\ elapsed' = elapsed + 1 /\ elapsed < otp.ending
        /\ otp'.code = (IF otp.code = elapsed + 1 THEN Auth!NoCode ELSE otp.code) /\ otp'.until = otp.until
        /\ otp'.ending = otp.ending
    BY <1>4, <1>n DEF Auth!Elapse, Auth!UNCHANGED_User, AuthNumbers
  <2>2. AuthMade'
    BY <1>n, <2>1 DEF AuthBounds, AuthMade, Auth!NoCode
  <2> QED
    BY <1>u, <2>1, <2>2
<1>5. CASE Auth!TriesEnd \/ Auth!TimerEnds
  <2>1. /\ UNCHANGED <<issued, minted, row, held, authReq, elapsed>> /\ past'.edits = past.edits
        /\ otp'.code = otp.code /\ otp'.until \in {otp.until, Auth!NoCode} /\ otp'.ending = otp.ending
    BY <1>5, <1>n DEF Auth!TriesEnd, Auth!TimerEnds, Auth!UNCHANGED_User, AuthNumbers, AuthPast
  <2>2. AuthMade'
    BY <1>n, <2>1 DEF AuthBounds, AuthMade, Auth!NoCode
  <2> QED
    BY <1>u, <2>1, <2>2
<1>6. CASE Auth!NearEnd
  <2>1. /\ UNCHANGED <<issued, minted, row, held, authReq, past, elapsed>> /\ otp.ending < issued
        /\ otp'.code = otp.code /\ otp'.until = otp.until /\ otp'.ending = otp.ending + 1
    BY <1>6, <1>n DEF Auth!NearEnd, Auth!UNCHANGED_User, AuthNumbers
  <2>2. AuthMade'
    BY <1>n, <2>1 DEF AuthBounds, AuthMade, Auth!NoCode
  <2> QED
    BY <1>u, <2>1, <2>2
<1> QED
  BY <1>1, <1>2, <1>3, <1>4, <1>5, <1>6, AuthBoundsStep DEF Auth!Next

(* The bounds hold at the start. *)
LEMMA AuthBoundsInit == Auth!Init => AuthBounds
<1> SUFFICES ASSUME Auth!Init PROVE AuthBounds
  OBVIOUS
<1>1. /\ issued = 0 /\ elapsed = 0 /\ minted = 0 /\ held = {} /\ past.edits = 0
      /\ otp.code = 0 /\ otp.until = 0 /\ otp.ending = 0 /\ row.name = 0 /\ row.push = 0 /\ row.hash = 0
      /\ \A q \in Slots : authReq[q] = Auth!Idle
  BY DEF Auth!Init, Auth!NoCode
<1>2. AuthMade
  BY <1>1 DEF AuthMade, Auth!NoCode
<1>3. /\ \A q \in Slots : /\ AuthWithin(authReq[q], issued, minted, past.edits) /\ ~AuthIssues(authReq[q])
                          /\ ~AuthMints(authReq[q]) /\ ~AuthEdits(authReq[q])
  BY <1>1, AuthIdleBounds
<1>4. AuthIssuing = {} /\ AuthMinting = {} /\ AuthEditing = {}
  BY <1>3 DEF AuthIssuing, AuthMinting, AuthEditing
<1>5. AuthCaps
  BY <1>1, <1>4, RequestsAssumption, FS_EmptySet DEF AuthCaps
<1> QED
  BY <1>2, <1>3, <1>5 DEF AuthBounds

(* The types and the bounds together are the type invariant. *)
LEMMA AuthTypesOK == AuthTypeInv /\ AuthBounds => Auth!TypeOK
<1> SUFFICES ASSUME AuthTypeInv, AuthBounds PROVE Auth!TypeOK
  OBVIOUS
<1>1. /\ Cardinality(AuthIssuing) \in Nat /\ Cardinality(AuthMinting) \in Nat /\ Cardinality(AuthEditing) \in Nat
  BY AuthFewer DEF AuthIssuing, AuthMinting, AuthEditing
<1>2. issued \in Nat /\ minted \in Nat /\ past.edits \in Nat /\ AuthNumbers /\ elapsed \in Nat
  BY DEF AuthTypeInv, AuthNumbers, AuthPast
<1>3. issued \in 0..MaxCodes /\ minted \in 0..MaxTokens /\ past.edits <= MaxEdits
  BY <1>1, <1>2, RequestsAssumption DEF AuthBounds, AuthCaps, AuthMade
<1>4. /\ otp \in [code : 0..issued, ending : 0..issued, tries : Nat, until : 0..issued, lock : BOOLEAN, cool : BOOLEAN]
      /\ elapsed \in 0..otp.ending
  <2>1. /\ otp.code \in 0..issued /\ otp.until \in 0..issued /\ otp.ending \in 0..issued
        /\ elapsed \in 0..otp.ending
    BY <1>2 DEF AuthNumbers, AuthBounds, AuthMade
  <2> QED
    BY <1>2, <2>1 DEF AuthNumbers
<1>5. row \in [exists : BOOLEAN, name : 0..MaxEdits, push : 0..MaxEdits, hash : 0..minted]
  <2>1. row.name \in 0..MaxEdits /\ row.push \in 0..MaxEdits /\ row.hash \in 0..minted
    BY <1>2, <1>3, RequestsAssumption DEF AuthNumbers, AuthBounds, AuthMade
  <2> QED
    BY <1>2, <2>1 DEF AuthNumbers
<1>6. ASSUME NEW q \in Slots
      PROVE  /\ authReq[q].op \in AuthOps \cup {Auth!Idle.op} /\ authReq[q].code \in 0..issued
             /\ authReq[q].token \in 0..minted /\ authReq[q].dirty \subseteq Auth!Columns
  <2>1. authReq[q] \in AuthRequest /\ AuthWithin(authReq[q], issued, minted, past.edits)
    BY DEF AuthTypeInv, AuthShape, AuthBounds
  <2>2. authReq[q].op \in AuthOps /\ authReq[q].dirty \subseteq Auth!Columns
    BY <2>1, AuthOpsAre DEF AuthRequest, AuthAllOps
  <2>3. authReq[q].code \in 0..issued /\ authReq[q].token \in 0..minted
    BY <1>2, <2>1 DEF AuthRequest, AuthWithin
  <2> QED
    BY <2>2, <2>3
<1>7. sms \in BOOLEAN /\ held \subseteq 1..minted
  BY <1>2 DEF AuthNumbers, AuthBounds, AuthMade
<1> QED
  BY <1>3, <1>4, <1>5, <1>6, <1>7 DEF Auth!TypeOK

(* The type invariant of the login and its sessions, for any number of requests, *)
(* OTPs, tokens and edits.                                                       *)
LEMMA AuthSessionTypes == Auth!Spec => []Auth!TypeOK
  BY AuthInitTypes, AuthNextTypes, AuthBoundsInit, AuthBoundsNext, AuthTypesOK, PTL DEF Auth!Spec

-----------------------------------------------------------------------------
(* The OTPs: what each step does to the stored code, its counter and the history of both *)
AuthInLock(r) == r.pc \in {"setLock", "delCode"}
AuthSpends(r, c) == /\ r.op = "login" /\ r.code = c /\ r.guess = c
                    /\ r.pc \in {"delCode", "delTries", "find", "insert", "sign", "reload", "save"}

AuthSameCode == UNCHANGED <<issued, elapsed>> /\ otp'.code = otp.code /\ otp'.ending = otp.ending
AuthSameTries == otp'.tries = otp.tries /\ otp'.until = otp.until
AuthSameCount == past'.wrong = past.wrong /\ past'.clears = past.clears
AuthSameUses == past'.uses = past.uses
AuthNoNewUse(h, r) == \A c \in 1..MaxCodes : AuthSpends(r, c) => AuthSpends(h, c)

(* A step that only reads the keys *)
AuthReads(h, r) ==
    /\ AuthSameCode /\ AuthSameTries /\ AuthSameCount /\ AuthSameUses
    /\ h.pc # "delTries" /\ r.pc # "delTries" /\ ~AuthInLock(h) /\ ~AuthInLock(r)
    /\ r.pc # "codeTtl"
    /\ r.pc = "expire" => h.pc = "codeTtl" /\ r.code = otp.code /\ otp.code > otp.ending
    /\ AuthNoNewUse(h, r)

(* A mismatch at the limit locks; the stored code may match *)
AuthLocksOut(h, r) ==
    /\ AuthSameCode /\ AuthSameTries /\ AuthSameCount /\ AuthSameUses
    /\ h.pc = "setLock" /\ r.pc = "delCode" /\ AuthNoNewUse(h, r)

AuthAccepts(h, r) ==
    /\ AuthSameCode /\ AuthSameTries /\ AuthSameCount /\ AuthSameUses
    /\ h.pc = "getCode" /\ r.pc = "delCode" /\ r.code = otp.code

AuthIssuesCode(h, r) ==
    /\ elapsed' = elapsed /\ issued' = issued + 1 /\ otp'.code = issued + 1 /\ otp'.ending = otp.ending
    /\ AuthSameTries /\ past'.wrong = 0 /\ past'.clears = 0 /\ AuthSameUses
    /\ h.pc = "setCode" /\ r.pc = "delTries" /\ AuthNoNewUse(h, r)

AuthClearsTries(h, r) ==
    /\ AuthSameCode /\ otp'.tries = 0 /\ otp'.until = 0
    /\ past'.wrong = past.wrong /\ past'.clears = Auth!Clears
    /\ AuthSameUses /\ h.pc = "delTries"
    /\ r.pc \notin {"delTries", "codeTtl", "expire"} /\ ~AuthInLock(r) /\ AuthNoNewUse(h, r)

AuthCounts(h, r) ==
    /\ AuthSameCode /\ otp'.tries = otp.tries + 1 /\ otp'.until = otp.until
    /\ past'.wrong = (IF h.code = otp.code THEN past.wrong + 1 ELSE past.wrong)
    /\ past'.clears = past.clears /\ AuthSameUses
    /\ h.pc = "incr" /\ r.pc \notin {"delTries", "expire"}
    /\ otp.tries + 1 >= 3 => r.pc = "setLock"
    /\ r.pc = "codeTtl" => otp.tries = 0
    /\ AuthNoNewUse(h, r)

AuthSetsEnd(h, r) ==
    /\ AuthSameCode /\ AuthSameCount /\ AuthSameUses
    /\ otp'.tries = otp.tries /\ otp.tries > 0 /\ otp'.until = h.code
    /\ h.pc = "expire" /\ r = Auth!Idle

AuthDeletesCode(h, r) ==
    /\ UNCHANGED <<issued, elapsed>> /\ otp'.code = 0 /\ otp'.ending = otp.ending
    /\ AuthSameTries /\ AuthSameCount /\ AuthSameUses
    /\ h.pc = "delCode" /\ r.pc = "delTries" /\ AuthNoNewUse(h, r)

AuthUses(h, r) ==
    /\ AuthSameCode /\ AuthSameTries /\ AuthSameCount /\ past'.uses = Auth!UsedBy(h, past.uses)
    /\ h.pc = "save" /\ r = Auth!Idle

AuthOtpStep(h, r) ==
    \/ AuthReads(h, r) \/ AuthLocksOut(h, r) \/ AuthAccepts(h, r) \/ AuthIssuesCode(h, r) \/ AuthClearsTries(h, r)
    \/ AuthCounts(h, r) \/ AuthSetsEnd(h, r) \/ AuthDeletesCode(h, r) \/ AuthUses(h, r)

(* A free slot spends no OTP. *)
LEMMA AuthIdleSpends == ~AuthInLock(Auth!Idle) /\ \A c \in Nat \ {0} : ~AuthSpends(Auth!Idle, c)
  BY AuthIdleShaped DEF AuthInLock, AuthSpends

(* Every step of a handler is one of these, to the stored OTP and its counter. *)
LEMMA AuthOtpSteps ==
    ASSUME AuthTypeInv, NEW q \in Slots, Auth!RequestStep(q)
    PROVE  /\ authReq[q].pc # "idle" /\ past'.alone = past.alone /\ past'.crashes = past.crashes
           /\ \E r \in AuthRequest : AuthMoves(q, r) /\ AuthShaped(r) /\ AuthOtpStep(authReq[q], r)
<1> DEFINE h == authReq[q]
<1>h. h \in AuthRequest /\ AuthShaped(h) /\ AuthShape /\ AuthNumbers /\ past \in AuthPast /\ h.code \in Nat
  BY DEF AuthTypeInv, AuthShape, AuthNumbers, AuthRequest
<1>i. Auth!Idle \in AuthRequest /\ AuthShaped(Auth!Idle) /\ Auth!Idle.pc = "idle" /\ AuthNoNewUse(h, Auth!Idle) /\ ~AuthInLock(Auth!Idle)
  BY AuthIdleShaped, AuthIdleSpends DEF AuthNoNewUse, Auth!NoCode
<1>n. \A r : /\ r.pc \notin {"delCode", "delTries", "find", "insert", "sign", "reload", "save"} => AuthNoNewUse(h, r)
  BY DEF AuthNoNewUse, AuthSpends
<1>s. ASSUME NEW r \in AuthRequest, AuthMoves(q, r) PROVE AuthShaped(r)
  <2>1. AuthShape'
    BY AuthShapeStep
  <2>2. authReq'[q] = r
    BY <1>h, <1>s DEF AuthMoves, AuthShape
  <2> QED
    BY <2>1, <2>2 DEF AuthShape
<1>q. ASSUME UNCHANGED <<issued, elapsed, otp, past>> PROVE AuthSameCode /\ AuthSameTries /\ AuthSameCount /\ AuthSameUses
  BY <1>q DEF AuthSameCode, AuthSameTries, AuthSameCount, AuthSameUses
<1>g. ASSUME NEW step \in AuthSteps, Auth!Goto(q, step)
      PROVE  \E r \in AuthRequest : /\ AuthMoves(q, r) /\ AuthFollows(h, r) /\ AuthKeeps(h, r) /\ r.code = h.code /\ r.pc = step
  BY <1>g, AuthGotoDoes
<1> DEFINE P == /\ h.pc # "idle" /\ past'.alone = past.alone /\ past'.crashes = past.crashes
                /\ \E r \in AuthRequest : AuthMoves(q, r) /\ AuthOtpStep(h, r)
<1> SUFFICES P
  BY <1>s
<1> HIDE DEF h
<1>1. CASE Auth!CheckCooldown(q) \/ Auth!CheckLock(q)
  <2>1. UNCHANGED <<issued, elapsed, otp, past>> /\ h.pc \in {"cooldown", "lock"}
        /\ \/ Auth!Ends(q) \/ Auth!Goto(q, "setCool") \/ Auth!Goto(q, "setCode") \/ Auth!Goto(q, "getCode")
    BY <1>1 DEF Auth!CheckCooldown, Auth!CheckLock, Auth!At, Auth!UNCHANGED_User, h
  <2>2. \E r \in AuthRequest : AuthMoves(q, r) /\ r.pc \in {"idle", "setCool", "setCode", "getCode"}
    BY <2>1, <1>g, AuthEndsDoes, <1>i DEF AuthEndsAs, AuthSteps
  <2>3. \E r \in AuthRequest : AuthMoves(q, r) /\ AuthReads(h, r)
    BY <2>1, <2>2, <1>q, <1>n DEF AuthReads, AuthInLock
  <2> QED
    BY <2>1, <2>3 DEF AuthOtpStep
<1>2. CASE Auth!SetCode(q)
  <2>1. /\ issued' = issued + 1 /\ otp' = [otp EXCEPT !.code = issued + 1] /\ elapsed' = elapsed
        /\ past' = [past EXCEPT !.wrong = 0, !.clears = 0] /\ h.pc = "setCode" /\ Auth!Goto(q, "delTries")
    BY <1>2 DEF Auth!SetCode, Auth!UNCHANGED_User, Auth!At, h
  <2>2. PICK r \in AuthRequest : AuthMoves(q, r) /\ r.op = h.op /\ r.pc = "delTries"
    BY <2>1, <1>g DEF AuthSteps, AuthFollows
  <2>3. AuthNoNewUse(h, r)
    BY <1>h, <2>1, <2>2 DEF AuthNoNewUse, AuthSpends, AuthShaped, AuthOpAt
  <2>4. /\ otp'.code = issued + 1 /\ otp'.ending = otp.ending /\ AuthSameTries /\ past'.wrong = 0 /\ past'.clears = 0 /\ AuthSameUses
        /\ past'.alone = past.alone /\ past'.crashes = past.crashes
    BY <1>h, <2>1 DEF AuthNumbers, AuthPast, AuthSameTries, AuthSameUses
  <2> QED
    BY <2>1, <2>2, <2>3, <2>4 DEF AuthOtpStep, AuthIssuesCode
<1>3. CASE Auth!DelTries(q)
  <2> DEFINE c == Auth!Clears
  <2>1. /\ UNCHANGED <<issued, elapsed>> /\ otp' = [otp EXCEPT !.tries = 0, !.until = Auth!NoCode]
        /\ past' = [past EXCEPT !.clears = c] /\ h.pc = "delTries"
        /\ \/ Auth!Ends(q)
           \/ Auth!Goto(q, "setCool")
           \/ Auth!Goto(q, "find") /\ h.guess = h.code /\ h.op = "login"
    <3>1. /\ UNCHANGED <<issued, elapsed>> /\ otp' = [otp EXCEPT !.tries = 0, !.until = Auth!NoCode]
          /\ past' = [past EXCEPT !.clears = c] /\ h.pc = "delTries"
      BY <1>3 DEF Auth!DelTries, Auth!UNCHANGED_User, Auth!At, h
    <3>2. h.op \in {"otp", "login"}
      BY <1>h, <3>1 DEF AuthShaped, AuthOpAt
    <3>3. h.op = "otp" => Auth!Goto(q, "setCool")
      BY <1>3 DEF Auth!DelTries, h
    <3>4. h.op = "login" /\ h.guess = h.code => Auth!Goto(q, "find")
      BY <1>3 DEF Auth!DelTries, h
    <3>5. h.op = "login" /\ h.guess # h.code => Auth!Ends(q)
      BY <1>3 DEF Auth!DelTries, h
    <3> QED
      BY <3>1, <3>2, <3>3, <3>4, <3>5
  <2>2. PICK r \in AuthRequest : /\ AuthMoves(q, r) /\ r.pc \in {"idle", "setCool", "find"} /\ AuthNoNewUse(h, r)
    <3>1. CASE Auth!Ends(q)
      BY <1>i, <3>1, AuthEndsDoes DEF AuthEndsAs
    <3>2. CASE Auth!Goto(q, "setCool")
      BY <1>n, <3>2, <1>g DEF AuthSteps
    <3>3. CASE Auth!Goto(q, "find") /\ h.guess = h.code /\ h.op = "login"
      <4>1. PICK r \in AuthRequest : AuthMoves(q, r) /\ AuthFollows(h, r) /\ r.code = h.code /\ r.pc = "find"
        BY <3>3, <1>g DEF AuthSteps
      <4>2. AuthNoNewUse(h, r)
        BY <2>1, <4>1 DEF AuthNoNewUse, AuthSpends, AuthFollows
      <4> QED
        BY <4>1, <4>2
    <3> QED
      BY <2>1, <3>1, <3>2, <3>3
  <2>3. c \in Nat
    BY <1>h, AuthClearsNat
  <2>4. /\ AuthSameCode /\ otp'.tries = 0 /\ otp'.until = 0 /\ past'.wrong = past.wrong /\ past'.clears = c /\ AuthSameUses
        /\ past'.alone = past.alone /\ past'.crashes = past.crashes
    <3> HIDE DEF c
    <3> QED
      BY <1>h, <2>1, <2>3 DEF AuthNumbers, AuthPast, AuthSameCode, AuthSameUses, Auth!NoCode
  <2> QED
    BY <2>1, <2>2, <2>4 DEF AuthOtpStep, AuthClearsTries, AuthInLock
<1>4. CASE Auth!SetCooldown(q)
  <2>1. /\ UNCHANGED <<issued, elapsed, past>> /\ h.pc = "setCool" /\ AuthEndsAs(q)
        /\ otp' = [otp EXCEPT !.cool = TRUE]
    BY <1>4, AuthEndsDoes DEF Auth!SetCooldown, Auth!UNCHANGED_User, Auth!At, h
  <2>2. AuthSameCode /\ AuthSameTries /\ AuthSameCount /\ AuthSameUses
    BY <1>h, <2>1 DEF AuthNumbers, AuthSameCode, AuthSameTries, AuthSameCount, AuthSameUses
  <2> QED
    BY <1>i, <2>1, <2>2 DEF AuthOtpStep, AuthReads, AuthInLock, AuthEndsAs
<1>5. CASE Auth!GetCode(q)
  <2>1. UNCHANGED <<issued, elapsed, otp, past>> /\ h.pc = "getCode"
    BY <1>5 DEF Auth!GetCode, Auth!At, Auth!UNCHANGED_User, h
  <2>2. CASE AuthEndsAs(q)
    BY <1>i, <1>q, <2>1, <2>2 DEF AuthEndsAs, AuthOtpStep, AuthReads, AuthInLock
  <2>3. ASSUME NEW r \in AuthRequest, AuthMoves(q, r), r.code = otp.code,
               r.pc = IF otp.code = r.guess THEN "delCode" ELSE "incr"
        PROVE  P
    <3>1. CASE r.pc = "delCode"
      BY <1>q, <2>1, <2>3, <3>1 DEF AuthOtpStep, AuthAccepts
    <3>2. CASE r.pc = "incr"
      BY <1>q, <1>n, <2>1, <2>3, <3>2 DEF AuthOtpStep, AuthReads, AuthInLock
    <3> QED
      BY <2>3, <3>1, <3>2
  <2> QED
    BY <1>5, <2>2, <2>3, AuthGetCodeDoes DEF h
<1>6. CASE Auth!IncrTries(q)
  <2> DEFINE w == IF h.code = otp.code THEN past.wrong + 1 ELSE past.wrong
  <2>1. /\ otp' = [otp EXCEPT !.tries = otp.tries + 1] /\ past' = [past EXCEPT !.wrong = w]
        /\ UNCHANGED <<issued, elapsed>> /\ h.pc = "incr"
    BY <1>6 DEF Auth!IncrTries, Auth!UNCHANGED_User, Auth!At, h
  <2>2. PICK r \in AuthRequest : /\ AuthMoves(q, r) /\ r.pc \in {"idle", "codeTtl", "setLock"}
                                 /\ otp.tries + 1 >= 3 => r.pc = "setLock"
                                 /\ r.pc = "codeTtl" => otp.tries = 0
    <3>1. otp.tries \in Nat
      BY <1>h DEF AuthNumbers
    <3>2. CASE otp.tries + 1 # 1 /\ ~Auth!Locks(otp.tries + 1) /\ AuthEndsAs(q)
      BY <1>i, <3>1, <3>2 DEF AuthEndsAs, Auth!Locks, Auth!MAX_OTP_ATTEMPTS
    <3>3. ASSUME NEW r \in AuthRequest, AuthMoves(q, r), r.pc = IF otp.tries + 1 = 1 THEN "codeTtl" ELSE "setLock"
          PROVE  \E x \in AuthRequest : /\ AuthMoves(q, x) /\ x.pc \in {"idle", "codeTtl", "setLock"}
                                        /\ otp.tries + 1 >= 3 => x.pc = "setLock"
                                        /\ x.pc = "codeTtl" => otp.tries = 0
      BY <3>1, <3>3
    <3> QED
      BY <1>6, <3>2, <3>3, AuthIncrTriesDoes
  <2>3. /\ AuthSameCode /\ otp'.tries = otp.tries + 1 /\ otp'.until = otp.until /\ past'.wrong = w
        /\ past'.clears = past.clears /\ AuthSameUses /\ past'.alone = past.alone /\ past'.crashes = past.crashes
    <3> HIDE DEF w
    <3> QED
      BY <1>h, <2>1 DEF AuthNumbers, AuthPast, AuthSameCode, AuthSameUses
  <2> QED
    BY <1>n, <2>1, <2>2, <2>3 DEF AuthOtpStep, AuthCounts
<1>7. CASE Auth!ReadCodeTtl(q)
  <2>1. UNCHANGED <<issued, elapsed, otp, past>> /\ h.pc = "codeTtl"
    BY <1>7 DEF Auth!ReadCodeTtl, Auth!At, Auth!UNCHANGED_User, h
  <2>2. CASE AuthEndsAs(q)
    BY <1>i, <1>q, <2>1, <2>2 DEF AuthEndsAs, AuthOtpStep, AuthReads, AuthInLock
  <2>3. ASSUME NEW r \in AuthRequest, AuthMoves(q, r), r.code = otp.code, r.pc = "expire", otp.code > otp.ending
        PROVE  P
    BY <1>q, <1>n, <2>1, <2>3 DEF AuthOtpStep, AuthReads, AuthInLock
  <2> QED
    BY <1>7, <2>2, <2>3, AuthReadCodeTtlDoes
<1>8. CASE Auth!ExpireTries(q)
  <2>1. /\ UNCHANGED <<issued, elapsed, past>> /\ h.pc = "expire" /\ AuthEndsAs(q)
        /\ otp' = IF otp.tries > 0 THEN [otp EXCEPT !.until = h.code] ELSE otp
    BY <1>8, AuthEndsDoes DEF Auth!ExpireTries, Auth!UNCHANGED_User, Auth!At, h
  <2>2. CASE otp.tries > 0
    <3>1. AuthSameCode /\ AuthSameCount /\ AuthSameUses /\ otp'.tries = otp.tries /\ otp'.until = h.code
      BY <1>h, <2>1, <2>2 DEF AuthNumbers, AuthSameCode, AuthSameCount, AuthSameUses
    <3> QED
      BY <1>i, <2>1, <2>2, <3>1 DEF AuthOtpStep, AuthSetsEnd, AuthEndsAs
  <2>3. CASE ~(otp.tries > 0)
    BY <1>i, <1>q, <2>1, <2>3 DEF AuthEndsAs, AuthOtpStep, AuthReads, AuthInLock
  <2> QED
    BY <2>2, <2>3
<1>9. CASE Auth!SetLock(q)
  <2>1. /\ UNCHANGED <<issued, elapsed, past>> /\ h.pc = "setLock" /\ Auth!Goto(q, "delCode")
        /\ otp' = [otp EXCEPT !.lock = TRUE]
    BY <1>9 DEF Auth!SetLock, Auth!UNCHANGED_User, Auth!At, h
  <2>2. AuthSameCode /\ AuthSameTries /\ AuthSameCount /\ AuthSameUses
    BY <1>h, <2>1 DEF AuthNumbers, AuthSameCode, AuthSameTries, AuthSameCount, AuthSameUses
  <2>3. PICK r \in AuthRequest : AuthMoves(q, r) /\ AuthFollows(h, r) /\ r.code = h.code /\ r.pc = "delCode"
    BY <2>1, <1>g DEF AuthSteps
  <2>4. AuthNoNewUse(h, r)
    BY <1>h, <2>1, <2>3 DEF AuthNoNewUse, AuthSpends, AuthFollows, AuthShaped, AuthCodeRead
  <2> QED
    BY <2>1, <2>2, <2>3, <2>4 DEF AuthOtpStep, AuthLocksOut
<1>10. CASE Auth!DelCode(q)
  <2>1. /\ UNCHANGED <<issued, elapsed, past>> /\ h.pc = "delCode" /\ Auth!Goto(q, "delTries")
        /\ otp' = [otp EXCEPT !.code = 0]
    BY <1>10 DEF Auth!DelCode, Auth!Spent, Auth!NoCode, Auth!UNCHANGED_User, Auth!At, h
  <2>2. UNCHANGED <<issued, elapsed>> /\ otp'.code = 0 /\ otp'.ending = otp.ending /\ AuthSameTries /\ AuthSameCount /\ AuthSameUses
    BY <1>h, <2>1 DEF AuthNumbers, AuthSameTries, AuthSameCount, AuthSameUses
  <2>3. PICK r \in AuthRequest : AuthMoves(q, r) /\ AuthFollows(h, r) /\ r.code = h.code /\ r.pc = "delTries"
    BY <2>1, <1>g DEF AuthSteps
  <2>4. AuthNoNewUse(h, r)
    BY <2>1, <2>3 DEF AuthNoNewUse, AuthSpends, AuthFollows
  <2> QED
    BY <2>1, <2>2, <2>3, <2>4 DEF AuthOtpStep, AuthDeletesCode
<1>11. CASE Auth!FindUser(q)
  <2>1. UNCHANGED <<issued, elapsed, otp>> /\ h.pc = "find"
    BY <1>11 DEF Auth!FindUser, Auth!At, Auth!UNCHANGED_User, h
  <2>2. \/ past' = [past EXCEPT !.refused = @ \cup {Auth!Cause(h)}]
        \/ past' = past
        \/ past' = [past EXCEPT !.edits = @ + 1]
    BY <1>11, AuthFindUserDoes, Zenon DEF h
  <2>3. /\ AuthSameCode /\ AuthSameTries /\ AuthSameCount /\ AuthSameUses
        /\ past'.alone = past.alone /\ past'.crashes = past.crashes
    <3>1. /\ past'.wrong = past.wrong /\ past'.clears = past.clears /\ past'.uses = past.uses
          /\ past'.alone = past.alone /\ past'.crashes = past.crashes
      <4>1. CASE past' = [past EXCEPT !.refused = @ \cup {Auth!Cause(h)}]
        <5> DEFINE more == past.refused \cup {Auth!Cause(h)}
        <5>1. past' = [past EXCEPT !.refused = more]
          BY <4>1
        <5> HIDE DEF more
        <5> QED
          BY <1>h, <5>1 DEF AuthPast
      <4>2. CASE past' = past
        BY <4>2
      <4>3. CASE past' = [past EXCEPT !.edits = @ + 1]
        BY <1>h, <4>3 DEF AuthPast
      <4> QED
        BY <2>2, <4>1, <4>2, <4>3
    <3> QED
      BY <1>h, <2>1, <3>1 DEF AuthSameCode, AuthSameTries, AuthSameCount, AuthSameUses
  <2>4. PICK r \in AuthRequest : /\ AuthMoves(q, r) /\ r.pc \in {"idle", "sign", "insert", "reload"}
                                 /\ r = Auth!Idle \/ (AuthFollows(h, r) /\ r.code = h.code)
    <3>1. CASE AuthEndsAs(q)
      BY <1>i, <3>1 DEF AuthEndsAs
    <3>2. ASSUME NEW r \in AuthRequest, AuthMoves(q, r), AuthFollows(h, r), r.code = h.code,
                 r.pc \in {"sign", "insert", "reload"}
          PROVE  \E x \in AuthRequest : /\ AuthMoves(q, x) /\ x.pc \in {"idle", "sign", "insert", "reload"}
                                        /\ x = Auth!Idle \/ (AuthFollows(h, x) /\ x.code = h.code)
      BY <3>2
    <3>3. \/ AuthEndsAs(q)
          \/ \E r \in AuthRequest : /\ AuthMoves(q, r) /\ AuthFollows(h, r) /\ r.code = h.code
                                    /\ r.pc \in {"sign", "insert", "reload"}
      <4>1. (IF h.op = "refresh" \/ row.exists THEN "sign" ELSE "insert") \in {"sign", "insert", "reload"}
        OBVIOUS
      <4> QED
        BY <1>11, <4>1, AuthFindUserDoes, Zenon DEF h
    <3> QED
      BY <3>1, <3>2, <3>3
  <2>5. AuthNoNewUse(h, r)
    BY <1>i, <2>1, <2>4 DEF AuthNoNewUse, AuthSpends, AuthFollows
  <2> QED
    BY <2>1, <2>3, <2>4, <2>5 DEF AuthOtpStep, AuthReads, AuthInLock
<1>12. CASE Auth!InsertUser(q) \/ Auth!Sign(q) \/ Auth!ReloadUser(q)
  <2>1. UNCHANGED <<issued, elapsed, otp, past>> /\ h.pc \in {"insert", "sign", "reload"}
    BY <1>12 DEF Auth!InsertUser, Auth!Sign, Auth!ReloadUser, Auth!At, Auth!UNCHANGED_User, h
  <2>2. PICK r \in AuthRequest : /\ AuthMoves(q, r) /\ r.pc \in {"idle", "sign", "reload", "save"}
                                 /\ r = Auth!Idle \/ (AuthFollows(h, r) /\ r.code = h.code)
    <3>1. CASE Auth!InsertUser(q)
      <4>1. Auth!Ends(q) \/ Auth!Goto(q, "sign")
        BY <3>1 DEF Auth!InsertUser
      <4> QED
        <5>1. CASE Auth!Ends(q)
          BY <5>1, <1>i, AuthEndsDoes DEF AuthEndsAs
        <5>2. CASE Auth!Goto(q, "sign")
          BY <5>2, <1>g DEF AuthSteps
        <5> QED
          BY <4>1, <5>1, <5>2
    <3>2. CASE Auth!Sign(q)
      BY <3>2, AuthSignDoes DEF h
    <3>3. CASE Auth!ReloadUser(q)
      BY <3>3, AuthReloadUserDoes DEF h
    <3> QED
      BY <1>12, <3>1, <3>2, <3>3
  <2>3. AuthNoNewUse(h, r)
    BY <1>i, <2>1, <2>2 DEF AuthNoNewUse, AuthSpends, AuthFollows
  <2> QED
    BY <1>q, <2>1, <2>2, <2>3 DEF AuthOtpStep, AuthReads, AuthInLock
<1>13. CASE Auth!SaveUser(q)
  <2>1. UNCHANGED <<issued, elapsed, otp>> /\ h.pc = "save" /\ AuthEndsAs(q)
    BY <1>13, AuthEndsDoes DEF Auth!SaveUser, Auth!At, h
  <2>2. /\ past'.uses = Auth!UsedBy(h, past.uses) /\ past'.wrong = past.wrong /\ past'.clears = past.clears
        /\ past'.alone = past.alone /\ past'.crashes = past.crashes
    BY <1>13, AuthSaveDoes DEF h
  <2>3. AuthSameCode /\ AuthSameTries /\ AuthSameCount
    BY <2>1, <2>2 DEF AuthSameCode, AuthSameTries, AuthSameCount
  <2> QED
    BY <1>i, <2>1, <2>2, <2>3 DEF AuthOtpStep, AuthUses, AuthEndsAs
<1>14. CASE Auth!Logout(q)
  <2>1. UNCHANGED <<issued, elapsed, otp>> /\ h.pc = "logout" /\ AuthEndsAs(q) /\ past' = [past EXCEPT !.out = TRUE]
    BY <1>14, AuthEndsDoes DEF Auth!Logout, Auth!At, h
  <2>2. /\ AuthSameCode /\ AuthSameTries /\ AuthSameCount /\ AuthSameUses
        /\ past'.alone = past.alone /\ past'.crashes = past.crashes
    BY <1>h, <2>1 DEF AuthPast, AuthSameCode, AuthSameTries, AuthSameCount, AuthSameUses
  <2> QED
    BY <1>i, <2>1, <2>2 DEF AuthOtpStep, AuthReads, AuthInLock, AuthEndsAs
<1> QED
  BY <1>1, <1>2, <1>3, <1>4, <1>5, <1>6, <1>7, <1>8, <1>9, <1>10, <1>11, <1>12, <1>13, <1>14 DEF Auth!RequestStep

-----------------------------------------------------------------------------
(* The invariant of the OTPs *)
AuthLocking == {q \in Slots : AuthInLock(authReq[q])}
AuthClearing == \E q \in Slots : authReq[q].pc = "delTries"

AuthLonely == past.alone => \A p, q \in Slots : p # q => Auth!At(p, "idle") \/ Auth!At(q, "idle")

AuthExpiresOwn ==
    past.alone /\ otp.code # Auth!NoCode => \A q \in Slots : Auth!At(q, "expire") => authReq[q].code = otp.code

(* For any number of requests, with the stored OTP c, its counter t and the OTP u it ends *)
(* with, w wrong guesses, cl losses of the counter, cr deaths, l requests about to lock:  *)
(* two guesses for each loss, two in the counter, and one for each death and each lock    *)
(* under way.                                                                             *)
AuthCounted(c, t, u, w, cl, cr, l) ==
    /\ u # 0 => t > 0
    /\ c # 0 => w <= 2 * cl + (IF t < 2 THEN t ELSE 2) + l + cr

(* Alone, the counter is lost in the last half second of the OTP, or after a death: d, x, *)
(* y say that a request is about to wipe it, to set its end, or to read the TTL for that. *)
AuthLoses(c, e, u, w, cl, cr, d, x, y) ==
    /\ cl <= cr + (IF c <= e THEN 1 ELSE 0)
    /\ d => w = 0 /\ cl = 0
    /\ u = c => cl <= cr
    /\ u # 0 /\ u # c /\ ~d => cl + 1 <= cr
    /\ x => cl <= cr
    /\ y => u = 0

AuthSetting == \E q \in Slots : authReq[q].pc = "expire"
AuthTiming == \E q \in Slots : authReq[q].pc \in {"codeTtl", "expire"}

AuthGuesses ==
    /\ AuthCounted(otp.code, otp.tries, otp.until, past.wrong, past.clears, past.crashes, Cardinality(AuthLocking))
    /\ past.alone /\ otp.code # 0 =>
          AuthLoses(otp.code, otp.ending, otp.until, past.wrong, past.clears, past.crashes,
                    AuthClearing, AuthSetting, AuthTiming)

AuthSpending(c) == {q \in Slots : AuthSpends(authReq[q], c)}

AuthSpendings ==
    \A c \in 1..MaxCodes :
        /\ past.uses[c] + Cardinality(AuthSpending(c)) <= Cardinality(Slots)
        /\ past.alone => past.uses[c] + Cardinality(AuthSpending(c)) <= 1
        /\ c > issued => past.uses[c] = 0 /\ AuthSpending(c) = {}
        /\ otp.code = c => past.uses[c] = 0 /\ \A q \in AuthSpending(c) : Auth!At(q, "delCode")

AuthOtpInv == AuthLonely /\ AuthExpiresOwn /\ AuthGuesses /\ AuthSpendings

(* What the arithmetic needs of the types. *)
LEMMA AuthOtpNumbers ==
    ASSUME AuthTypeInv
    PROVE  /\ otp.code \in Nat /\ otp.tries \in Nat /\ otp.until \in Nat /\ issued \in Nat /\ elapsed \in Nat
           /\ otp.ending \in Nat
           /\ past.wrong \in Nat /\ past.clears \in Nat /\ past.alone \in BOOLEAN /\ past.crashes \in Nat
           /\ past.uses \in [1..MaxCodes -> Nat]
  BY DEF AuthTypeInv, AuthNumbers, AuthPast

(* How the number of requests about to lock follows the one that moves. *)
LEMMA AuthLockingMoves ==
    ASSUME AuthShape, NEW q \in Slots, NEW r, AuthMoves(q, r)
    PROVE  LET l == Cardinality(AuthLocking)
               m == Cardinality(AuthLocking')
           IN  /\ l \in Nat /\ m \in Nat /\ l <= m + 1
               /\ (AuthInLock(authReq[q]) => AuthInLock(r)) => l <= m
               /\ ~AuthInLock(authReq[q]) /\ AuthInLock(r) => l + 1 <= m
<1>1. \A p \in Slots : authReq'[p] = IF p = q THEN r ELSE authReq[p]
  BY DEF AuthMoves, AuthShape
<1>2. AuthLocking \in SUBSET Slots /\ AuthLocking' \in SUBSET Slots
  BY DEF AuthLocking
<1>3. AuthLocking \subseteq AuthLocking' \cup {q}
  BY <1>1 DEF AuthLocking
<1>4. (AuthInLock(authReq[q]) => AuthInLock(r)) => AuthLocking \in SUBSET AuthLocking'
  BY <1>1 DEF AuthLocking
<1>5. ~AuthInLock(authReq[q]) /\ AuthInLock(r) => q \in AuthLocking' /\ AuthLocking \subseteq AuthLocking' \ {q}
  BY <1>1 DEF AuthLocking
<1>6. Cardinality(AuthLocking) \in Nat /\ Cardinality(AuthLocking') \in Nat /\ Cardinality(AuthLocking) <= Cardinality(AuthLocking') + 1
  BY <1>2, <1>3, AuthOneMore
<1>7. (AuthInLock(authReq[q]) => AuthInLock(r)) => Cardinality(AuthLocking) <= Cardinality(AuthLocking')
  BY <1>2, <1>4, AuthFewer
<1>8. ~AuthInLock(authReq[q]) /\ AuthInLock(r) => Cardinality(AuthLocking) + 1 <= Cardinality(AuthLocking')
  BY <1>2, <1>5, AuthOneLess
<1> QED
  BY <1>6, <1>7, <1>8

(* A request that moves on disturbs nobody. *)
LEMMA AuthLonelyMoves ==
    ASSUME AuthTypeInv, AuthLonely, NEW q \in Slots, NEW r, AuthMoves(q, r), authReq[q].pc # "idle", past'.alone = past.alone
    PROVE  AuthLonely'
<1>1. \A p \in Slots : authReq'[p] = IF p = q THEN r ELSE authReq[p]
  BY DEF AuthMoves, AuthTypeInv, AuthShape
<1> QED
  BY <1>1 DEF AuthLonely, Auth!At

(* Alone, only the request that moves is wiping the counter, or setting its end. *)
LEMMA AuthClearingMoves ==
    ASSUME AuthTypeInv, AuthLonely, past.alone, NEW q \in Slots, NEW r, AuthMoves(q, r), authReq[q].pc # "idle"
    PROVE  /\ AuthClearing <=> authReq[q].pc = "delTries"
           /\ AuthClearing' <=> r.pc = "delTries"
           /\ AuthSetting <=> authReq[q].pc = "expire"
           /\ AuthSetting' <=> r.pc = "expire"
           /\ AuthTiming <=> authReq[q].pc \in {"codeTtl", "expire"}
           /\ AuthTiming' <=> r.pc \in {"codeTtl", "expire"}
<1>1. \A p \in Slots : authReq'[p] = IF p = q THEN r ELSE authReq[p]
  BY DEF AuthMoves, AuthTypeInv, AuthShape
<1>2. \A p \in Slots : p # q => authReq[p].pc = "idle"
  BY DEF AuthLonely, Auth!At
<1> QED
  BY <1>1, <1>2 DEF AuthClearing, AuthSetting, AuthTiming

(* Every step of a handler keeps the count of the wrong guesses ... *)
LEMMA AuthCountedStep ==
    ASSUME AuthTypeInv, AuthGuesses, NEW q \in Slots, NEW r \in AuthRequest, AuthMoves(q, r), AuthOtpStep(authReq[q], r),
           past'.crashes = past.crashes
    PROVE  AuthCounted(otp'.code, otp'.tries, otp'.until, past'.wrong, past'.clears, past'.crashes, Cardinality(AuthLocking'))
<1> DEFINE h == authReq[q]
           l == Cardinality(AuthLocking)
           m == Cardinality(AuthLocking')
           Goal == AuthCounted(otp'.code, otp'.tries, otp'.until, past'.wrong, past'.clears, past.crashes, m)
<1>n. /\ otp.code \in Nat /\ otp.tries \in Nat /\ otp.until \in Nat /\ past.wrong \in Nat
      /\ past.clears \in Nat /\ past.crashes \in Nat
  BY AuthOtpNumbers
<1>l. /\ l \in Nat /\ m \in Nat /\ l <= m + 1
      /\ (AuthInLock(h) => AuthInLock(r)) => l <= m
      /\ ~AuthInLock(h) /\ AuthInLock(r) => l + 1 <= m
  BY AuthLockingMoves DEF AuthTypeInv
<1>c. AuthCounted(otp.code, otp.tries, otp.until, past.wrong, past.clears, past.crashes, l)
  BY DEF AuthGuesses
<1>s. Auth!Clears = IF otp.code # 0 /\ past.wrong > 0 THEN past.clears + 1 ELSE past.clears
  BY AuthClearsNat DEF AuthTypeInv
<1> SUFFICES Goal
  OBVIOUS
<1> HIDE DEF h, l, m
<1>1. CASE AuthReads(h, r) \/ AuthLocksOut(h, r) \/ AuthAccepts(h, r) \/ AuthUses(h, r)
  <2>1. AuthSameCode /\ AuthSameTries /\ AuthSameCount /\ (AuthInLock(h) => AuthInLock(r))
    BY <1>1 DEF AuthReads, AuthLocksOut, AuthAccepts, AuthUses, AuthInLock
  <2>2. AuthCounted(otp.code, otp.tries, otp.until, past.wrong, past.clears, past.crashes, m)
    BY <1>n, <1>l, <1>c, <2>1 DEF AuthCounted
  <2> QED
    BY <2>1, <2>2 DEF AuthSameCode, AuthSameTries, AuthSameCount
<1>2. CASE AuthIssuesCode(h, r)
  <2>1. AuthSameTries /\ past'.wrong = 0 /\ past'.clears = 0
    BY <1>2 DEF AuthIssuesCode
  <2> QED
    BY <1>n, <1>l, <1>c, <2>1 DEF AuthCounted, AuthSameTries
<1>3. CASE AuthClearsTries(h, r)
  <2>1. /\ AuthSameCode /\ otp'.tries = 0 /\ otp'.until = 0 /\ past'.wrong = past.wrong
        /\ past'.clears = Auth!Clears /\ ~AuthInLock(h)
    BY <1>3 DEF AuthClearsTries, AuthInLock
  <2>2. AuthCounted(otp.code, 0, 0, past.wrong, Auth!Clears, past.crashes, m)
    BY <1>n, <1>l, <1>c, <1>s, <2>1 DEF AuthCounted
  <2> QED
    BY <2>1, <2>2 DEF AuthSameCode
<1>4. CASE AuthCounts(h, r)
  <2>1. /\ AuthSameCode /\ otp'.tries = otp.tries + 1 /\ otp'.until = otp.until
        /\ past'.wrong \in {past.wrong, past.wrong + 1} /\ past'.clears = past.clears
        /\ h.pc = "incr" /\ (otp.tries + 1 >= 3 => r.pc = "setLock")
    BY <1>4 DEF AuthCounts
  <2>2. ~AuthInLock(h) /\ (otp.tries + 1 >= 3 => AuthInLock(r))
    BY <2>1 DEF AuthInLock
  <2>3. /\ AuthCounted(otp.code, otp.tries + 1, otp.until, past.wrong + 1, past.clears, past.crashes, m)
        /\ AuthCounted(otp.code, otp.tries + 1, otp.until, past.wrong, past.clears, past.crashes, m)
    BY <1>n, <1>l, <1>c, <2>1, <2>2 DEF AuthCounted
  <2> QED
    BY <2>1, <2>3 DEF AuthSameCode
<1>5. CASE AuthSetsEnd(h, r)
  <2>1. /\ AuthSameCode /\ AuthSameCount /\ otp'.tries = otp.tries /\ otp.tries > 0 /\ ~AuthInLock(h)
    BY <1>5 DEF AuthSetsEnd, AuthInLock
  <2>2. AuthCounted(otp.code, otp.tries, otp'.until, past.wrong, past.clears, past.crashes, m)
    BY <1>n, <1>l, <1>c, <2>1 DEF AuthCounted
  <2> QED
    BY <2>1, <2>2 DEF AuthSameCode, AuthSameCount
<1>6. CASE AuthDeletesCode(h, r)
  <2>1. otp'.code = 0 /\ AuthSameTries /\ AuthSameCount
    BY <1>6 DEF AuthDeletesCode
  <2> QED
    BY <1>c, <2>1 DEF AuthCounted, AuthSameTries, AuthSameCount
<1> QED
  BY <1>1, <1>2, <1>3, <1>4, <1>5, <1>6 DEF AuthOtpStep, h

(* ... and that of the losses of the counter. *)
LEMMA AuthLosesStep ==
    ASSUME AuthTypeInv, AuthLonely, AuthExpiresOwn, AuthGuesses, NEW q \in Slots, NEW r \in AuthRequest, AuthMoves(q, r),
           AuthOtpStep(authReq[q], r), authReq[q].pc # "idle", past.alone, otp'.code # 0
    PROVE  AuthLoses(otp'.code, otp'.ending, otp'.until, past'.wrong, past'.clears, past.crashes,
                     AuthClearing', AuthSetting', AuthTiming')
<1> DEFINE h == authReq[q]
           d == r.pc = "delTries"
           x == r.pc = "expire"
           y == r.pc \in {"codeTtl", "expire"}
           Goal == AuthLoses(otp'.code, otp'.ending, otp'.until, past'.wrong, past'.clears, past.crashes, d, x, y)
<1>n. /\ otp.code \in Nat /\ otp.tries \in Nat /\ otp.until \in Nat /\ otp.ending \in Nat /\ past.wrong \in Nat
      /\ past.clears \in Nat /\ past.crashes \in Nat
  BY AuthOtpNumbers
<1>m. /\ AuthClearing <=> h.pc = "delTries"
      /\ AuthSetting <=> h.pc = "expire"
      /\ AuthTiming <=> h.pc \in {"codeTtl", "expire"}
      /\ (AuthClearing' <=> d) /\ (AuthSetting' <=> x) /\ (AuthTiming' <=> y)
  BY AuthClearingMoves
<1>t. otp.until # 0 => otp.tries > 0
  BY DEF AuthGuesses, AuthCounted
<1>c. otp.code # 0 => /\ past.clears <= past.crashes + (IF otp.code <= otp.ending THEN 1 ELSE 0)
                      /\ h.pc = "delTries" => past.wrong = 0 /\ past.clears = 0
                      /\ otp.until = otp.code => past.clears <= past.crashes
                      /\ otp.until # 0 /\ otp.until # otp.code /\ h.pc # "delTries" => past.clears + 1 <= past.crashes
                      /\ h.pc = "expire" => past.clears <= past.crashes
                      /\ h.pc \in {"codeTtl", "expire"} => otp.until = 0
  BY <1>m DEF AuthGuesses, AuthLoses
<1>x. otp.code # 0 /\ h.pc = "expire" => h.code = otp.code
  BY DEF AuthExpiresOwn, Auth!At, Auth!NoCode
<1>s. Auth!Clears = IF otp.code # 0 /\ past.wrong > 0 THEN past.clears + 1 ELSE past.clears
  BY AuthClearsNat DEF AuthTypeInv
<1> SUFFICES Goal
  BY <1>m DEF AuthLoses
<1> HIDE DEF h
<1>1. CASE AuthReads(h, r)
  <2>1. /\ otp'.code = otp.code /\ otp'.ending = otp.ending /\ otp'.until = otp.until
        /\ past'.wrong = past.wrong /\ past'.clears = past.clears
        /\ h.pc # "delTries" /\ r.pc # "delTries" /\ r.pc # "codeTtl"
        /\ r.pc = "expire" => h.pc = "codeTtl" /\ otp.code > otp.ending
    BY <1>1 DEF AuthReads, AuthSameCode, AuthSameTries, AuthSameCount
  <2> QED
    BY <1>n, <1>c, <2>1 DEF AuthLoses
<1>2. CASE AuthLocksOut(h, r) \/ AuthAccepts(h, r) \/ AuthUses(h, r)
  <2>1. /\ otp'.code = otp.code /\ otp'.ending = otp.ending /\ otp'.until = otp.until
        /\ past'.wrong = past.wrong /\ past'.clears = past.clears
        /\ h.pc # "delTries" /\ r.pc \in {"delCode", "idle"}
    BY <1>2, AuthIdleShaped DEF AuthLocksOut, AuthAccepts, AuthUses, AuthSameCode, AuthSameTries, AuthSameCount
  <2> QED
    BY <1>n, <1>c, <2>1 DEF AuthLoses
<1>3. CASE AuthIssuesCode(h, r)
  <2>1. past'.wrong = 0 /\ past'.clears = 0 /\ r.pc = "delTries"
    BY <1>3 DEF AuthIssuesCode
  <2> QED
    BY <1>n, <2>1 DEF AuthLoses
<1>4. CASE AuthClearsTries(h, r)
  <2>1. /\ otp'.code = otp.code /\ otp'.ending = otp.ending /\ otp'.until = 0
        /\ past'.wrong = past.wrong /\ past'.clears = Auth!Clears
        /\ h.pc = "delTries" /\ r.pc \notin {"delTries", "codeTtl", "expire"}
    BY <1>4 DEF AuthClearsTries, AuthSameCode
  <2> QED
    BY <1>n, <1>c, <1>s, <2>1 DEF AuthLoses
<1>5. CASE AuthCounts(h, r)
  <2>1. /\ otp'.code = otp.code /\ otp'.ending = otp.ending /\ otp'.until = otp.until
        /\ past'.clears = past.clears
        /\ h.pc = "incr" /\ r.pc \notin {"delTries", "expire"} /\ (r.pc = "codeTtl" => otp.tries = 0)
    BY <1>5 DEF AuthCounts, AuthSameCode
  <2>2. r.pc = "codeTtl" => otp.until = 0
    BY <1>n, <1>t, <2>1
  <2> QED
    BY <1>n, <1>c, <2>1, <2>2 DEF AuthLoses
<1>6. CASE AuthSetsEnd(h, r)
  <2>1. /\ otp'.code = otp.code /\ otp'.ending = otp.ending /\ otp'.until = h.code
        /\ past'.wrong = past.wrong /\ past'.clears = past.clears
        /\ h.pc = "expire" /\ r.pc = "idle"
    BY <1>6, AuthIdleShaped DEF AuthSetsEnd, AuthSameCode, AuthSameCount
  <2> QED
    BY <1>n, <1>c, <1>x, <2>1 DEF AuthLoses
<1>7. CASE AuthDeletesCode(h, r)
  BY <1>7 DEF AuthDeletesCode
<1> QED
  BY <1>1, <1>2, <1>3, <1>4, <1>5, <1>6, <1>7 DEF AuthOtpStep, h

LEMMA AuthGuessesStep ==
    ASSUME AuthTypeInv, AuthLonely, AuthExpiresOwn, AuthGuesses, NEW q \in Slots, NEW r \in AuthRequest, AuthMoves(q, r), AuthOtpStep(authReq[q], r),
           authReq[q].pc # "idle", past'.alone = past.alone, past'.crashes = past.crashes
    PROVE  AuthGuesses'
<1>1. past.alone /\ otp'.code # 0 =>
         AuthLoses(otp'.code, otp'.ending, otp'.until, past'.wrong, past'.clears, past.crashes,
                   AuthClearing', AuthSetting', AuthTiming')
  BY AuthLosesStep
<1> QED
  BY <1>1, AuthCountedStep DEF AuthGuesses

(* Alone, the counter is to end with the OTP it counts for. *)
LEMMA AuthExpiresStep ==
    ASSUME AuthTypeInv, AuthLonely, AuthExpiresOwn, NEW q \in Slots, NEW r \in AuthRequest, AuthMoves(q, r), AuthOtpStep(authReq[q], r),
           authReq[q].pc # "idle", past'.alone = past.alone
    PROVE  AuthExpiresOwn'
<1> SUFFICES ASSUME past.alone, otp'.code # 0, NEW p \in Slots, authReq'[p].pc = "expire"
             PROVE  authReq'[p].code = otp'.code
  BY DEF AuthExpiresOwn, Auth!At, Auth!NoCode
<1>1. \A x \in Slots : authReq'[x] = IF x = q THEN r ELSE authReq[x]
  BY DEF AuthMoves, AuthTypeInv, AuthShape
<1>2. p = q /\ r.pc = "expire"
  BY <1>1 DEF AuthLonely, Auth!At
<1>3. CASE AuthReads(authReq[q], r)
  BY <1>1, <1>2, <1>3 DEF AuthReads, AuthSameCode
<1>4. r.pc = "expire" => AuthReads(authReq[q], r)
  BY AuthIdleShaped DEF AuthOtpStep, AuthLocksOut, AuthAccepts, AuthIssuesCode, AuthClearsTries, AuthCounts, AuthSetsEnd, AuthDeletesCode, AuthUses
<1> QED
  BY <1>2, <1>3, <1>4

(* The uses of one OTP after a save. *)
LEMMA AuthUsedByOne ==
    ASSUME NEW uses \in [1..MaxCodes -> Nat], NEW h, h.op = "login" => h.code \in 1..MaxCodes, NEW c \in 1..MaxCodes
    PROVE  Auth!UsedBy(h, uses)[c] = IF h.op = "login" /\ h.code = c THEN uses[c] + 1 ELSE uses[c]
<1>1. CASE h.op = "login"
  <2> DEFINE k == h.code
             v == [uses EXCEPT ![k] = uses[k] + 1]
  <2>1. k \in 1..MaxCodes
    BY <1>1
  <2>2. v[c] = IF k = c THEN uses[c] + 1 ELSE uses[c]
    <3> HIDE DEF k
    <3> QED
      BY <2>1
  <2>3. Auth!UsedBy(h, uses) = v
    BY <1>1 DEF Auth!UsedBy
  <2> QED
    BY <1>1, <2>2, <2>3
<1>2. CASE h.op # "login"
  BY <1>2 DEF Auth!UsedBy
<1> QED
  BY <1>1, <1>2

(* How the number of requests that spend an OTP follows the one that moves. *)
LEMMA AuthSpendingCount ==
    ASSUME AuthTypeInv, NEW q \in Slots, NEW r, AuthMoves(q, r), NEW c
    PROVE  LET n == Cardinality(AuthSpending(c))
               m == Cardinality(AuthSpending(c)')
           IN  /\ n \in Nat /\ m \in Nat /\ m <= Cardinality(Slots) /\ Cardinality(Slots) \in Nat
               /\ (AuthSpends(r, c) => AuthSpends(authReq[q], c)) => m <= n
               /\ AuthSpends(authReq[q], c) /\ ~AuthSpends(r, c) => m + 1 <= n
<1>1. \A p \in Slots : authReq'[p] = IF p = q THEN r ELSE authReq[p]
  BY DEF AuthMoves, AuthTypeInv, AuthShape
<1>2. AuthSpending(c) \in SUBSET Slots /\ AuthSpending(c)' \in SUBSET Slots
  BY DEF AuthSpending
<1>3. (AuthSpends(r, c) => AuthSpends(authReq[q], c)) => AuthSpending(c)' \in SUBSET AuthSpending(c)
  BY <1>1 DEF AuthSpending
<1>4. AuthSpends(authReq[q], c) /\ ~AuthSpends(r, c) => q \in AuthSpending(c) /\ AuthSpending(c)' \subseteq AuthSpending(c) \ {q}
  BY <1>1 DEF AuthSpending
<1>5. Cardinality(AuthSpending(c)) \in Nat /\ Cardinality(AuthSpending(c)') \in Nat
      /\ Cardinality(AuthSpending(c)') <= Cardinality(Slots) /\ Cardinality(Slots) \in Nat
  <2>1. Slots \in SUBSET Slots
    OBVIOUS
  <2> QED
    BY <1>2, <2>1, AuthFewer
<1>6. (AuthSpends(r, c) => AuthSpends(authReq[q], c)) => Cardinality(AuthSpending(c)') <= Cardinality(AuthSpending(c))
  BY <1>2, <1>3, AuthFewer
<1>7. AuthSpends(authReq[q], c) /\ ~AuthSpends(r, c) => Cardinality(AuthSpending(c)') + 1 <= Cardinality(AuthSpending(c))
  BY <1>2, <1>4, AuthOneLess
<1> QED
  BY <1>5, <1>6, <1>7

(* Every step of a handler keeps the uses of each OTP in their bound: only who *)
(* has read it before it was deleted uses it.                                  *)
LEMMA AuthSpendingsStep ==
    ASSUME AuthTypeInv, AuthBounds, AuthLonely, AuthSpendings, NEW q \in Slots, NEW r \in AuthRequest, AuthMoves(q, r), AuthShaped(r),
           AuthOtpStep(authReq[q], r), authReq[q].pc # "idle", past'.alone = past.alone
    PROVE  AuthSpendings'
<1> DEFINE h == authReq[q]
<1>m. \A p \in Slots : authReq'[p] = IF p = q THEN r ELSE authReq[p]
  BY DEF AuthMoves, AuthTypeInv, AuthShape
<1>n. /\ otp.code \in Nat /\ issued \in Nat /\ past.alone \in BOOLEAN /\ past.uses \in [1..MaxCodes -> Nat]
      /\ otp.code <= issued
  BY AuthOtpNumbers DEF AuthBounds, AuthMade
<1>h. h \in AuthRequest /\ AuthShaped(h) /\ h.code \in Nat /\ h.code <= issued
  BY DEF AuthTypeInv, AuthShape, AuthRequest, AuthBounds, AuthWithin
<1>i. r.code \in Nat
  BY DEF AuthRequest
<1>mx. MaxCodes \in Nat
  BY RequestsAssumption
<1>b. issued <= MaxCodes
  BY <1>n, <1>mx, AuthFewer DEF AuthBounds, AuthCaps, AuthIssuing
<1> SUFFICES ASSUME NEW c \in 1..MaxCodes
             PROVE  /\ past'.uses[c] + Cardinality(AuthSpending(c)') <= Cardinality(Slots)
                    /\ past.alone => past'.uses[c] + Cardinality(AuthSpending(c)') <= 1
                    /\ c > issued' => past'.uses[c] = 0 /\ AuthSpending(c)' = {}
                    /\ otp'.code = c => past'.uses[c] = 0 /\ \A p \in AuthSpending(c)' : authReq'[p].pc = "delCode"
  BY DEF AuthSpendings, AuthSpending, Auth!At
<1>c. c \in Nat /\ c # 0
  BY <1>mx
<1> DEFINE n == Cardinality(AuthSpending(c))
           m == Cardinality(AuthSpending(c)')
           u == past.uses[c]
<1>s. /\ n \in Nat /\ m \in Nat /\ m <= Cardinality(Slots) /\ Cardinality(Slots) \in Nat
      /\ (AuthSpends(r, c) => AuthSpends(h, c)) => m <= n
      /\ AuthSpends(h, c) /\ ~AuthSpends(r, c) => m + 1 <= n
  BY AuthSpendingCount
<1>o. /\ u + n <= Cardinality(Slots) /\ (past.alone => u + n <= 1)
      /\ c > issued => u = 0 /\ AuthSpending(c) = {}
      /\ otp.code = c => u = 0 /\ \A p \in AuthSpending(c) : authReq[p].pc = "delCode"
      /\ u \in Nat
  BY <1>n DEF AuthSpendings, Auth!At
<1>e. (AuthSpends(r, c) => AuthSpends(h, c)) => AuthSpending(c)' \subseteq AuthSpending(c)
  BY <1>m DEF AuthSpending
<1>p. \A p \in AuthSpending(c)' : p \in Slots /\ (p = q => AuthSpends(r, c))
  BY <1>m DEF AuthSpending
<1> HIDE DEF n, m, u
(* Nobody starts to spend c, and the uses stay *)
<1>1. ASSUME AuthNoNewUse(h, r), past'.uses[c] = past.uses[c], issued' = issued,
             otp'.code = c => otp.code = c /\ (h.pc = "delCode" => r.pc = "delCode")
      PROVE  /\ past'.uses[c] + m <= Cardinality(Slots)
             /\ past.alone => past'.uses[c] + m <= 1
             /\ c > issued' => past'.uses[c] = 0 /\ AuthSpending(c)' = {}
             /\ otp'.code = c => past'.uses[c] = 0 /\ \A p \in AuthSpending(c)' : authReq'[p].pc = "delCode"
  <2>1. (AuthSpends(r, c) => AuthSpends(h, c)) /\ m <= n /\ AuthSpending(c)' \subseteq AuthSpending(c) /\ past'.uses[c] = u
    BY <1>1, <1>s, <1>e DEF AuthNoNewUse, u
  <2>3. otp'.code = c => \A p \in AuthSpending(c)' : authReq'[p].pc = "delCode"
    <3> SUFFICES ASSUME otp'.code = c, NEW p \in AuthSpending(c)' PROVE authReq'[p].pc = "delCode"
      OBVIOUS
    <3>1. authReq[p].pc = "delCode" /\ p \in Slots
      BY <1>1, <1>o, <1>p, <2>1
    <3> QED
      BY <1>1, <1>m, <3>1 DEF h
  <2>4. past'.uses[c] + m <= Cardinality(Slots) /\ (past.alone => past'.uses[c] + m <= 1)
    BY <1>s, <1>o, <2>1
  <2> QED
    BY <1>1, <1>o, <2>1, <2>3, <2>4
<1> HIDE DEF h
<1>2. CASE AuthReads(h, r) \/ AuthLocksOut(h, r) \/ AuthClearsTries(h, r) \/ AuthCounts(h, r)
  <2>1. AuthNoNewUse(h, r) /\ past'.uses = past.uses /\ issued' = issued /\ otp'.code = otp.code
        /\ h.pc # "delCode"
    BY <1>2 DEF AuthReads, AuthLocksOut, AuthClearsTries, AuthCounts, AuthSameCode, AuthSameUses, AuthInLock
  <2> QED
    BY <1>n, <1>1, <2>1 DEF m
<1>3. CASE AuthSetsEnd(h, r)
  <2>1. AuthNoNewUse(h, r)
    BY <1>3, AuthIdleSpends DEF AuthSetsEnd, AuthNoNewUse
  <2>2. past'.uses = past.uses /\ issued' = issued /\ otp'.code = otp.code /\ h.pc # "delCode"
    BY <1>3 DEF AuthSetsEnd, AuthSameCode, AuthSameUses
  <2> QED
    BY <1>n, <1>1, <2>1, <2>2 DEF m
<1>4. CASE AuthDeletesCode(h, r)
  BY <1>n, <1>c, <1>1, <1>4 DEF AuthDeletesCode, AuthSameUses, m
<1>5. CASE AuthIssuesCode(h, r)
  <2>1. AuthNoNewUse(h, r) /\ past'.uses = past.uses /\ issued' = issued + 1 /\ otp'.code = issued + 1 /\ h.pc # "delCode"
    BY <1>5 DEF AuthIssuesCode, AuthSameUses
  <2>2. AuthSpending(c)' \subseteq AuthSpending(c) /\ m <= n
    BY <1>e, <1>s, <2>1 DEF AuthNoNewUse
  <2>3. c > issued' => c > issued
    BY <1>n, <1>c, <2>1
  <2>4. otp'.code = c => c > issued
    BY <1>n, <1>c, <2>1
  <2> QED
    BY <1>n, <1>c, <1>o, <1>s, <2>1, <2>2, <2>3, <2>4 DEF m, u
<1>6. CASE AuthAccepts(h, r)
  <2>1. past'.uses = past.uses /\ issued' = issued /\ otp'.code = otp.code /\ h.pc = "getCode" /\ r.pc = "delCode"
        /\ r.code = otp.code
    BY <1>6 DEF AuthAccepts, AuthSameCode, AuthSameUses
  <2>2. CASE otp.code # c
    <3>2. ~AuthSpends(r, c)
      BY <2>1, <2>2 DEF AuthSpends
    <3>3. m <= n /\ AuthSpending(c)' \subseteq AuthSpending(c)
      BY <1>s, <1>e, <3>2
    <3> QED
      BY <1>n, <1>c, <1>o, <1>s, <2>1, <2>2, <3>3 DEF m, u
  <2>3. CASE otp.code = c
    <3>1. past'.uses[c] = 0 /\ c <= issued /\ ~(c > issued')
      BY <1>n, <1>c, <1>o, <2>1, <2>3 DEF u
    <3>2. past.alone => m <= 1
      <4> SUFFICES ASSUME past.alone PROVE m <= 1
        OBVIOUS
      <4>1. \A p \in Slots : p # q => authReq[p].pc = "idle"
        BY DEF AuthLonely, Auth!At
      <4>2. AuthSpending(c)' \subseteq {q}
        BY <1>m, <4>1 DEF AuthSpending, AuthSpends
      <4>3. {} \in SUBSET Slots /\ AuthSpending(c)' \in SUBSET Slots /\ AuthSpending(c)' \subseteq {} \cup {q}
        BY <4>2 DEF AuthSpending
      <4>4. m <= Cardinality({}) + 1
        BY <4>3, AuthOneMore DEF m
      <4> QED
        BY <4>4, FS_EmptySet
    <3>3. \A p \in AuthSpending(c)' : authReq'[p].pc = "delCode"
      <4> SUFFICES ASSUME NEW p \in AuthSpending(c)' PROVE authReq'[p].pc = "delCode"
        OBVIOUS
      <4>1. p \in Slots
        BY <1>p
      <4>2. CASE p = q
        BY <1>m, <2>1, <4>1, <4>2
      <4>3. CASE p # q
        BY <1>m, <1>o, <2>3, <4>1, <4>3 DEF AuthSpending
      <4> QED
        BY <4>2, <4>3
    <3> QED
      BY <1>s, <3>1, <3>2, <3>3 DEF m
  <2> QED
    BY <2>2, <2>3
<1>7. CASE AuthUses(h, r)
  <2>1. past'.uses = Auth!UsedBy(h, past.uses) /\ issued' = issued /\ otp'.code = otp.code /\ h.pc = "save" /\ r = Auth!Idle
    BY <1>7 DEF AuthUses, AuthSameCode
  <2>2. h.op = "login" => h.guess = h.code /\ h.code \in 1..MaxCodes
    <3>1. h.op = "login" => h.guess = h.code /\ h.code # 0
      BY <1>h, <2>1 DEF AuthShaped, AuthCodeRead, Auth!NoCode
    <3> QED
      BY <1>n, <1>b, <1>h, <1>mx, <3>1
  <2>3. past'.uses[c] = IF h.op = "login" /\ h.code = c THEN u + 1 ELSE u
    BY <1>n, <2>1, <2>2, AuthUsedByOne DEF u
  <2>4. ~AuthSpends(r, c)
    BY <1>c, <2>1, AuthIdleSpends
  <2>5. h.op = "login" /\ h.code = c <=> AuthSpends(h, c)
    BY <2>1, <2>2 DEF AuthSpends
  <2>6. m <= n /\ AuthSpending(c)' \subseteq AuthSpending(c) /\ (AuthSpends(h, c) => m + 1 <= n)
    BY <1>s, <1>e, <2>4
  <2>7. c > issued \/ otp.code = c => ~AuthSpends(h, c)
    <3>1. AuthSpends(h, c) => q \in AuthSpending(c)
      BY DEF AuthSpending, h
    <3> QED
      BY <1>o, <2>1, <3>1 DEF h
  <2>8. otp.code = c => \A p \in AuthSpending(c)' : authReq'[p].pc = "delCode"
    <3> SUFFICES ASSUME otp.code = c, NEW p \in AuthSpending(c)' PROVE authReq'[p].pc = "delCode"
      OBVIOUS
    <3>1. p \in Slots /\ p # q /\ authReq[p].pc = "delCode"
      BY <1>o, <1>p, <2>4, <2>6
    <3> QED
      BY <1>m, <3>1
  <2>9. past'.uses[c] + m <= Cardinality(Slots) /\ (past.alone => past'.uses[c] + m <= 1)
    BY <1>s, <1>o, <2>3, <2>5, <2>6
  <2> QED
    BY <1>n, <1>c, <1>o, <2>1, <2>3, <2>5, <2>6, <2>7, <2>8, <2>9 DEF m, u
<1> QED
  BY <1>2, <1>3, <1>4, <1>5, <1>6, <1>7 DEF AuthOtpStep, h, m

-----------------------------------------------------------------------------
(* A timer that leaves the stored OTP, or ends it, keeps all but the count. *)
LEMMA AuthOtpSameReq ==
    ASSUME UNCHANGED <<authReq, issued>>, past'.alone = past.alone, past'.uses = past.uses,
           otp'.code \in {otp.code, 0}, AuthLonely, AuthExpiresOwn, AuthSpendings, AuthTypeInv
    PROVE  AuthLonely' /\ AuthExpiresOwn' /\ AuthSpendings'
<1>1. AuthLonely'
  BY DEF AuthLonely, Auth!At
<1>2. AuthExpiresOwn'
  BY DEF AuthExpiresOwn, Auth!At, Auth!NoCode
<1>3. AuthSpendings'
  <2> SUFFICES ASSUME NEW c \in 1..MaxCodes
               PROVE  /\ past.uses[c] + Cardinality(AuthSpending(c)) <= Cardinality(Slots)
                      /\ past.alone => past.uses[c] + Cardinality(AuthSpending(c)) <= 1
                      /\ c > issued => past.uses[c] = 0 /\ AuthSpending(c) = {}
                      /\ otp'.code = c => past.uses[c] = 0 /\ \A q \in AuthSpending(c) : Auth!At(q, "delCode")
    BY DEF AuthSpendings, AuthSpending, Auth!At
  <2>1. c # 0
    BY RequestsAssumption
  <2> QED
    BY <2>1 DEF AuthSpendings
<1> QED
  BY <1>1, <1>2, <1>3

(* A new request keeps the OTPs guarded. *)
LEMMA AuthOtpBegin ==
    ASSUME AuthTypeInv, AuthOtpInv, NEW q \in Slots, NEW op \in AuthOps, NEW guess \in {Auth!NoCode, otp.code},
           NEW token \in held \cup {Auth!NoCode}, Auth!Begin(q, op, guess, token)
    PROVE  AuthOtpInv'
<1>0. guess \in Nat /\ token \in Nat
  BY DEF AuthTypeInv, AuthNumbers, Auth!NoCode
<1>1. PICK r \in AuthRequest : AuthMoves(q, r) /\ r.op = op /\ r.pc = Auth!FirstStep(op)
  BY <1>0, AuthBeginDoes
<1>2. /\ UNCHANGED <<otp, issued>> /\ authReq[q].pc = "idle"
      /\ past' = [past EXCEPT !.alone = past.alone /\ Auth!Busy = {}]
  BY DEF Auth!Begin, Auth!At
<1>3. /\ past'.wrong = past.wrong /\ past'.clears = past.clears /\ past'.crashes = past.crashes
      /\ past'.uses = past.uses /\ past'.alone = (past.alone /\ Auth!Busy = {})
  <2>1. past \in AuthPast /\ (past.alone /\ Auth!Busy = {}) \in BOOLEAN
    BY DEF AuthTypeInv, AuthNumbers, AuthPast
  <2> DEFINE a == past.alone /\ Auth!Busy = {}
  <2> HIDE DEF a
  <2> QED
    BY <1>2, <2>1 DEF AuthPast, a
<1>4. /\ r.pc \in {"cooldown", "lock", "logout", "find"} /\ ~AuthInLock(r) /\ r.pc # "delTries"
      /\ \A c \in 1..MaxCodes : ~AuthSpends(r, c)
  BY <1>1 DEF Auth!FirstStep, AuthInLock, AuthSpends
<1>5. \A p \in Slots : authReq'[p] = IF p = q THEN r ELSE authReq[p]
  BY <1>1 DEF AuthMoves, AuthTypeInv, AuthShape
<1>6. past'.alone => past.alone /\ \A p \in Slots : authReq[p].pc = "idle"
  BY <1>3 DEF Auth!Busy, Auth!At
<1>7. AuthLonely'
  BY <1>5, <1>6 DEF AuthLonely, Auth!At
<1>8. AuthExpiresOwn'
  BY <1>2, <1>3, <1>4, <1>5 DEF AuthOtpInv, AuthExpiresOwn, Auth!At
<1>9. /\ AuthLocking' = AuthLocking /\ (AuthClearing' <=> AuthClearing)
      /\ (AuthSetting' <=> AuthSetting) /\ (AuthTiming' <=> AuthTiming)
  BY <1>2, <1>4, <1>5 DEF AuthLocking, AuthInLock, AuthClearing, AuthSetting, AuthTiming
<1>10. AuthGuesses'
  BY <1>2, <1>3, <1>6, <1>9 DEF AuthOtpInv, AuthGuesses, AuthCounted, AuthLoses
<1>11. AuthSpendings'
  <2> SUFFICES ASSUME NEW c \in 1..MaxCodes
               PROVE  /\ past.uses[c] + Cardinality(AuthSpending(c)') <= Cardinality(Slots)
                      /\ past.alone => past.uses[c] + Cardinality(AuthSpending(c)') <= 1
                      /\ c > issued => past.uses[c] = 0 /\ AuthSpending(c)' = {}
                      /\ otp.code = c => past.uses[c] = 0 /\ \A p \in AuthSpending(c)' : authReq'[p].pc = "delCode"
    BY <1>2, <1>3, <1>6 DEF AuthSpendings, Auth!At, AuthSpending
  <2>1. ~AuthSpends(authReq[q], c)
    BY <1>2 DEF AuthSpends
  <2>2. AuthSpending(c)' = AuthSpending(c)
    BY <1>4, <1>5, <2>1 DEF AuthSpending
  <2>3. \A p \in AuthSpending(c) : p # q /\ p \in Slots
    BY <2>1 DEF AuthSpending
  <2> QED
    BY <1>5, <2>2, <2>3 DEF AuthOtpInv, AuthSpendings, Auth!At
<1> QED
  BY <1>7, <1>8, <1>10, <1>11 DEF AuthOtpInv

(* A request that dies between counting and locking costs one guess, and one that  *)
(* dies before it wipes the counter, or sets its end, costs the counter.            *)
LEMMA AuthOtpCrash ==
    ASSUME AuthTypeInv, AuthOtpInv, NEW q \in Slots, Auth!RefreshFails(q) \/ Auth!Crash(q)
    PROVE  AuthOtpInv'
<1>n. /\ otp.code \in Nat /\ otp.tries \in Nat /\ otp.until \in Nat /\ otp.ending \in Nat /\ past.wrong \in Nat
      /\ past.clears \in Nat /\ past.alone \in BOOLEAN /\ past.crashes \in Nat
  BY AuthOtpNumbers
<1>1. /\ UNCHANGED <<otp, issued, elapsed>> /\ authReq[q].pc # "idle" /\ AuthEndsAs(q)
  BY AuthEndsDoes DEF Auth!RefreshFails, Auth!Crash, Auth!At
<1>2. /\ past'.wrong = past.wrong /\ past'.clears = past.clears /\ past'.crashes = past.crashes + 1
      /\ past'.uses = past.uses /\ past'.alone = past.alone
  BY AuthFailureDoes
<1>3. AuthMoves(q, Auth!Idle) /\ ~AuthInLock(Auth!Idle) /\ Auth!Idle.pc = "idle"
  BY <1>1, AuthIdleShaped, AuthIdleSpends DEF AuthEndsAs
<1>4. \A p \in Slots : authReq'[p] = IF p = q THEN Auth!Idle ELSE authReq[p]
  BY <1>3 DEF AuthMoves, AuthTypeInv, AuthShape
<1>5. AuthLonely'
  BY <1>1, <1>2, <1>3, AuthLonelyMoves DEF AuthOtpInv
<1>6. AuthExpiresOwn'
  BY <1>1, <1>2, <1>3, <1>4 DEF AuthOtpInv, AuthExpiresOwn, Auth!At
<1>7. AuthGuesses'
  <2> DEFINE l == Cardinality(AuthLocking)
             m == Cardinality(AuthLocking')
  <2>1. l \in Nat /\ m \in Nat /\ l <= m + 1
    BY <1>3, AuthLockingMoves DEF AuthTypeInv
  <2>2. past.alone => ~AuthClearing' /\ ~AuthSetting' /\ ~AuthTiming'
    BY <1>1, <1>3, AuthClearingMoves DEF AuthOtpInv
  <2>3. AuthCounted(otp.code, otp.tries, otp.until, past.wrong, past.clears, past.crashes, l)
    BY DEF AuthOtpInv, AuthGuesses
  <2> HIDE DEF l, m
  <2>4. AuthCounted(otp.code, otp.tries, otp.until, past.wrong, past.clears, past.crashes + 1, m)
    BY <1>n, <2>1, <2>3 DEF AuthCounted
  <2>5. ASSUME past.alone, otp.code # 0
        PROVE  AuthLoses(otp.code, otp.ending, otp.until, past.wrong, past.clears, past.crashes + 1, FALSE, FALSE, FALSE)
    <3>1. AuthLoses(otp.code, otp.ending, otp.until, past.wrong, past.clears, past.crashes,
                    AuthClearing, AuthSetting, AuthTiming)
      BY <2>5 DEF AuthOtpInv, AuthGuesses
    <3> QED
      BY <1>n, <3>1 DEF AuthLoses
  <2>6. past.alone /\ otp.code # 0 =>
           AuthLoses(otp.code, otp.ending, otp.until, past.wrong, past.clears, past.crashes + 1,
                     AuthClearing', AuthSetting', AuthTiming')
    BY <2>2, <2>5 DEF AuthLoses
  <2> QED
    BY <1>1, <1>2, <2>4, <2>6 DEF AuthGuesses, m
<1>8. AuthSpendings'
  <2> SUFFICES ASSUME NEW c \in 1..MaxCodes
               PROVE  /\ past.uses[c] + Cardinality(AuthSpending(c)') <= Cardinality(Slots)
                      /\ past.alone => past.uses[c] + Cardinality(AuthSpending(c)') <= 1
                      /\ c > issued => past.uses[c] = 0 /\ AuthSpending(c)' = {}
                      /\ otp.code = c => past.uses[c] = 0 /\ \A p \in AuthSpending(c)' : authReq'[p].pc = "delCode"
    BY <1>1, <1>2 DEF AuthSpendings, Auth!At, AuthSpending
  <2>1. ~AuthSpends(Auth!Idle, c)
    BY AuthIdleSpends, RequestsAssumption
  <2>2. LET n == Cardinality(AuthSpending(c))
            m == Cardinality(AuthSpending(c)')
        IN  n \in Nat /\ m \in Nat /\ m <= n
    BY <1>3, <2>1, AuthSpendingCount
  <2>3. AuthSpending(c)' \subseteq AuthSpending(c) /\ \A p \in AuthSpending(c)' : p # q /\ p \in Slots
    BY <1>4, <2>1 DEF AuthSpending
  <2>4. past.uses[c] \in Nat /\ Cardinality(Slots) \in Nat
    <3>1. Slots \in SUBSET Slots
      OBVIOUS
    <3> QED
      BY <3>1, AuthOtpNumbers, AuthFewer
  <2>5. /\ past.uses[c] + Cardinality(AuthSpending(c)) <= Cardinality(Slots)
        /\ past.alone => past.uses[c] + Cardinality(AuthSpending(c)) <= 1
        /\ c > issued => past.uses[c] = 0 /\ AuthSpending(c) = {}
        /\ otp.code = c => past.uses[c] = 0 /\ \A p \in AuthSpending(c) : authReq[p].pc = "delCode"
    BY DEF AuthOtpInv, AuthSpendings, Auth!At
  <2>6. past.uses[c] + Cardinality(AuthSpending(c)') <= Cardinality(Slots)
        /\ (past.alone => past.uses[c] + Cardinality(AuthSpending(c)') <= 1)
    BY <2>2, <2>4, <2>5
  <2> QED
    BY <1>4, <2>3, <2>5, <2>6
<1> QED
  BY <1>5, <1>6, <1>7, <1>8 DEF AuthOtpInv

(* The TTLs keep the OTPs guarded: the counter ends before the OTP it counts for in *)
(* the OTP's last half second only.                                                 *)
LEMMA AuthOtpTimers ==
    ASSUME AuthTypeInv, AuthOtpInv, Auth!NearEnd \/ Auth!Elapse \/ Auth!TriesEnd \/ Auth!TimerEnds
    PROVE  AuthOtpInv'
<1>n. /\ otp.code \in Nat /\ otp.tries \in Nat /\ otp.until \in Nat /\ otp.ending \in Nat /\ past.wrong \in Nat
      /\ past.clears \in Nat /\ past.alone \in BOOLEAN /\ past.crashes \in Nat
  BY AuthOtpNumbers
<1>p. past \in AuthPast /\ Auth!Clears \in Nat
      /\ Auth!Clears = IF otp.code # 0 /\ past.wrong > 0 THEN past.clears + 1 ELSE past.clears
  BY AuthClearsNat DEF AuthTypeInv, AuthNumbers
<1>e. \/ past' = past
      \/ past' = [past EXCEPT !.clears = Auth!Clears]
  BY DEF Auth!NearEnd, Auth!Elapse, Auth!TriesEnd, Auth!TimerEnds
<1>s. /\ UNCHANGED <<authReq, issued>> /\ past'.alone = past.alone /\ past'.uses = past.uses
      /\ past'.wrong = past.wrong /\ past'.crashes = past.crashes
      /\ otp'.code \in {otp.code, 0}
  <2>1. /\ past'.alone = past.alone /\ past'.uses = past.uses
        /\ past'.wrong = past.wrong /\ past'.crashes = past.crashes
    BY <1>p, <1>e DEF AuthPast
  <2>2. UNCHANGED <<authReq, issued>> /\ otp'.code \in {otp.code, 0}
    BY DEF Auth!NearEnd, Auth!Elapse, Auth!TriesEnd, Auth!TimerEnds, AuthTypeInv, AuthNumbers, Auth!NoCode
  <2> QED
    BY <2>1, <2>2
<1>1. AuthLonely' /\ AuthExpiresOwn' /\ AuthSpendings'
  BY <1>s, AuthOtpSameReq DEF AuthOtpInv
<1> DEFINE l == Cardinality(AuthLocking)
<1>l. l \in Nat
  BY AuthFewer DEF AuthLocking
<1>c. /\ AuthCounted(otp.code, otp.tries, otp.until, past.wrong, past.clears, past.crashes, l)
      /\ past.alone /\ otp.code # 0 =>
            AuthLoses(otp.code, otp.ending, otp.until, past.wrong, past.clears, past.crashes,
                      AuthClearing, AuthSetting, AuthTiming)
  BY DEF AuthOtpInv, AuthGuesses
<1>g. /\ AuthCounted(otp'.code, otp'.tries, otp'.until, past.wrong, past'.clears, past.crashes, l)
      /\ past.alone /\ otp'.code # 0 =>
            AuthLoses(otp'.code, otp'.ending, otp'.until, past.wrong, past'.clears, past.crashes,
                      AuthClearing, AuthSetting, AuthTiming)
      => AuthGuesses'
  BY <1>s DEF AuthGuesses, AuthLocking, AuthClearing, AuthSetting, AuthTiming
<1>y. AuthSetting => AuthTiming
  BY DEF AuthSetting, AuthTiming
<1> HIDE DEF l
<1>2. CASE Auth!NearEnd \/ Auth!Elapse \/ Auth!TimerEnds
  <2>1. /\ otp'.tries = otp.tries /\ otp'.until = otp.until /\ past'.clears = past.clears
        /\ otp'.ending \in {otp.ending, otp.ending + 1}
    BY <1>2 DEF Auth!NearEnd, Auth!Elapse, Auth!TimerEnds, AuthTypeInv, AuthNumbers
  <2>2. AuthCounted(otp'.code, otp'.tries, otp'.until, past.wrong, past'.clears, past.crashes, l)
    BY <1>s, <1>c, <2>1 DEF AuthCounted
  <2>3. ASSUME past.alone, otp'.code # 0
        PROVE  AuthLoses(otp'.code, otp'.ending, otp'.until, past.wrong, past'.clears, past.crashes,
                         AuthClearing, AuthSetting, AuthTiming)
    <3>1. otp'.code = otp.code /\ otp.code # 0
      BY <1>s, <2>3
    <3> QED
      BY <1>n, <1>c, <2>1, <2>3, <3>1 DEF AuthLoses
  <2> QED
    BY <1>1, <1>g, <2>2, <2>3 DEF AuthOtpInv
<1>3. CASE Auth!TriesEnd
  <2>1. /\ otp.until \in 1..otp.ending /\ otp'.tries = 0 /\ otp'.until = 0 /\ otp'.code = otp.code
        /\ otp'.ending = otp.ending
    BY <1>3 DEF Auth!TriesEnd, Auth!NoCode, AuthTypeInv, AuthNumbers
  <2>2. past'.clears = Auth!Clears
    BY <1>3, <1>p DEF Auth!TriesEnd, AuthPast
  <2>3. AuthCounted(otp.code, 0, 0, past.wrong, Auth!Clears, past.crashes, l)
    BY <1>n, <1>l, <1>c, <1>p DEF AuthCounted
  <2>4. ASSUME past.alone, otp.code # 0
        PROVE  AuthLoses(otp.code, otp.ending, 0, past.wrong, Auth!Clears, past.crashes,
                         AuthClearing, AuthSetting, AuthTiming)
    <3>1. ~AuthTiming /\ ~AuthSetting
      BY <1>n, <1>c, <1>y, <2>1, <2>4 DEF AuthLoses
    <3>2. CASE past.wrong = 0
      BY <1>n, <1>c, <1>p, <2>4, <3>1, <3>2 DEF AuthLoses
    <3>3. CASE past.wrong # 0
      <4>1. Auth!Clears = past.clears + 1 /\ ~AuthClearing
        BY <1>n, <1>c, <1>p, <2>4, <3>3 DEF AuthLoses
      <4>2. past.clears + 1 <= past.crashes + (IF otp.code <= otp.ending THEN 1 ELSE 0)
        BY <1>n, <1>c, <2>1, <2>4, <4>1 DEF AuthLoses
      <4> QED
        BY <1>n, <2>4, <3>1, <4>1, <4>2 DEF AuthLoses
    <3> QED
      BY <3>2, <3>3
  <2> QED
    BY <1>1, <1>g, <2>1, <2>2, <2>3, <2>4 DEF AuthOtpInv
<1> QED
  BY <1>2, <1>3

(* Every step keeps the OTPs guarded. *)
LEMMA AuthOtpNext == AuthTypeInv /\ AuthBounds /\ AuthOtpInv /\ [Auth!Next]_(Auth!authVars) => AuthOtpInv'
<1> SUFFICES ASSUME AuthTypeInv, AuthBounds, AuthOtpInv, [Auth!Next]_(Auth!authVars) PROVE AuthOtpInv'
  OBVIOUS
<1>1. CASE UNCHANGED Auth!authVars
  <2>1. AuthLonely' /\ AuthExpiresOwn'
    BY <1>1 DEF Auth!authVars, AuthOtpInv, AuthLonely, AuthExpiresOwn, Auth!At
  <2>2. AuthGuesses'
    BY <1>1 DEF Auth!authVars, AuthOtpInv, AuthGuesses, AuthLocking, AuthClearing, AuthSetting, AuthTiming
  <2>3. AuthSpendings'
    BY <1>1 DEF Auth!authVars, AuthOtpInv, AuthSpendings, AuthSpending, Auth!At
  <2> QED
    BY <2>1, <2>2, <2>3 DEF AuthOtpInv
<1>2. ASSUME NEW q \in Slots, Auth!RequestStep(q) PROVE AuthOtpInv'
  <2>1. PICK r \in AuthRequest : /\ AuthMoves(q, r) /\ AuthShaped(r) /\ AuthOtpStep(authReq[q], r) /\ authReq[q].pc # "idle"
                                 /\ past'.alone = past.alone /\ past'.crashes = past.crashes
    BY <1>2, AuthOtpSteps
  <2>2. AuthLonely'
    BY <2>1, AuthLonelyMoves DEF AuthOtpInv
  <2>3. AuthExpiresOwn'
    BY <2>1, AuthExpiresStep DEF AuthOtpInv
  <2>4. AuthGuesses'
    BY <2>1, AuthGuessesStep DEF AuthOtpInv
  <2>5. AuthSpendings'
    BY <2>1, AuthSpendingsStep DEF AuthOtpInv
  <2> QED
    BY <2>2, <2>3, <2>4, <2>5 DEF AuthOtpInv
<1>3. ASSUME NEW q \in Slots, Auth!RefreshFails(q) \/ Auth!Crash(q) PROVE AuthOtpInv'
  BY <1>3, AuthOtpCrash
<1> QED
  BY <1>1, <1>2, <1>3, AuthOtpBegin, AuthOtpTimers DEF Auth!Next

(* The OTPs are guarded at the start. *)
LEMMA AuthOtpInit == Auth!Init => AuthOtpInv
<1> SUFFICES ASSUME Auth!Init PROVE AuthOtpInv
  OBVIOUS
<1>1. /\ otp.code = 0 /\ otp.tries = 0 /\ otp.until = 0 /\ issued = 0 /\ past.alone = TRUE
      /\ past.wrong = 0 /\ past.clears = 0 /\ past.crashes = 0 /\ past.uses = [c \in 1..MaxCodes |-> 0]
      /\ \A q \in Slots : authReq[q] = Auth!Idle
  BY DEF Auth!Init, Auth!NoCode
<1>2. AuthLonely /\ AuthExpiresOwn
  BY <1>1, AuthIdleShaped DEF AuthLonely, AuthExpiresOwn, Auth!At, Auth!NoCode
<1>3. AuthGuesses
  <2>1. Cardinality(AuthLocking) \in Nat
    BY AuthFewer DEF AuthLocking
  <2> QED
    BY <1>1, <2>1 DEF AuthGuesses, AuthCounted
<1>4. AuthSpendings
  <2> SUFFICES ASSUME NEW c \in 1..MaxCodes
               PROVE  /\ past.uses[c] + Cardinality(AuthSpending(c)) <= Cardinality(Slots)
                      /\ past.alone => past.uses[c] + Cardinality(AuthSpending(c)) <= 1
                      /\ c > issued => past.uses[c] = 0 /\ AuthSpending(c) = {}
                      /\ otp.code = c => past.uses[c] = 0 /\ \A q \in AuthSpending(c) : Auth!At(q, "delCode")
    BY DEF AuthSpendings
  <2>1. c # 0 /\ c \in Nat
    BY RequestsAssumption
  <2>2. AuthSpending(c) = {}
    BY <1>1, <2>1, AuthIdleSpends DEF AuthSpending
  <2>3. Cardinality(Slots) \in Nat /\ Cardinality({}) = 0
    BY RequestsAssumption, FS_CardinalityType, FS_EmptySet
  <2> QED
    BY <1>1, <2>1, <2>2, <2>3
<1> QED
  BY <1>2, <1>3, <1>4 DEF AuthOtpInv

(* The invariant says what is promised. *)
LEMMA AuthOtpGuarded == AuthTypeInv /\ AuthOtpInv => Auth!OtpIsGuarded
<1> SUFFICES ASSUME AuthTypeInv, AuthOtpInv PROVE Auth!OtpIsGuarded
  OBVIOUS
<1>n. past.wrong \in Nat /\ past.clears \in Nat /\ past.crashes \in Nat /\ otp.tries \in Nat
  BY AuthOtpNumbers
<1>1. Cardinality(Slots) \in Nat
  <2>1. Slots \in SUBSET Slots
    OBVIOUS
  <2> QED
    BY <2>1, AuthFewer
<1>2. /\ Cardinality(AuthLocking) \in Nat /\ Cardinality(Auth!Busy) \in Nat
      /\ Cardinality(AuthLocking) <= Cardinality(Auth!Busy)
  <2>1. Auth!Busy \in SUBSET Slots /\ AuthLocking \in SUBSET Auth!Busy
    BY DEF Auth!Busy, AuthLocking, AuthInLock, Auth!At
  <2> QED
    BY <2>1, AuthFewer
<1>3. Auth!GuessesBounded
  <2> DEFINE b == Cardinality(Auth!Busy)
             l == Cardinality(AuthLocking)
  <2> SUFFICES ASSUME otp.code # 0
               PROVE  /\ past.wrong <= (3 - 1) * (1 + past.clears) + past.crashes + b
                      /\ past.alone => past.clears <= past.crashes + (IF otp.code <= otp.ending THEN 1 ELSE 0)
    BY AuthCountSame DEF Auth!GuessesBounded, Auth!MAX_OTP_ATTEMPTS, Auth!NoCode
  <2>1. past.wrong <= 2 * past.clears + (IF otp.tries < 2 THEN otp.tries ELSE 2) + l + past.crashes
    BY DEF AuthOtpInv, AuthGuesses, AuthCounted
  <2>2. past.alone => past.clears <= past.crashes + (IF otp.code <= otp.ending THEN 1 ELSE 0)
    BY DEF AuthOtpInv, AuthGuesses, AuthLoses
  <2>3. l \in Nat /\ b \in Nat /\ l <= b
    BY <1>2
  <2> HIDE DEF l, b
  <2>4. past.wrong <= (3 - 1) * (1 + past.clears) + past.crashes + b
    BY <1>n, <2>1, <2>3
  <2> QED
    BY <2>2, <2>4
<1>4. Auth!CodeIsSpent
  <2> SUFFICES ASSUME NEW c \in 1..MaxCodes
               PROVE  past.uses[c] <= IF past.alone THEN 1 ELSE Cardinality(Slots)
    BY AuthCountSame DEF Auth!CodeIsSpent
  <2>1. Cardinality(AuthSpending(c)) \in Nat /\ past.uses[c] \in Nat
    BY AuthFewer, AuthOtpNumbers DEF AuthSpending
  <2> QED
    BY <1>1, <2>1 DEF AuthOtpInv, AuthSpendings
<1> QED
  BY <1>3, <1>4 DEF Auth!OtpIsGuarded

(* AuthService.login: between two losses of the attempts counter a live OTP is *)
(* guessed wrong twice, once more for each request that counted and is to lock, *)
(* or died; alone, the counter is lost once and once more for each death; and   *)
(* an OTP logs in once, or once in each of the logins that had read it before   *)
(* it was deleted.                                                              *)
LEMMA AuthOtpHolds == Auth!Spec => []Auth!OtpIsGuarded
  BY AuthInitTypes, AuthNextTypes, AuthBoundsInit, AuthBoundsNext, AuthOtpInit, AuthOtpNext, AuthOtpGuarded, PTL DEF Auth!Spec
-----------------------------------------------------------------------------
(* AuthService.refreshToken refuses a refresh token that a client holds only after *)
(* a logout, or when a query of the refresh fails, however many requests of the    *)
(* user overlap and die.                                                           *)
THEOREM RefreshWorks == Auth!Spec => []RefreshAccepted
  BY AuthSessionsHold, PTL DEF RefreshAccepted

(* AuthService.updateProfile and UsersService.updateMe: the profile keeps the last  *)
(* edit that was saved, although every login and refresh saves the same row, unless *)
(* a handler saves an entity that it had loaded before.                             *)
THEOREM EditsStay == Auth!Spec => []EditsKept
  BY AuthSessionsHold, PTL DEF EditsKept

(* AuthService.login: the wrong guesses of a live OTP are bounded by how often its   *)
(* attempts counter was lost, and with requests one after the other that happens     *)
(* once, in the OTP's last half second, and once for each request that died; an OTP  *)
(* logs in once, or in each login that had read it before it was deleted.            *)
THEOREM OtpsAreGuarded == Auth!Spec => []Auth!OtpIsGuarded
  BY AuthOtpHolds
=============================================================================
