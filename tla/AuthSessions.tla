---------------------------- MODULE AuthSessions ----------------------------
(***************************************************************************)
(* The login of one phone number and the sessions of its user              *)
(* (AuthService, UsersService.updateMe): the Redis keys of the one-time    *)
(* passwords, the users row with its hash of a refresh token, and the      *)
(* handlers, one step from await to await.                                 *)
(*                                                                         *)
(* OTPs and tokens are numbered in the order they are made.  A save of the *)
(* user entity reads the row again and UPDATEs the columns in which the    *)
(* entity differs from it.  refresh_token is not selected by a find        *)
(* (select: false), so only who sets it writes it.                         *)
(*                                                                         *)
(* Redis tells a TTL in whole seconds, rounded: within the last half       *)
(* second of a key it is 0, and an expiry copied from it may come up to    *)
(* half a second before that of the key.                                   *)
(*                                                                         *)
(* Left out: a refresh token that has expired is refused before anything   *)
(* is read, and is_active, which a login looks at, is TRUE for good.       *)
(***************************************************************************)
EXTENDS Integers, FiniteSets

CONSTANTS
    Reqs,       \* the slots in which requests about this user run at once
    Ops,        \* the operations requested
    MaxCodes,   \* bound: OTPs issued
    MaxTokens,  \* bound: refresh tokens made
    MaxEdits,   \* bound: edits of the profile
    MaxCrashes  \* bound: requests that die with their process or fail

VARIABLES
    sms,      \* configuration: Firebase is enabled in production and sends the OTP
    otp,      \* the keys otp:code, otp:attempts, otp:lock, otp:cooldown; the
              \* OTPs 1..otp.ending have less than half a second left, or none
    issued,   \* OTPs issued so far
    elapsed,  \* those whose 5 minutes are over
    row,      \* the users row
    minted,   \* refresh tokens made so far
    held,     \* those a client has received
    req,      \* req[q]: the request in slot q
    past      \* history

authVars == <<sms, otp, issued, elapsed, row, minted, held, req, past>>

MAX_OTP_ATTEMPTS == 3

NoCode == 0  \* no key, no OTP, no token, no edit
Columns == {"name", "push", "hash"}

(* The requests that load the user, and those of them that end with new tokens *)
Logins == {"login", "firebase"}
SessionOps == Logins \cup {"refresh"}
EditOps == {"profile", "me"}

(* guess, code, tries: the OTP a login presents, the one it read, what INCR said; *)
(* token: the one presented or made; user: the entity; set, dirty: the columns    *)
(* the handler sets, and those save finds to differ; out: the user had logged out *)
(* when the request came                                                          *)
Idle == [op |-> "otp", pc |-> "idle", guess |-> NoCode, code |-> NoCode, tries |-> 0,
         token |-> NoCode, user |-> [name |-> NoCode, push |-> NoCode, hash |-> NoCode],
         set |-> {}, dirty |-> {}, out |-> FALSE]

Init ==
    /\ sms \in BOOLEAN
    /\ otp = [code |-> NoCode, ending |-> NoCode, tries |-> 0, until |-> NoCode,
              lock |-> FALSE, cool |-> FALSE]
    /\ issued = 0
    /\ elapsed = 0
    /\ row = [exists |-> FALSE, name |-> NoCode, push |-> NoCode, hash |-> NoCode]
    /\ minted = 0
    /\ held = {}
    /\ req = [q \in Reqs |-> Idle]
    /\ past = [wrong |-> 0, clears |-> 0, uses |-> [c \in 1..MaxCodes |-> 0],
               alone |-> TRUE, crashes |-> 0, out |-> FALSE, refused |-> {},
               stale |-> FALSE, edits |-> 0, name |-> NoCode, push |-> NoCode]

-----------------------------------------------------------------------------
At(q, step) == req[q].pc = step
Goto(q, step) == req' = [req EXCEPT ![q].pc = step]
Ends(q) == req' = [req EXCEPT ![q] = Idle]
Busy == {q \in Reqs : ~At(q, "idle")}

UNCHANGED_User == UNCHANGED <<row, minted, held>>

FirstStep(op) ==
    CASE op = "otp" -> "cooldown"
      [] op = "login" -> "lock"
      [] op = "logout" -> "logout"
      [] OTHER -> "find"

(* A client's request.  Refreshing, editing and logging out takes a token the    *)
(* client has received; the bounds count the requests under way.                 *)
Begin(q, op, guess, token) ==
    /\ At(q, "idle")
    /\ op = "otp" => issued + Cardinality(Busy) < MaxCodes
    /\ op \in SessionOps /\ (op = "login" => guess # NoCode) => minted + Cardinality(Busy) < MaxTokens
    /\ op \in EditOps => past.edits + Cardinality(Busy) < MaxEdits
    /\ op \notin Logins \cup {"otp"} => token # NoCode
    /\ op # "login" => guess = NoCode
    /\ op # "refresh" /\ token # NoCode => op \in EditOps \cup {"logout"}
    /\ req' = [req EXCEPT ![q] = [Idle EXCEPT !.op = op, !.pc = FirstStep(op),
                                  !.guess = guess, !.token = token, !.out = past.out]]
    /\ past' = [past EXCEPT !.alone = @ /\ Busy = {}]
    /\ UNCHANGED_User
    /\ UNCHANGED <<sms, otp, issued, elapsed>>

-----------------------------------------------------------------------------
(* requestOtp: refused within the cooldown; in production Firebase sends the OTP *)
CheckCooldown(q) ==
    /\ At(q, "cooldown")
    /\ IF otp.cool THEN Ends(q) ELSE Goto(q, IF sms THEN "setCool" ELSE "setCode")
    /\ UNCHANGED_User
    /\ UNCHANGED <<sms, otp, issued, elapsed, past>>

SetCode(q) ==
    /\ At(q, "setCode")
    /\ issued' = issued + 1
    /\ otp' = [otp EXCEPT !.code = issued']
    /\ past' = [past EXCEPT !.wrong = 0, !.clears = 0]
    /\ Goto(q, "delTries")
    /\ UNCHANGED_User
    /\ UNCHANGED <<sms, elapsed>>

(* History: how often the counter went while a live OTP had been guessed wrong *)
Clears == past.clears + (IF otp.code # NoCode /\ past.wrong > 0 THEN 1 ELSE 0)

(* DEL of the attempts: after a new code, after a match, after a lockout *)
DelTries(q) ==
    /\ At(q, "delTries")
    /\ otp' = [otp EXCEPT !.tries = 0, !.until = NoCode]
    /\ past' = [past EXCEPT !.clears = Clears]
    /\ CASE req[q].op = "otp" -> Goto(q, "setCool")
         [] req[q].op = "login" /\ req[q].guess = req[q].code -> Goto(q, "find")
         [] OTHER -> Ends(q)
    /\ UNCHANGED_User
    /\ UNCHANGED <<sms, issued, elapsed>>

SetCooldown(q) ==
    /\ At(q, "setCool")
    /\ otp' = [otp EXCEPT !.cool = TRUE]
    /\ Ends(q)
    /\ UNCHANGED_User
    /\ UNCHANGED <<sms, issued, elapsed, past>>

-----------------------------------------------------------------------------
(* login: the lockout ... *)
CheckLock(q) ==
    /\ At(q, "lock")
    /\ IF otp.lock THEN Ends(q) ELSE Goto(q, "getCode")
    /\ UNCHANGED_User
    /\ UNCHANGED <<sms, otp, issued, elapsed, past>>

(* ... the stored OTP, compared with what the user typed ... *)
GetCode(q) ==
    /\ At(q, "getCode")
    /\ IF otp.code = NoCode
         THEN Ends(q)
         ELSE req' = [req EXCEPT ![q].code = otp.code,
                                 ![q].pc = IF otp.code = req[q].guess THEN "delCode" ELSE "incr"]
    /\ UNCHANGED_User
    /\ UNCHANGED <<sms, otp, issued, elapsed, past>>

(* Mutant: the lockout comes one attempt late *)
LocksLate(n) == n > MAX_OTP_ATTEMPTS

Locks(n) == n >= MAX_OTP_ATTEMPTS

(* ... a mismatch is counted ... *)
IncrTries(q) ==
    LET n == otp.tries + 1 IN
    /\ At(q, "incr")
    /\ otp' = [otp EXCEPT !.tries = n]
    /\ past' = [past EXCEPT !.wrong = IF req[q].code = otp.code THEN @ + 1 ELSE @]
    /\ CASE n = 1 -> req' = [req EXCEPT ![q].tries = n, ![q].pc = "codeTtl"]
         [] n > 1 /\ Locks(n) -> Goto(q, "setLock")
         [] OTHER -> Ends(q)
    /\ UNCHANGED_User
    /\ UNCHANGED <<sms, issued, elapsed>>

(* ... and the first one's counter is to end with the OTP (TTL, then EXPIRE);    *)
(* it gets no expiry when the OTP is gone, or its TTL rounds to 0                *)
ReadCodeTtl(q) ==
    /\ At(q, "codeTtl")
    /\ IF otp.code <= otp.ending
         THEN Ends(q)
         ELSE req' = [req EXCEPT ![q].code = otp.code, ![q].pc = "expire"]
    /\ UNCHANGED_User
    /\ UNCHANGED <<sms, otp, issued, elapsed, past>>

ExpireTries(q) ==
    /\ At(q, "expire")
    /\ otp' = IF otp.tries > 0 THEN [otp EXCEPT !.until = req[q].code] ELSE otp
    /\ Ends(q)
    /\ UNCHANGED_User
    /\ UNCHANGED <<sms, issued, elapsed, past>>

SetLock(q) ==
    /\ At(q, "setLock")
    /\ otp' = [otp EXCEPT !.lock = TRUE]
    /\ Goto(q, "delCode")
    /\ UNCHANGED_User
    /\ UNCHANGED <<sms, issued, elapsed, past>>

(* Mutant: only the lockout deletes the OTP *)
KeptOnMatch(q) == IF req[q].guess = req[q].code THEN otp.code ELSE NoCode

(* What a DEL of the OTP leaves *)
Spent(q) == NoCode

(* DEL of the OTP, on a match and on a lockout *)
DelCode(q) ==
    /\ At(q, "delCode")
    /\ otp' = [otp EXCEPT !.code = Spent(q)]
    /\ Goto(q, "delTries")
    /\ UNCHANGED_User
    /\ UNCHANGED <<sms, issued, elapsed, past>>

-----------------------------------------------------------------------------
(* Mutant: the whole token is compared *)
MatchesExactly(token, hash) == hash = token

(* bcrypt reads 72 bytes: of a JWT the header and the beginning of the user's    *)
(* id, so every token of a user matches the hash of every other one.             *)
Matches(token, hash) == hash # NoCode

(* History: why a token is refused *)
Cause(h) == IF h.out \/ past.out THEN "logout" ELSE "token"

(* The user is looked up: by phone for a login (firebase: with the number of the *)
(* verified token), by id and with the hash for a refresh, by id for an edit,    *)
(* which sets its column in the entity                                           *)
FindUser(q) ==
    LET h == req[q]
        user == [name |-> row.name, push |-> row.push,
                 hash |-> IF h.op = "refresh" THEN row.hash ELSE NoCode] IN
    /\ At(q, "find")
    /\ CASE h.op \in Logins -> /\ req' = [req EXCEPT ![q].user = user,
                                             ![q].pc = IF row.exists THEN "sign" ELSE "insert"]
                               /\ UNCHANGED past
         [] h.op = "refresh" /\ Matches(h.token, row.hash) ->
                               /\ req' = [req EXCEPT ![q].user = user, ![q].pc = "sign"]
                               /\ UNCHANGED past
         [] h.op = "refresh" /\ ~Matches(h.token, row.hash) ->
                               /\ Ends(q)
                               /\ past' = [past EXCEPT !.refused = @ \cup {Cause(h)}]
         [] h.op \in EditOps ->
               /\ \E c \in IF h.op = "profile" THEN {"name"} ELSE {"name", "push"} :
                     req' = [req EXCEPT ![q].user = [user EXCEPT ![c] = past.edits + 1],
                                        ![q].set = {c}, ![q].pc = "reload"]
               /\ past' = [past EXCEPT !.edits = @ + 1]
    /\ UNCHANGED_User
    /\ UNCHANGED <<sms, otp, issued, elapsed>>

(* A new user; phone is UNIQUE, so a second INSERT fails *)
InsertUser(q) ==
    /\ At(q, "insert")
    /\ IF row.exists THEN Ends(q) ELSE Goto(q, "sign")
    /\ row' = [row EXCEPT !.exists = TRUE]
    /\ UNCHANGED <<sms, otp, issued, elapsed, minted, held, past>>

(* generateTokens, and the hash of the refresh token set in the entity *)
Sign(q) ==
    /\ At(q, "sign")
    /\ minted' = minted + 1
    /\ req' = [req EXCEPT ![q].token = minted', ![q].user.hash = minted',
                          ![q].set = {"hash"}, ![q].pc = "reload"]
    /\ UNCHANGED <<sms, otp, issued, elapsed, row, held, past>>

(* save reads the row again: besides what the handler has set, what changed in   *)
(* the row since it was loaded differs, too                                      *)
ReloadUser(q) ==
    LET h == req[q] IN
    /\ At(q, "reload")
    /\ req' = [req EXCEPT ![q].pc = "save",
                  ![q].dirty = h.set \cup {c \in {"name", "push"} : h.user[c] # row[c]}]
    /\ UNCHANGED_User
    /\ UNCHANGED <<sms, otp, issued, elapsed, past>>

(* Mutant: the entity is inserted or replaced as a whole *)
WrittenAll(dirty) == Columns

Written(dirty) == dirty

(* History: how often each OTP has logged in *)
UsedBy(h, uses) == IF h.op = "login" THEN [uses EXCEPT ![h.code] = @ + 1] ELSE uses

HoldsEntity(p) == req[p].pc \in {"sign", "reload"}

(* ... and the UPDATE of these columns; a login or a refresh answers with the    *)
(* tokens.  History: which edit was saved last, and whether somebody else holds  *)
(* an entity that this write has made stale                                      *)
SaveUser(q) ==
    LET h == req[q]
        cols == Written(h.dirty) IN
    /\ At(q, "save")
    /\ row' = [c \in DOMAIN row |-> IF c \in cols THEN h.user[c] ELSE row[c]]
    /\ held' = IF h.op \in SessionOps THEN held \cup {h.token} ELSE held
    /\ past' = [past EXCEPT
          !.name = IF "name" \in h.set THEN h.user.name ELSE @,
          !.push = IF "push" \in h.set THEN h.user.push ELSE @,
          !.stale = @ \/ \E p \in Reqs \ {q} : HoldsEntity(p),
          !.out = @ /\ h.op \notin Logins,
          !.uses = UsedBy(h, @)]
    /\ Ends(q)
    /\ UNCHANGED <<sms, otp, issued, elapsed, minted>>

(* logout: update(userId, {refresh_token: undefined}); TypeORM leaves properties *)
(* that are undefined out of the UPDATE                                          *)
LogoutUpdate(r) == r

Logout(q) ==
    /\ At(q, "logout")
    /\ row' = LogoutUpdate(row)
    /\ past' = [past EXCEPT !.out = TRUE]
    /\ Ends(q)
    /\ UNCHANGED <<sms, otp, issued, elapsed, minted, held>>

(* refreshToken answers a query or a save that fails as it does a wrong token *)
RefreshFails(q) ==
    /\ req[q].op = "refresh" /\ ~At(q, "idle")
    /\ past.crashes < MaxCrashes
    /\ past' = [past EXCEPT !.crashes = @ + 1, !.refused = @ \cup {"failure"}]
    /\ Ends(q)
    /\ UNCHANGED_User
    /\ UNCHANGED <<sms, otp, issued, elapsed>>

-----------------------------------------------------------------------------
(* The oldest OTP reaches its last half second ... *)
NearEnd ==
    /\ otp.ending < issued
    /\ otp' = [otp EXCEPT !.ending = @ + 1]
    /\ UNCHANGED_User
    /\ UNCHANGED <<sms, issued, elapsed, req, past>>

(* ... and its 5 minutes are over *)
Elapse ==
    /\ elapsed < otp.ending
    /\ elapsed' = elapsed + 1
    /\ otp' = [otp EXCEPT !.code = IF @ = elapsed' THEN NoCode ELSE @]
    /\ UNCHANGED_User
    /\ UNCHANGED <<sms, issued, req, past>>

(* The TTLs of the counter (the OTP's, rounded), the cooldown and the lock *)
TriesEnd ==
    /\ otp.until \in 1..otp.ending
    /\ otp' = [otp EXCEPT !.tries = 0, !.until = NoCode]
    /\ past' = [past EXCEPT !.clears = Clears]
    /\ UNCHANGED_User
    /\ UNCHANGED <<sms, issued, elapsed, req>>

TimerEnds ==
    /\ \E key \in {"cool", "lock"} : otp[key] /\ otp' = [otp EXCEPT ![key] = FALSE]
    /\ UNCHANGED_User
    /\ UNCHANGED <<sms, issued, elapsed, req, past>>

(* The process of a request dies *)
Crash(q) ==
    /\ ~At(q, "idle")
    /\ past.crashes < MaxCrashes
    /\ past' = [past EXCEPT !.crashes = @ + 1]
    /\ Ends(q)
    /\ UNCHANGED_User
    /\ UNCHANGED <<sms, otp, issued, elapsed>>

RequestStep(q) ==
    \/ CheckCooldown(q)
    \/ SetCode(q)
    \/ DelTries(q)
    \/ SetCooldown(q)
    \/ CheckLock(q)
    \/ GetCode(q)
    \/ IncrTries(q)
    \/ ReadCodeTtl(q)
    \/ ExpireTries(q)
    \/ SetLock(q)
    \/ DelCode(q)
    \/ FindUser(q)
    \/ InsertUser(q)
    \/ Sign(q)
    \/ ReloadUser(q)
    \/ SaveUser(q)
    \/ Logout(q)

Next ==
    \/ \E q \in Reqs :
          \/ \E op \in Ops, guess \in {NoCode, otp.code}, token \in held \cup {NoCode} :
                Begin(q, op, guess, token)
          \/ RequestStep(q)
          \/ RefreshFails(q)
          \/ Crash(q)
    \/ NearEnd
    \/ Elapse
    \/ TriesEnd
    \/ TimerEnds

Spec == Init /\ [][Next]_authVars

-----------------------------------------------------------------------------
(* Properties *)

TypeOK ==
    /\ sms \in BOOLEAN
    /\ otp \in [code : 0..issued, ending : 0..issued, tries : Nat, until : 0..issued, lock : BOOLEAN, cool : BOOLEAN]
    /\ issued \in 0..MaxCodes
    /\ elapsed \in 0..otp.ending
    /\ row \in [exists : BOOLEAN, name : 0..MaxEdits, push : 0..MaxEdits, hash : 0..minted]
    /\ minted \in 0..MaxTokens
    /\ held \subseteq 1..minted
    /\ \A q \in Reqs : /\ req[q].op \in Ops \cup {Idle.op}
                         /\ req[q].code \in 0..issued
                         /\ req[q].token \in 0..minted
                         /\ req[q].dirty \subseteq Columns

(* "MAX_OTP_ATTEMPTS = 3": between two losses of the attempts counter a live OTP is *)
(* guessed wrong twice, and once more for each request that counted and is still to  *)
(* lock, or died.  When requests come one after the other the counter is lost under  *)
(* a live OTP once, in the OTP's last half second, and once more for each request    *)
(* that died.                                                                        *)
GuessesBounded ==
    otp.code # NoCode =>
        /\ past.wrong <= (MAX_OTP_ATTEMPTS - 1) * (1 + past.clears)
                           + past.crashes + Cardinality(Busy)
        /\ past.alone =>
              past.clears <= past.crashes + (IF otp.code <= otp.ending THEN 1 ELSE 0)

(* "Success - clear OTP": an OTP logs in once, and more often only in logins that    *)
(* had all read it before the first of them deleted it.                              *)
CodeIsSpent ==
    \A c \in 1..MaxCodes :
        past.uses[c] <= IF past.alone THEN 1 ELSE Cardinality(Reqs)

(* The two together: what protects the account of a phone number *)
OtpIsGuarded == GuessesBounded /\ CodeIsSpent

(* A client that refreshes twice at once, or again because the answer was lost, is   *)
(* not logged out: a token it has received is refused only after a logout, or        *)
(* because a query of the refresh failed.                                            *)
RefreshAccepted == past.refused \subseteq {"logout", "failure"}

(* The edits of the profile that were saved last stay, through all later logins and  *)
(* refreshes; only a request that had loaded the user before takes one back.         *)
EditsKept == ~past.stale => row.name = past.name /\ row.push = past.push
=============================================================================
