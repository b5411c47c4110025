----------------------------- MODULE ShareLinks -----------------------------
(***************************************************************************)
(* The shareable link of one trip (ShareLinksService): its row, the        *)
(* requests by which the admin changes it, and the requests of those who   *)
(* hold a token.  What a join does to the trip is in TripMembership; here  *)
(* it reads the link and counts.                                           *)
(*                                                                         *)
(* upsert, update and regenerate load the row, change the entity and save  *)
(* it: TypeORM reads the row again and UPDATEs the columns in which the    *)
(* entity differs.  password_hash is not selected by a find, so only who   *)
(* sets it writes it.  disable and the counters are single UPDATEs.        *)
(***************************************************************************)
EXTENDS Integers, FiniteSets

CONSTANTS
    Reqs,       \* the slots in which requests about the link run at once
    MaxTokens,  \* bound: tokens generated
    MaxSaves,   \* bound: requests under way that end with a save
    MaxHits,    \* bound: views and join requests
    MaxFaults   \* bound: requests that die or UPDATEs that fail

VARIABLES
    link,     \* the row of trip_shareable_links
    made,     \* tokens generated; a token is its number
    linkReq,  \* linkReq[q]: the request in slot q
    linkFaults

linkVars == <<link, made, linkReq, linkFaults>>

Modes == {"view-only", "auto-join", "password-protected"}
Renewals == {"upsert", "regenerate"}    \* the requests that generate a token
Saves == Renewals \cup {"update"}
Counters == {"total_views", "join_requests", "successful_joins"}

(* What a find loads; password_hash is TRUE when there is one.  Whether the time of  *)
(* expires_at has come is left open                                                *)
Loaded == {"link_token", "access_mode", "is_active"} \cup Counters

NoLink == [exists |-> FALSE, link_token |-> 0, access_mode |-> "view-only",
           password_hash |-> FALSE, is_active |-> FALSE,
           total_views |-> 0, join_requests |-> 0, successful_joins |-> 0]

(* op, mode, password, token: the request; entity: the link in memory; set: the     *)
(* columns the handler has set; patch: those its save is going to write, and how;   *)
(* stale (history): another request has written the row since the link was loaded   *)
LinkIdle == [op |-> "disable", pc |-> "idle", mode |-> "none", password |-> FALSE,
             token |-> 0, entity |-> NoLink, set |-> {}, patch |-> << >>, stale |-> FALSE]

Init ==
    /\ link = NoLink
    /\ made = 0
    /\ linkReq = [q \in Reqs |-> LinkIdle]
    /\ linkFaults = 0

-----------------------------------------------------------------------------
At(q, step) == linkReq[q].pc = step
Goto(q, step) == linkReq' = [linkReq EXCEPT ![q].pc = step]
UnderWay(ops) == {q \in Reqs : linkReq[q].op \in ops}
Ends(q) == linkReq' = [linkReq EXCEPT ![q] = LinkIdle]

(* A request goes on, after a write that makes what the others have loaded stale *)
WritesAndGoes(q, step) ==
    linkReq' = [p \in Reqs |->
        IF p # q THEN [linkReq[p] EXCEPT !.stale = linkReq[p].pc \in {"reload", "save"}]
        ELSE IF step = "idle" THEN LinkIdle
        ELSE [linkReq[p] EXCEPT !.pc = step]]

(* The admin (assertAdmin; the creator of a trip never changes) asks for a new    *)
(* link, for another mode, password or expiry, or for the end of the link.  A     *)
(* password may come with any mode.                                               *)
BeginAdmin(q, op, mode, password) ==
    /\ At(q, "idle")
    /\ op \in {"upsert", "update", "regenerate", "disable"}
    /\ op = "upsert" => mode # "none"
    /\ op \in {"regenerate", "disable"} => mode = "none" /\ ~password
    /\ op \in Renewals => made + Cardinality(UnderWay(Renewals)) < MaxTokens
    /\ op # "disable" => Cardinality(UnderWay(Saves)) < MaxSaves
    /\ linkReq' = [linkReq EXCEPT ![q] = [LinkIdle EXCEPT !.op = op, !.mode = mode,
                      !.password = password,
                      !.pc = IF op = "disable" THEN "disable" ELSE "find"]]
    /\ UNCHANGED <<link, made, linkFaults>>

(* Somebody opens the link or joins with a token that exists or has existed *)
BeginGuest(q, op, token) ==
    /\ At(q, "idle")
    /\ op \in {"resolve", "join"}
    /\ link.total_views + link.join_requests + link.successful_joins
         + Cardinality(UnderWay({"resolve", "join"})) < MaxHits
    /\ linkReq' = [linkReq EXCEPT ![q] = [LinkIdle EXCEPT !.op = op, !.token = token,
                                          !.pc = "lookup"]]
    /\ UNCHANGED <<link, made, linkFaults>>

-----------------------------------------------------------------------------
(* Mutant: a mode can be set without its password *)
PasswordNeverMissing(h) == FALSE

(* PASSWORD_REQUIRED: update asks for the password each time, because the hash    *)
(* is never among the columns it has loaded                                       *)
PasswordMissing(h) == h.mode = "password-protected" /\ ~h.password

(* The columns a request sets, and their values *)
SetsOf(h) ==
    CASE h.op = "upsert" -> {"link_token", "access_mode", "password_hash", "is_active"}
      [] h.op = "regenerate" -> {"link_token", "is_active"}
      [] h.op = "update" -> (IF h.mode = "none" THEN {} ELSE {"access_mode"})
                            \cup (IF h.password THEN {"password_hash"} ELSE {})

(* Mutants: an upsert starts over with a new entity; every change opens the link again *)
NewEntity(row) == NoLink
ActivatesAlways(op) == TRUE

(* The handlers change the entity that was found *)
FoundEntity(row) == row
Activates(op) == op \in Renewals

Edited(h, row) ==
    [FoundEntity(row) EXCEPT
                !.exists = TRUE,
                !.link_token = IF h.op \in Renewals THEN made + 1 ELSE @,
                !.access_mode = IF "access_mode" \in SetsOf(h) THEN h.mode ELSE @,
                !.password_hash = h.password,
                !.is_active = @ \/ Activates(h.op)]

(* findOne, and the changes to the entity *)
FindLink(q) ==
    LET h == linkReq[q]
        found == [h EXCEPT !.mode = "none", !.password = FALSE, !.entity = Edited(h, link), !.set = SetsOf(h),
                           !.pc = IF link.exists THEN "reload" ELSE "insert"] IN
    /\ At(q, "find")
    /\ IF PasswordMissing(h) \/ (~link.exists /\ h.op # "upsert")
         THEN Ends(q) /\ UNCHANGED made
         ELSE /\ linkReq' = [linkReq EXCEPT ![q] = found]
              /\ made' = IF h.op \in Renewals THEN made + 1 ELSE made
    /\ UNCHANGED <<link, linkFaults>>

(* trip_id is UNIQUE: the second INSERT for a trip fails *)
InsertLink(q) ==
    /\ At(q, "insert")
    /\ link' = IF link.exists THEN link ELSE linkReq[q].entity
    /\ Ends(q)
    /\ UNCHANGED <<made, linkFaults>>

(* save: what differs from the row as it is now ... *)
Differing(h, row) ==
    {c \in Loaded : h.entity[c] # row[c]} \cup (h.set \cap {"password_hash"})

ReloadLink(q) ==
    LET h == linkReq[q] IN
    /\ At(q, "reload")
    /\ linkReq' = [linkReq EXCEPT ![q].pc = "save", ![q].entity = NoLink,
                      ![q].patch = [c \in Differing(h, link) |-> h.entity[c]]]
    /\ UNCHANGED <<link, made, linkFaults>>

(* ... is written, and nothing else *)
Patched(row, patch) == [c \in DOMAIN row |-> IF c \in DOMAIN patch THEN patch[c] ELSE row[c]]

SaveLink(q) ==
    LET h == linkReq[q] IN
    /\ At(q, "save")
    /\ link' = Patched(link, h.patch)
    /\ WritesAndGoes(q, "idle")
    /\ UNCHANGED <<made, linkFaults>>

Disable(q) ==
    /\ At(q, "disable")
    /\ link' = [link EXCEPT !.is_active = FALSE]
    /\ WritesAndGoes(q, "idle")
    /\ UNCHANGED <<made, linkFaults>>

-----------------------------------------------------------------------------
(* The token is the link's, and the link is active *)
Opens(row, token) ==
    /\ row.exists
    /\ row.link_token = token
    /\ row.is_active

(* verifyPassword: a link without a password accepts any *)
Verified(row, right) == ~row.password_hash \/ right

(* resolveByToken and joinViaLink find the link.  Either is refused when the link  *)
(* has expired, a join for the trip's sake, too; a join becomes a pending request,  *)
(* or in an auto-join link an approval                                             *)
LookupLink(q) ==
    LET h == linkReq[q] IN
    /\ At(q, "lookup")
    /\ \/ Ends(q)
       \/ /\ Opens(link, h.token)
          /\ h.op = "resolve"
          /\ Goto(q, "total_views")
       \/ /\ Opens(link, h.token)
          /\ h.op = "join"
          /\ \E m \in {"none", link.access_mode} \cap {"none", "auto-join"} :
                linkReq' = [linkReq EXCEPT ![q].pc = "join_requests", ![q].mode = m]
    /\ UNCHANGED <<link, made, linkFaults>>

(* After a counter: a join that was approved counts as successful, too *)
AfterCounter(q, c) ==
    IF c = "join_requests" /\ linkReq[q].mode = "auto-join" THEN "successful_joins" ELSE "idle"

Incremented(row, c) == [row EXCEPT ![c] = @ + 1]

(* UPDATE ... SET c = c + 1: not awaited by resolveByToken, awaited in            *)
(* bumpAnalytics, and forgotten in both when it fails                             *)
Count(q, c) ==
    /\ At(q, c)
    /\ \/ /\ link' = Incremented(link, c)
          /\ WritesAndGoes(q, AfterCounter(q, c))
          /\ UNCHANGED linkFaults
       \/ /\ linkFaults < MaxFaults
          /\ linkFaults' = linkFaults + 1
          /\ IF AfterCounter(q, c) = "idle" THEN Ends(q) ELSE Goto(q, AfterCounter(q, c))
          /\ UNCHANGED link
    /\ UNCHANGED made

-----------------------------------------------------------------------------
(* The process of a request dies *)
Crash(q) ==
    /\ ~At(q, "idle")
    /\ linkFaults < MaxFaults
    /\ linkFaults' = linkFaults + 1
    /\ Ends(q)
    /\ UNCHANGED <<link, made>>

RequestStep(q) ==
    \/ FindLink(q)
    \/ InsertLink(q)
    \/ ReloadLink(q)
    \/ SaveLink(q)
    \/ Disable(q)
    \/ LookupLink(q)
    \/ \E c \in Counters : Count(q, c)

Next ==
    \/ \E q \in Reqs :
          \/ \E op \in {"upsert", "update", "regenerate", "disable"},
                mode \in Modes \cup {"none"}, password \in BOOLEAN :
                BeginAdmin(q, op, mode, password)
          \/ \E op \in {"resolve", "join"}, token \in 1..made : BeginGuest(q, op, token)
          \/ RequestStep(q)
          \/ Crash(q)

Spec == Init /\ [][Next]_linkVars

-----------------------------------------------------------------------------
(* Properties *)

TypeOK ==
    /\ link \in [exists : BOOLEAN, link_token : 0..made, access_mode : Modes,
                 password_hash : BOOLEAN, is_active : BOOLEAN,
                 total_views : Nat,
                 join_requests : Nat, successful_joins : Nat]
    /\ made \in 0..MaxTokens
    /\ \A q \in Reqs : DOMAIN linkReq[q].patch \subseteq Loaded \cup {"password_hash"}

(* A save by a request that had loaded the link before somebody else wrote it *)
StaleSave == \E q \in Reqs : At(q, "save") /\ linkReq[q].stale /\ linkReq'[q].pc = "idle"

(* "password-protected": such a link has a password to be asked for *)
AsksPassword(row) == row.access_mode = "password-protected" => ~Verified(row, FALSE)

(* What a link promises stands: its counters, "atomic increments", never fall; once   *)
(* disabled it becomes active through an upsert or a regenerate only; and where a      *)
(* password was asked for, one still is.  Only a save that had loaded the link before *)
(* somebody else wrote it breaks one of these.                                        *)
LinkStands ==
    [][\/ StaleSave
       \/ /\ \A c \in Counters : link'[c] >= link[c]
          /\ link.exists /\ ~link.is_active /\ link'.is_active
               => \E q \in UnderWay(Renewals) : At(q, "save")
          /\ AsksPassword(link) => AsksPassword(link')]_linkVars
=============================================================================
