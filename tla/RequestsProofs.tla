--------------------------- MODULE RequestsProofs ----------------------------
(***************************************************************************)
(* What requests that overlap keep of the rows they write, for any users   *)
(* and any number of requests: the share link (ShareLinks), the SOS alert  *)
(* (SosAlerts) and the reactions of the chat (ChatReactions); and what     *)
(* follows for the requests of all components together.                    *)
(***************************************************************************)
EXTENDS SessionProofs, FeedProofs

-----------------------------------------------------------------------------
(* The share link *)

(* The cardinality that the instance knows is the one of FiniteSets. *)
LEMMA LinkCountSame == \A S : Links!Cardinality(S) = Cardinality(S)
  BY DEF Links!Cardinality, Cardinality

LinkSteps == {"idle", "find", "insert", "reload", "save", "disable", "lookup"} \cup Links!Counters
LinkFields == {"op", "pc", "mode", "password", "token", "entity", "set", "patch", "stale"}

(* The rows that tokens up to `top` allow *)
LinkRows(top) == [exists : BOOLEAN, link_token : 0..top, access_mode : Links!Modes,
              password_hash : BOOLEAN, is_active : BOOLEAN, total_views : Nat,
              join_requests : Nat, successful_joins : Nat]

(* What a request has in memory; a patch is part of some entity *)
LinkReqOK(r, top) ==
    /\ DOMAIN r = LinkFields
    /\ r.pc \in LinkSteps
    /\ r.op \in Links!Saves \cup {"disable", "resolve", "join"}
    /\ r.mode \in Links!Modes \cup {"none"}
    /\ r.password \in BOOLEAN /\ r.stale \in BOOLEAN
    /\ r.entity \in LinkRows(top)
    /\ DOMAIN r.patch \subseteq Links!Loaded \cup {"password_hash"}
    /\ \E e \in LinkRows(top) : \A c \in DOMAIN r.patch : r.patch[c] = e[c]

(* What an admin may ask for, and the entity of a link that is new *)
LinkAsked(r) ==
    /\ r.pc = "find" =>
          /\ r.op \in Links!Saves
          /\ r.op = "upsert" => r.mode \in Links!Modes
          /\ r.op = "regenerate" => r.mode = "none" /\ ~r.password
    /\ r.pc = "insert" => r.entity.exists /\ Links!AsksPassword(r.entity)

(* A request that nobody has overtaken has the counters of the link, activates it as a *)
(* renewal only, and leaves it asking for a password when it did                       *)
LinkFresh(r, l) ==
    ~r.stale =>
        /\ r.pc = "reload" =>
              /\ \A c \in Links!Counters : r.entity[c] = l[c]
              /\ r.entity.is_active = l.is_active \/ r.op \in Links!Renewals
              /\ "password_hash" \in r.set => Links!AsksPassword(r.entity)
              /\ "password_hash" \notin r.set =>
                    \/ r.entity.access_mode = l.access_mode
                    \/ r.entity.access_mode # "password-protected"
        /\ r.pc = "save" =>
              /\ Links!Counters \cap DOMAIN r.patch = {}
              /\ "is_active" \in DOMAIN r.patch => r.op \in Links!Renewals
              /\ Links!AsksPassword(l) => Links!AsksPassword(Links!Patched(l, r.patch))

(* Who counts or saves has found a link *)
LinkFound(r, l) == r.pc \in {"reload", "save"} \cup Links!Counters => l.exists

LinkRequestInv(r, l, top) == LinkReqOK(r, top) /\ LinkAsked(r) /\ LinkFresh(r, l) /\ LinkFound(r, l)

(* The renewals that are still to generate their token *)
LinkRenewing == {q \in Slots : linkReq[q].op \in Links!Renewals /\ linkReq[q].pc = "find"}
LinkTokensLeft == made + Cardinality(LinkRenewing) <= MaxLinkTokens

LinkLinkInv ==
    /\ link \in LinkRows(made)
    /\ made \in 0..MaxLinkTokens
    /\ ~link.exists => \A c \in Links!Counters : link[c] = 0

LinkInv ==
    /\ LinkLinkInv
    /\ DOMAIN linkReq = Slots
    /\ \A q \in Slots : LinkRequestInv(linkReq[q], link, made)
    /\ LinkTokensLeft

-----------------------------------------------------------------------------
(* A link that was never made is a row. *)
LEMMA LinkNoLinkRow == ASSUME NEW n \in Nat PROVE Links!NoLink \in LinkRows(n) /\ Links!AsksPassword(Links!NoLink)
  BY DEF Links!NoLink, LinkRows, Links!Modes, Links!AsksPassword, Links!Verified

(* A free slot satisfies the invariant, whatever the row is. *)
LEMMA LinkIdleInv == ASSUME NEW n \in Nat, NEW l PROVE LinkRequestInv(Links!LinkIdle, l, n)
<1>1. Links!NoLink \in LinkRows(n)
  BY LinkNoLinkRow
<1>2. /\ DOMAIN Links!LinkIdle = LinkFields
      /\ Links!LinkIdle.pc = "idle" /\ Links!LinkIdle.op = "disable" /\ Links!LinkIdle.mode = "none"
      /\ Links!LinkIdle.password = FALSE /\ Links!LinkIdle.stale = FALSE /\ Links!LinkIdle.entity = Links!NoLink
      /\ Links!LinkIdle.patch = << >>
  BY DEF Links!LinkIdle, LinkFields
<1>3. DOMAIN Links!LinkIdle.patch = {}
  BY <1>2
<1> QED
  BY <1>1, <1>2, <1>3 DEF LinkRequestInv, LinkReqOK, LinkAsked, LinkFresh, LinkFound, LinkSteps, Links!Counters

(* More tokens allow no fewer rows *)
LEMMA LinkReqGrows ==
    ASSUME NEW m \in Nat, NEW n \in Nat, m <= n, NEW r, LinkReqOK(r, m)
    PROVE  LinkReqOK(r, n)
<1>1. \A e \in LinkRows(m) : e \in LinkRows(n)
  BY DEF LinkRows
<1> QED
  BY <1>1 DEF LinkReqOK

(* How the number of requests that are to make a token follows the one that *)
(* moves.                                                                   *)
LEMMA LinkRenewingCount ==
    /\ IsFiniteSet(LinkRenewing) /\ Cardinality(LinkRenewing) \in Nat
    /\ LinkRenewing \subseteq Links!UnderWay(Links!Renewals)
    /\ IsFiniteSet(Links!UnderWay(Links!Renewals)) /\ Cardinality(Links!UnderWay(Links!Renewals)) \in Nat
    /\ Cardinality(LinkRenewing) <= Cardinality(Links!UnderWay(Links!Renewals))
<1>1. LinkRenewing \in SUBSET Slots /\ Links!UnderWay(Links!Renewals) \in SUBSET Slots
      /\ LinkRenewing \in SUBSET Links!UnderWay(Links!Renewals)
  BY DEF LinkRenewing, Links!UnderWay
<1> QED
  BY <1>1, RequestsAssumption, FS_Subset, FS_CardinalityType

(* Who generates no token leaves as many to the others *)
LEMMA LinkNoneRenews ==
    ASSUME LinkInv, made' = made, LinkRenewing' \subseteq LinkRenewing
    PROVE  LinkTokensLeft'
<1>1. LinkRenewing' \in SUBSET LinkRenewing
  OBVIOUS
<1>2. Cardinality(LinkRenewing') \in Nat /\ Cardinality(LinkRenewing') <= Cardinality(LinkRenewing)
  BY <1>1, LinkRenewingCount, FS_Subset, FS_CardinalityType
<1> QED
  BY <1>2, LinkRenewingCount, RequestsAssumption DEF LinkInv, LinkLinkInv, LinkTokensLeft

(* A step of one request that leaves the link alone *)
LEMMA LinkOneMoves ==
    ASSUME LinkInv, NEW q \in Slots, NEW r, linkReq' = [linkReq EXCEPT ![q] = r],
           LinkRequestInv(r, link, made), ~(r.pc = "find" /\ r.op \in Links!Renewals), UNCHANGED <<link, made>>
    PROVE  LinkInv'
<1>1. \A p \in Slots : linkReq'[p] = IF p = q THEN r ELSE linkReq[p]
  BY DEF LinkInv
<1>2. \A p \in Slots : LinkRequestInv(linkReq'[p], link', made')
  BY <1>1 DEF LinkInv
<1>3. LinkRenewing' \subseteq LinkRenewing
  BY <1>1 DEF LinkRenewing
<1>4. LinkTokensLeft'
  BY <1>3, LinkNoneRenews
<1> QED
  BY <1>2, <1>4 DEF LinkInv, LinkLinkInv

(* The invariant holds at the start. *)
LEMMA LinkInitInv == Links!Init => LinkInv
<1> SUFFICES ASSUME Links!Init PROVE LinkInv
  OBVIOUS
<1>1. made = 0 /\ link = Links!NoLink /\ linkReq = [q \in Slots |-> Links!LinkIdle]
  BY DEF Links!Init
<1>2. LinkLinkInv
  <2>1. 0 \in Nat /\ Links!NoLink \in LinkRows(0)
    BY LinkNoLinkRow
  <2>2. \A c \in Links!Counters : Links!NoLink[c] = 0
    BY DEF Links!NoLink, Links!Counters
  <2> QED
    BY <1>1, <2>1, <2>2, RequestsAssumption DEF LinkLinkInv
<1>3. LinkRenewing = {}
  BY <1>1 DEF LinkRenewing, Links!LinkIdle
<1>4. LinkTokensLeft
  BY <1>1, <1>3, RequestsAssumption, FS_EmptySet DEF LinkTokensLeft
<1> QED
  BY <1>1, <1>2, <1>4, LinkIdleInv DEF LinkInv

-----------------------------------------------------------------------------
(* A request of the creator keeps the invariant. *)
LEMMA LinkBeginAdminStep ==
    ASSUME LinkInv, NEW q \in Slots, NEW op \in {"upsert", "update", "regenerate", "disable"},
           NEW mode \in Links!Modes \cup {"none"}, NEW password \in BOOLEAN,
           Links!BeginAdmin(q, op, mode, password)
    PROVE  LinkInv'
<1> DEFINE r == [Links!LinkIdle EXCEPT !.op = op, !.mode = mode, !.password = password,
                                 !.pc = IF op = "disable" THEN "disable" ELSE "find"]
<1>n. made \in Nat /\ MaxLinkTokens \in Nat
  BY RequestsAssumption DEF LinkInv, LinkLinkInv
<1>1. linkReq' = [linkReq EXCEPT ![q] = r] /\ UNCHANGED <<link, made>>
  BY DEF Links!BeginAdmin
<1>2. /\ DOMAIN r = LinkFields /\ r.op = op /\ r.mode = mode /\ r.password = password
      /\ r.pc = (IF op = "disable" THEN "disable" ELSE "find")
      /\ r.stale = FALSE /\ r.entity = Links!NoLink /\ r.patch = << >>
  BY DEF Links!LinkIdle, LinkFields
<1>3. DOMAIN r.patch = {}
  BY <1>2
<1>4. LinkAsked(r)
  BY <1>2 DEF LinkAsked, Links!BeginAdmin, Links!Saves, Links!Renewals, Links!Modes
<1>5. LinkRequestInv(r, link, made)
  <2>1. Links!NoLink \in LinkRows(made)
    BY <1>n, LinkNoLinkRow
  <2>2. r.pc \in {"find", "disable"} /\ op \in Links!Saves \cup {"disable"}
    BY <1>2 DEF Links!Saves, Links!Renewals
  <2>3. LinkReqOK(r, made)
    BY <1>2, <1>3, <2>1, <2>2 DEF LinkReqOK, LinkSteps
  <2>4. LinkFresh(r, link) /\ LinkFound(r, link)
    BY <2>2 DEF LinkFresh, LinkFound, Links!Counters
  <2> QED
    BY <1>4, <2>3, <2>4 DEF LinkRequestInv
<1>6. CASE op \notin Links!Renewals
  BY <1>1, <1>2, <1>5, <1>6, LinkOneMoves
<1>7. CASE op \in Links!Renewals
  <2>1. LinkRenewing' \subseteq LinkRenewing \cup {q}
    BY <1>1 DEF LinkRenewing, LinkInv
  <2>2. LinkRenewing' \in SUBSET (LinkRenewing \cup {q})
    BY <2>1
  <2>3. /\ IsFiniteSet(LinkRenewing \cup {q})
        /\ Cardinality(LinkRenewing \cup {q}) \in Nat
        /\ Cardinality(LinkRenewing \cup {q}) <= Cardinality(LinkRenewing) + 1
    <3>1. IsFiniteSet(LinkRenewing) /\ Cardinality(LinkRenewing) \in Nat
      BY LinkRenewingCount
    <3>2. Cardinality(LinkRenewing \cup {q}) = IF q \in LinkRenewing THEN Cardinality(LinkRenewing) ELSE Cardinality(LinkRenewing) + 1
      BY <3>1, FS_AddElement
    <3>3. IsFiniteSet(LinkRenewing \cup {q})
      BY <3>1, FS_AddElement
    <3> QED
      BY <3>1, <3>2, <3>3
  <2>4. /\ Cardinality(LinkRenewing') \in Nat
        /\ Cardinality(LinkRenewing') <= Cardinality(LinkRenewing \cup {q})
    BY <2>2, <2>3, FS_Subset, FS_CardinalityType
  <2>5. made + Cardinality(Links!UnderWay(Links!Renewals)) < MaxLinkTokens
    BY <1>7, LinkCountSame DEF Links!BeginAdmin
  <2>6. LinkTokensLeft'
    BY <1>n, <1>1, <2>3, <2>4, <2>5, LinkRenewingCount DEF LinkTokensLeft
  <2>7. \A p \in Slots : linkReq'[p] = IF p = q THEN r ELSE linkReq[p]
    BY <1>1 DEF LinkInv
  <2>8. \A p \in Slots : LinkRequestInv(linkReq'[p], link', made')
    BY <1>1, <1>5, <2>7 DEF LinkInv
  <2> QED
    BY <1>1, <2>6, <2>8 DEF LinkInv, LinkLinkInv
<1> QED
  BY <1>6, <1>7

(* A guest's request keeps the invariant. *)
LEMMA LinkBeginGuestStep ==
    ASSUME LinkInv, NEW q \in Slots, NEW op \in {"resolve", "join"}, NEW token, Links!BeginGuest(q, op, token)
    PROVE  LinkInv'
<1> DEFINE r == [Links!LinkIdle EXCEPT !.op = op, !.token = token, !.pc = "lookup"]
<1>n. made \in Nat
  BY RequestsAssumption DEF LinkInv, LinkLinkInv
<1>1. linkReq' = [linkReq EXCEPT ![q] = r] /\ UNCHANGED <<link, made>>
  BY DEF Links!BeginGuest
<1>2. /\ DOMAIN r = LinkFields /\ r.op = op /\ r.mode = "none" /\ r.password = FALSE
      /\ r.pc = "lookup" /\ r.stale = FALSE /\ r.entity = Links!NoLink /\ r.patch = << >>
  BY DEF Links!LinkIdle, LinkFields
<1>3. DOMAIN r.patch = {}
  BY <1>2
<1>4. LinkRequestInv(r, link, made)
  BY <1>n, <1>2, <1>3, LinkNoLinkRow DEF LinkRequestInv, LinkReqOK, LinkAsked, LinkFresh, LinkFound, LinkSteps, Links!Counters
<1> QED
  BY <1>1, <1>2, <1>4, LinkOneMoves

(* The entity that a handler makes of the row it has found *)
LEMMA LinkEditedEntity ==
    ASSUME NEW h, NEW l \in LinkRows(made), made \in Nat, h.op \in Links!Saves, h.password \in BOOLEAN,
           h.mode \in Links!Modes \cup {"none"}, "access_mode" \in Links!SetsOf(h) => h.mode \in Links!Modes
    PROVE  LET e == Links!Edited(h, l)
           IN  /\ e \in LinkRows(IF h.op \in Links!Renewals THEN made + 1 ELSE made)
               /\ \A c \in Links!Counters : e[c] = l[c]
               /\ e.access_mode = IF "access_mode" \in Links!SetsOf(h) THEN h.mode ELSE l.access_mode
               /\ e.exists
               /\ e.password_hash = h.password
               /\ e.is_active = (l.is_active \/ h.op \in Links!Renewals)
<1> DEFINE top == IF h.op \in Links!Renewals THEN made + 1 ELSE made
           tok == IF h.op \in Links!Renewals THEN made + 1 ELSE l.link_token
           mode == IF "access_mode" \in Links!SetsOf(h) THEN h.mode ELSE l.access_mode
           act == l.is_active \/ h.op \in Links!Renewals
<1>1. Links!Edited(h, l) = [l EXCEPT !.exists = TRUE, !.link_token = tok, !.access_mode = mode,
                                   !.password_hash = h.password, !.is_active = act]
  BY DEF Links!Edited, Links!FoundEntity, Links!Activates, LinkRows
<1>2. tok \in 0..top /\ mode \in Links!Modes /\ act \in BOOLEAN
  BY DEF LinkRows
<1> HIDE DEF tok, mode, act
<1>3. /\ Links!Edited(h, l) \in LinkRows(top)
      /\ \A c \in Links!Counters : Links!Edited(h, l)[c] = l[c]
      /\ Links!Edited(h, l).exists
      /\ Links!Edited(h, l).access_mode = mode
      /\ Links!Edited(h, l).password_hash = h.password
      /\ Links!Edited(h, l).is_active = act
  BY <1>1, <1>2 DEF LinkRows, Links!Counters
<1> QED
  BY <1>3 DEF mode, act

-----------------------------------------------------------------------------
(* The find of the creator's request, and the settings it makes in the entity. *)
LEMMA LinkFindStep ==
    ASSUME LinkInv, NEW q \in Slots, Links!FindLink(q)
    PROVE  LinkInv'
<1> DEFINE h == linkReq[q]
           ent == Links!Edited(h, link)
           step == IF link.exists THEN "reload" ELSE "insert"
           r == [h EXCEPT !.mode = "none", !.password = FALSE, !.entity = ent, !.set = Links!SetsOf(h),
                          !.pc = step]
           top == IF h.op \in Links!Renewals THEN made + 1 ELSE made
<1>n. made \in Nat /\ MaxLinkTokens \in Nat /\ link \in LinkRows(made) /\ LinkTokensLeft /\ top \in Nat /\ made <= top
  BY RequestsAssumption DEF LinkInv, LinkLinkInv
<1>h. LinkRequestInv(h, link, made) /\ h.pc = "find"
  BY DEF LinkInv, Links!FindLink, Links!At
<1>a. h.op \in Links!Saves /\ h.password \in BOOLEAN /\ h.mode \in Links!Modes \cup {"none"} /\ DOMAIN h = LinkFields
  BY <1>h DEF LinkRequestInv, LinkReqOK, LinkAsked
<1>b. "access_mode" \in Links!SetsOf(h) => h.mode \in Links!Modes
  BY <1>h, <1>a DEF LinkRequestInv, LinkAsked, Links!SetsOf, Links!Saves, Links!Renewals, Links!Modes
<1>1. CASE UNCHANGED <<link, made>> /\ linkReq' = [linkReq EXCEPT ![q] = Links!LinkIdle]
  BY <1>1, <1>n, LinkIdleInv, LinkOneMoves DEF Links!LinkIdle
<1>2. CASE /\ linkReq' = [linkReq EXCEPT ![q] = r] /\ made' = top /\ UNCHANGED link
           /\ ~Links!PasswordMissing(h) /\ (link.exists \/ h.op = "upsert")
  <2>1. /\ ent \in LinkRows(top)
        /\ \A c \in Links!Counters : ent[c] = link[c]
        /\ ent.access_mode = IF "access_mode" \in Links!SetsOf(h) THEN h.mode ELSE link.access_mode
        /\ ent.exists
        /\ ent.password_hash = h.password
        /\ ent.is_active = (link.is_active \/ h.op \in Links!Renewals)
    BY <1>n, <1>a, <1>b, LinkEditedEntity
  <2>s. step \in {"reload", "insert"} /\ (step = "reload" => link.exists) /\ (step = "insert" => ~link.exists)
    BY DEF step
  <2> DEFINE e0 == ent
             s0 == step
  <2>2. /\ DOMAIN r = LinkFields /\ r.op = h.op /\ r.mode = "none" /\ r.password = FALSE /\ r.pc = step
        /\ r.stale = h.stale /\ r.entity = ent /\ r.patch = h.patch /\ r.set = Links!SetsOf(h)
    <3> HIDE DEF ent, step, h
    <3> QED
      BY <1>a DEF LinkFields
  <2> HIDE DEF ent, step, r
  <2>r. LinkReqOK(h, top)
    BY <1>n, <1>h, LinkReqGrows DEF LinkRequestInv
  <2>3. LinkReqOK(r, top)
    <3>1. /\ r.pc \in LinkSteps /\ r.op \in Links!Saves \cup {"disable", "resolve", "join"}
          /\ r.mode \in Links!Modes \cup {"none"} /\ r.password \in BOOLEAN /\ r.stale \in BOOLEAN
      BY <1>a, <2>2, <2>s, <2>r DEF LinkReqOK, LinkSteps
    <3> HIDE DEF h
    <3>2. r.entity \in LinkRows(top)
      BY <2>1, <2>2
    <3> HIDE DEF top
    <3>3. DOMAIN r.patch \subseteq Links!Loaded \cup {"password_hash"}
          /\ \E e \in LinkRows(top) : \A c \in DOMAIN r.patch : r.patch[c] = e[c]
      BY <2>2, <2>r DEF LinkReqOK
    <3> QED
      BY <2>2, <3>1, <3>2, <3>3 DEF LinkReqOK
  <2>4. "password_hash" \in Links!SetsOf(h) => Links!AsksPassword(ent)
    BY <1>2, <1>h, <1>a, <2>1 DEF LinkRequestInv, LinkAsked, Links!SetsOf, Links!PasswordMissing, Links!AsksPassword, Links!Verified, Links!Saves, Links!Renewals
  <2>5. "password_hash" \notin Links!SetsOf(h) =>
          ent.access_mode = link.access_mode \/ ent.access_mode # "password-protected"
    BY <1>2, <1>h, <1>a, <2>1 DEF LinkRequestInv, LinkAsked, Links!SetsOf, Links!PasswordMissing, Links!Saves, Links!Renewals
  <2>6. step = "insert" => Links!AsksPassword(ent)
    BY <1>2, <2>4, <2>s DEF Links!SetsOf
  <2>7. LinkAsked(r) /\ LinkFresh(r, link) /\ LinkFound(r, link)
    <3> HIDE DEF h
    <3>1. LinkAsked(r) /\ LinkFound(r, link)
      BY <2>1, <2>2, <2>6, <2>s DEF LinkAsked, LinkFound, Links!Counters
    <3>2. r.entity.is_active = link.is_active \/ r.op \in Links!Renewals
      BY <1>n, <2>1, <2>2 DEF LinkRows
    <3>3. LinkFresh(r, link)
      BY <2>1, <2>2, <2>4, <2>5, <2>s, <3>2 DEF LinkFresh
    <3> QED
      BY <3>1, <3>3
  <2>8. \A p \in Slots : linkReq'[p] = IF p = q THEN r ELSE linkReq[p]
    BY <1>2 DEF LinkInv
  <2>9. \A p \in Slots : LinkRequestInv(linkReq'[p], link', made')
    <3> SUFFICES ASSUME NEW p \in Slots PROVE LinkRequestInv(linkReq'[p], link, top)
      BY <1>2
    <3>1. CASE p = q
      BY <3>1, <2>3, <2>7, <2>8 DEF LinkRequestInv
    <3>2. CASE p # q
      BY <1>n, <3>2, <2>8, LinkReqGrows DEF LinkInv, LinkRequestInv
    <3> QED
      BY <3>1, <3>2
  <2>10. LinkTokensLeft'
    <3>1. LinkRenewing' = LinkRenewing \ {q}
      BY <2>2, <2>8, <2>s DEF LinkRenewing
    <3>2. h.op \in Links!Renewals => q \in LinkRenewing
      BY <1>h DEF LinkRenewing
    <3>3. IsFiniteSet(LinkRenewing) /\ Cardinality(LinkRenewing) \in Nat
      BY LinkRenewingCount
    <3>4. Cardinality(LinkRenewing \ {q}) = IF q \in LinkRenewing THEN Cardinality(LinkRenewing) - 1 ELSE Cardinality(LinkRenewing)
      BY <3>3, FS_RemoveElement
    <3> QED
      BY <1>2, <1>n, <3>1, <3>2, <3>3, <3>4 DEF LinkTokensLeft
  <2>11. LinkLinkInv'
    <3>1. Cardinality(LinkRenewing') \in Nat
      <4>1. LinkRenewing' \in SUBSET Slots
        BY DEF LinkRenewing
      <4> QED
        BY <4>1, RequestsAssumption, FS_Subset, FS_CardinalityType
    <3>2. made' \in 0..MaxLinkTokens
      BY <1>2, <1>n, <2>10, <3>1 DEF LinkTokensLeft
    <3>3. link \in LinkRows(top)
      BY <1>n DEF LinkRows
    <3> QED
      BY <1>2, <3>2, <3>3 DEF LinkLinkInv, LinkInv
  <2> QED
    BY <1>2, <2>9, <2>10, <2>11 DEF LinkInv
<1> QED
  BY <1>1, <1>2 DEF Links!FindLink, Links!Ends

(* A write: the request goes on or ends, and what the others have loaded is stale *)
LEMMA LinkWritesInv ==
    ASSUME LinkInv, NEW q \in Slots, NEW step \in {"idle", "successful_joins"}, Links!WritesAndGoes(q, step),
           made' = made, link' \in LinkRows(made), link.exists => link'.exists,
           step # "idle" => link'.exists,
           ~link'.exists => \A c \in Links!Counters : link'[c] = 0
    PROVE  LinkInv'
<1>n. made \in Nat
  BY RequestsAssumption DEF LinkInv, LinkLinkInv
<1> DEFINE s(p) == linkReq[p].pc \in {"reload", "save"}
<1>1. /\ DOMAIN linkReq' = Slots
      /\ \A p \in Slots : p # q => linkReq'[p] = [linkReq[p] EXCEPT !.stale = s(p)]
      /\ linkReq'[q] = IF step = "idle" THEN Links!LinkIdle ELSE [linkReq[q] EXCEPT !.pc = step]
  BY DEF Links!WritesAndGoes
<1>2. ASSUME NEW p \in Slots, p # q
      PROVE /\ LinkRequestInv(linkReq'[p], link', made)
            /\ linkReq'[p].pc = linkReq[p].pc
            /\ linkReq'[p].op = linkReq[p].op
  <2> DEFINE a == linkReq[p]
             b == linkReq'[p]
  <2>1. LinkRequestInv(a, link, made) /\ DOMAIN a = LinkFields
    BY DEF LinkInv, LinkRequestInv, LinkReqOK
  <2>2. /\ DOMAIN b = LinkFields
        /\ b.pc = a.pc /\ b.op = a.op
        /\ b.mode = a.mode /\ b.password = a.password
        /\ b.entity = a.entity /\ b.patch = a.patch
        /\ b.set = a.set /\ b.stale = (a.pc \in {"reload", "save"})
    BY <1>1, <1>2, <2>1 DEF LinkFields
  <2> HIDE DEF a, b
  <2>3. LinkReqOK(b, made)
    BY <2>1, <2>2 DEF LinkRequestInv, LinkReqOK
  <2>4. LinkAsked(b)
    BY <2>1, <2>2 DEF LinkRequestInv, LinkAsked
  <2>5. LinkFresh(b, link') /\ LinkFound(b, link')
    BY <2>1, <2>2 DEF LinkRequestInv, LinkFresh, LinkFound
  <2> QED
    BY <2>2, <2>3, <2>4, <2>5 DEF LinkRequestInv, a, b
<1>3. LinkRequestInv(linkReq'[q], link', made) /\ linkReq'[q].pc = step
  <2>1. CASE step = "idle"
    <3>1. Links!LinkIdle.pc = "idle"
      BY DEF Links!LinkIdle
    <3> QED
      BY <1>1, <1>n, <2>1, <3>1, LinkIdleInv
  <2>2. CASE step = "successful_joins"
    <3> DEFINE a == linkReq[q]
               b == linkReq'[q]
    <3>1. LinkRequestInv(a, link, made) /\ DOMAIN a = LinkFields
      BY DEF LinkInv, LinkRequestInv, LinkReqOK
    <3>2. /\ DOMAIN b = LinkFields
          /\ b.pc = "successful_joins" /\ b.op = a.op
          /\ b.mode = a.mode /\ b.password = a.password
          /\ b.entity = a.entity /\ b.patch = a.patch
          /\ b.set = a.set /\ b.stale = a.stale
      BY <1>1, <2>2, <3>1 DEF LinkFields
    <3> HIDE DEF a, b
    <3>3. LinkReqOK(b, made)
      BY <3>1, <3>2 DEF LinkRequestInv, LinkReqOK, LinkSteps, Links!Counters
    <3>4. LinkAsked(b) /\ LinkFresh(b, link') /\ LinkFound(b, link')
      BY <2>2, <3>2 DEF LinkAsked, LinkFresh, LinkFound
    <3> QED
      BY <2>2, <3>2, <3>3, <3>4 DEF LinkRequestInv, b
  <2> QED
    BY <2>1, <2>2
<1>4. LinkRenewing' \subseteq LinkRenewing
  BY <1>2, <1>3 DEF LinkRenewing
<1>5. LinkTokensLeft'
  BY <1>4, LinkNoneRenews
<1>6. LinkLinkInv'
  BY DEF LinkLinkInv, LinkInv
<1> QED
  BY <1>1, <1>2, <1>3, <1>5, <1>6 DEF LinkInv

(* The INSERT of the first link; the second one fails. *)
LEMMA LinkInsertStep == ASSUME LinkInv, NEW q \in Slots, Links!InsertLink(q) PROVE LinkInv'
<1>n. made \in Nat
  BY RequestsAssumption DEF LinkInv, LinkLinkInv
<1>1. LinkRequestInv(linkReq[q], link, made) /\ linkReq' = [linkReq EXCEPT ![q] = Links!LinkIdle] /\ UNCHANGED made
  BY DEF LinkInv, Links!InsertLink, Links!Ends
<1>2. CASE link.exists
  BY <1>1, <1>2, <1>n, LinkIdleInv, LinkOneMoves DEF Links!InsertLink, Links!LinkIdle
<1>3. CASE ~link.exists
  <2>1. link' = linkReq[q].entity /\ link' \in LinkRows(made)
    BY <1>1, <1>3 DEF Links!InsertLink, LinkRequestInv, LinkReqOK
  <2>2. \A p \in Slots : linkReq'[p] = IF p = q THEN Links!LinkIdle ELSE linkReq[p]
    BY <1>1 DEF LinkInv
  <2>3. \A p \in Slots : LinkRequestInv(linkReq[p], link', made)
    BY <1>3 DEF LinkInv, LinkRequestInv, LinkFresh, LinkFound
  <2>4. \A p \in Slots : LinkRequestInv(linkReq'[p], link', made')
    BY <1>1, <1>n, <2>2, <2>3, LinkIdleInv
  <2>5. LinkRenewing' \subseteq LinkRenewing
    BY <2>2 DEF LinkRenewing, Links!LinkIdle
  <2>6. LinkTokensLeft'
    BY <1>1, <2>5, LinkNoneRenews
  <2>8. link'.exists
    BY <1>1, <1>3, <2>1 DEF Links!InsertLink, Links!At, LinkRequestInv, LinkAsked
  <2>7. LinkLinkInv'
    BY <1>1, <1>3, <2>1, <2>8 DEF LinkLinkInv, LinkInv
  <2> QED
    BY <1>1, <2>4, <2>6, <2>7 DEF LinkInv
<1> QED
  BY <1>2, <1>3

(* The first half of save: the columns that differ from the row. *)
LEMMA LinkReloadStep == ASSUME LinkInv, NEW q \in Slots, Links!ReloadLink(q) PROVE LinkInv'
<1> DEFINE h == linkReq[q]
           D == Links!Differing(h, link)
           patch == [c \in D |-> h.entity[c]]
           r == [h EXCEPT !.pc = "save", !.entity = Links!NoLink, !.patch = patch]
<1>n. made \in Nat /\ link \in LinkRows(made)
  BY RequestsAssumption DEF LinkInv, LinkLinkInv
<1>1. LinkRequestInv(h, link, made) /\ h.pc = "reload" /\ DOMAIN h = LinkFields
  BY DEF LinkInv, Links!ReloadLink, Links!At, LinkRequestInv, LinkReqOK
<1>2. linkReq' = [linkReq EXCEPT ![q] = r] /\ UNCHANGED <<link, made>>
  BY DEF Links!ReloadLink, LinkInv
<1>3. /\ DOMAIN r = LinkFields /\ r.op = h.op /\ r.mode = h.mode /\ r.password = h.password
      /\ r.pc = "save" /\ r.stale = h.stale /\ r.entity = Links!NoLink /\ r.patch = patch
      /\ r.set = h.set
  <2> HIDE DEF h, patch
  <2> QED
    BY <1>1 DEF LinkFields
<1>4. DOMAIN patch = D /\ \A c \in D : patch[c] = h.entity[c]
  OBVIOUS
<1>5. D \subseteq Links!Loaded \cup {"password_hash"}
  BY DEF Links!Differing
<1> HIDE DEF r, patch
<1>6. LinkReqOK(r, made)
  BY <1>n, <1>1, <1>3, <1>4, <1>5, LinkNoLinkRow DEF LinkRequestInv, LinkReqOK, LinkSteps
<1>7. ~h.stale => Links!Counters \cap D = {} /\ ("is_active" \in D => h.op \in Links!Renewals)
  BY <1>1 DEF LinkRequestInv, LinkFresh, Links!Differing, Links!Counters
<1>8. ~h.stale /\ Links!AsksPassword(link) => Links!AsksPassword(Links!Patched(link, patch))
  <2> SUFFICES ASSUME ~h.stale, Links!AsksPassword(link) PROVE Links!AsksPassword(Links!Patched(link, patch))
    OBVIOUS
  <2>1. DOMAIN link = {"exists", "link_token", "access_mode", "password_hash", "is_active",
                       "total_views", "join_requests", "successful_joins"}
    BY <1>n DEF LinkRows
  <2>2. Links!Patched(link, patch).access_mode = IF "access_mode" \in D THEN h.entity.access_mode ELSE link.access_mode
    BY <1>4, <2>1 DEF Links!Patched
  <2>3. Links!Patched(link, patch).password_hash = IF "password_hash" \in D THEN h.entity.password_hash ELSE link.password_hash
    BY <1>4, <2>1 DEF Links!Patched
  <2>4. Links!Patched(link, patch).access_mode = h.entity.access_mode
    BY <2>2 DEF Links!Differing, Links!Loaded
  <2>5. "password_hash" \in D <=> "password_hash" \in h.set
    BY DEF Links!Differing, Links!Loaded, Links!Counters
  <2> HIDE DEF D, h
  <2> QED
    BY <1>1, <2>3, <2>4, <2>5 DEF LinkRequestInv, LinkFresh, Links!AsksPassword, Links!Verified
<1>9. LinkAsked(r) /\ LinkFresh(r, link) /\ LinkFound(r, link)
  BY <1>1, <1>3, <1>4, <1>7, <1>8 DEF LinkAsked, LinkFresh, LinkFound, LinkRequestInv
<1> QED
  BY <1>2, <1>3, <1>6, <1>9, LinkOneMoves DEF LinkRequestInv

(* What is written is a row *)
LEMMA LinkPatchedRow ==
    ASSUME NEW top \in Nat, NEW l \in LinkRows(top), NEW patch,
           DOMAIN patch \subseteq Links!Loaded \cup {"password_hash"},
           NEW e \in LinkRows(top), \A c \in DOMAIN patch : patch[c] = e[c]
    PROVE  /\ Links!Patched(l, patch) \in LinkRows(top)
           /\ Links!Patched(l, patch).exists = l.exists
           /\ \A c \in DOMAIN l : Links!Patched(l, patch)[c] = IF c \in DOMAIN patch THEN patch[c] ELSE l[c]
<1> DEFINE new == Links!Patched(l, patch)
           Fields == {"exists", "link_token", "access_mode", "password_hash", "is_active",
                       "total_views", "join_requests", "successful_joins"}
<1>1. DOMAIN l = Fields
  BY DEF LinkRows
<1>2. new = [c \in Fields |-> IF c \in DOMAIN patch THEN e[c] ELSE l[c]]
  BY <1>1 DEF Links!Patched
<1>3. "exists" \notin DOMAIN patch
  BY DEF Links!Loaded, Links!Counters
<1>4. new.exists = l.exists
  BY <1>2, <1>3
<1>5. /\ new.exists \in BOOLEAN /\ new.link_token \in 0..top /\ new.access_mode \in Links!Modes
      /\ new.password_hash \in BOOLEAN /\ new.is_active \in BOOLEAN /\ new.total_views \in Nat
      /\ new.join_requests \in Nat /\ new.successful_joins \in Nat
  BY <1>2 DEF LinkRows
<1>6. new = [exists |-> new.exists, link_token |-> new.link_token, access_mode |-> new.access_mode,
             password_hash |-> new.password_hash, is_active |-> new.is_active,
             total_views |-> new.total_views, join_requests |-> new.join_requests,
             successful_joins |-> new.successful_joins]
  BY <1>2
<1>7. new \in LinkRows(top)
  <2> HIDE DEF new
  <2> QED
    BY <1>5, <1>6 DEF LinkRows
<1> QED
  BY <1>4, <1>7 DEF Links!Patched

(* The second half of save: no column of a disabled link is written, no count *)
(* goes back.                                                                 *)
LEMMA LinkSaveStep == ASSUME LinkInv, NEW q \in Slots, Links!SaveLink(q) PROVE LinkInv'
<1>n. made \in Nat /\ link \in LinkRows(made)
  BY RequestsAssumption DEF LinkInv, LinkLinkInv
<1>1. LinkRequestInv(linkReq[q], link, made) /\ linkReq[q].pc = "save"
  BY DEF LinkInv, Links!SaveLink, Links!At
<1>2. PICK e \in LinkRows(made) : \A c \in DOMAIN linkReq[q].patch : linkReq[q].patch[c] = e[c]
  BY <1>1 DEF LinkRequestInv, LinkReqOK
<1>3. link' \in LinkRows(made) /\ link'.exists = link.exists
  BY <1>1, <1>2, <1>n, LinkPatchedRow DEF Links!SaveLink, LinkRequestInv, LinkReqOK
<1>4. link.exists
  BY <1>1 DEF LinkRequestInv, LinkFound
<1> QED
  BY <1>3, <1>4, LinkWritesInv DEF Links!SaveLink

(* Disabling the link. *)
LEMMA LinkDisableStep == ASSUME LinkInv, NEW q \in Slots, Links!Disable(q) PROVE LinkInv'
<1>n. made \in Nat /\ link \in LinkRows(made) /\ (~link.exists => \A c \in Links!Counters : link[c] = 0)
  BY RequestsAssumption DEF LinkInv, LinkLinkInv
<1>1. link' \in LinkRows(made) /\ link'.exists = link.exists /\ \A c \in Links!Counters : link'[c] = link[c]
  BY <1>n DEF Links!Disable, LinkRows, Links!Counters
<1> QED
  BY <1>n, <1>1, LinkWritesInv DEF Links!Disable

(* A guest reads the link, and sees the trip only with its password. *)
LEMMA LinkLookupStep == ASSUME LinkInv, NEW q \in Slots, Links!LookupLink(q) PROVE LinkInv'
<1> DEFINE h == linkReq[q]
<1>n. made \in Nat
  BY RequestsAssumption DEF LinkInv, LinkLinkInv
<1>1. LinkRequestInv(h, link, made) /\ DOMAIN h = LinkFields /\ h.pc = "lookup"
  BY DEF LinkInv, Links!LookupLink, Links!At, LinkRequestInv, LinkReqOK
<1>2. CASE Links!Ends(q)
  BY <1>2, <1>n, LinkIdleInv, LinkOneMoves DEF Links!LookupLink, Links!LinkIdle, Links!Ends
<1>3. ASSUME NEW step \in {"total_views", "join_requests"}, NEW m \in {"none"} \cup Links!Modes,
             linkReq' = [linkReq EXCEPT ![q] = [h EXCEPT !.pc = step, !.mode = m]],
             Links!Opens(link, h.token)
      PROVE  LinkInv'
  <2> DEFINE r == [h EXCEPT !.pc = step, !.mode = m]
  <2>1. /\ DOMAIN r = LinkFields /\ r.op = h.op /\ r.mode = m /\ r.password = h.password
        /\ r.pc = step /\ r.stale = h.stale /\ r.entity = h.entity /\ r.patch = h.patch
        /\ r.set = h.set
    <3> HIDE DEF h
    <3> QED
      BY <1>1 DEF LinkFields
  <2> HIDE DEF r
  <2>2. LinkReqOK(r, made)
    BY <1>1, <2>1 DEF LinkRequestInv, LinkReqOK, LinkSteps, Links!Counters
  <2>3. LinkAsked(r) /\ LinkFresh(r, link) /\ LinkFound(r, link)
    BY <1>3, <2>1 DEF LinkAsked, LinkFresh, LinkFound, Links!Opens
  <2> QED
    BY <1>3, <2>1, <2>2, <2>3, LinkOneMoves DEF Links!LookupLink, LinkRequestInv, r
<1>4. CASE Links!Opens(link, h.token) /\ Links!Goto(q, "total_views")
  <2>1. h.mode \in {"none"} \cup Links!Modes
    BY <1>1 DEF LinkRequestInv, LinkReqOK
  <2>2. [h EXCEPT !.pc = "total_views"] = [h EXCEPT !.pc = "total_views", !.mode = h.mode]
    <3> HIDE DEF h
    <3> QED
      BY <1>1 DEF LinkFields
  <2>3. linkReq' = [linkReq EXCEPT ![q] = [h EXCEPT !.pc = "total_views"]]
    BY <1>4 DEF Links!Goto
  <2> QED
    BY <1>3, <1>4, <2>1, <2>2, <2>3
<1>5. CASE Links!Opens(link, h.token) /\ \E m \in {"none", link.access_mode} \cap {"none", "auto-join"} :
                linkReq' = [linkReq EXCEPT ![q].pc = "join_requests", ![q].mode = m]
  <2>1. PICK m \in {"none", "auto-join"} :
                linkReq' = [linkReq EXCEPT ![q].pc = "join_requests", ![q].mode = m]
    BY <1>5
  <2>2. linkReq' = [linkReq EXCEPT ![q] = [h EXCEPT !.pc = "join_requests", !.mode = m]]
    BY <2>1 DEF LinkInv
  <2> QED
    BY <1>3, <1>5, <2>2 DEF Links!Modes
<1> QED
  BY <1>2, <1>4, <1>5 DEF Links!LookupLink

(* One counter goes up by one *)
LEMMA LinkIncrementedRow ==
    ASSUME NEW top \in Nat, NEW l \in LinkRows(top), NEW c \in Links!Counters
    PROVE  /\ Links!Incremented(l, c) \in LinkRows(top)
           /\ Links!Incremented(l, c).exists = l.exists
           /\ Links!Incremented(l, c).is_active = l.is_active
           /\ Links!Incremented(l, c).access_mode = l.access_mode
           /\ Links!Incremented(l, c).password_hash = l.password_hash
           /\ \A d \in Links!Counters : Links!Incremented(l, c)[d] >= l[d]
  BY DEF Links!Incremented, LinkRows, Links!Counters

(* A counter of the link grows by one. *)
LEMMA LinkCountStep == ASSUME LinkInv, NEW q \in Slots, NEW c \in Links!Counters, Links!Count(q, c) PROVE LinkInv'
<1>n. made \in Nat /\ link \in LinkRows(made)
  BY RequestsAssumption DEF LinkInv, LinkLinkInv
<1>1. LinkRequestInv(linkReq[q], link, made) /\ linkReq[q].pc = c /\ link.exists /\ DOMAIN linkReq[q] = LinkFields
  BY DEF LinkInv, Links!Count, Links!At, LinkRequestInv, LinkReqOK, LinkFound
<1>2. Links!AfterCounter(q, c) \in {"idle", "successful_joins"}
  BY DEF Links!AfterCounter
<1>3. CASE link' = Links!Incremented(link, c) /\ Links!WritesAndGoes(q, Links!AfterCounter(q, c))
  BY <1>n, <1>1, <1>2, <1>3, LinkIncrementedRow, LinkWritesInv DEF Links!Count
<1>4. CASE UNCHANGED link /\ Links!Ends(q)
  BY <1>4, <1>n, LinkIdleInv, LinkOneMoves DEF Links!Count, Links!LinkIdle, Links!Ends
<1>5. CASE UNCHANGED link /\ Links!AfterCounter(q, c) # "idle" /\ Links!Goto(q, Links!AfterCounter(q, c))
  <2> DEFINE h == linkReq[q]
             r == [h EXCEPT !.pc = "successful_joins"]
  <2>1. /\ DOMAIN r = LinkFields /\ r.op = h.op /\ r.mode = h.mode /\ r.password = h.password
        /\ r.pc = "successful_joins" /\ r.stale = h.stale /\ r.entity = h.entity /\ r.patch = h.patch
        /\ r.set = h.set
    <3> HIDE DEF h
    <3> QED
      BY <1>1 DEF LinkFields, h
  <2>2. linkReq' = [linkReq EXCEPT ![q] = r]
    BY <1>2, <1>5 DEF Links!Goto
  <2> HIDE DEF r
  <2>3. LinkReqOK(r, made)
    BY <1>1, <2>1 DEF LinkRequestInv, LinkReqOK, LinkSteps, Links!Counters
  <2>4. LinkAsked(r) /\ LinkFresh(r, link) /\ LinkFound(r, link)
    BY <1>1, <2>1 DEF LinkAsked, LinkFresh, LinkFound
  <2> QED
    BY <1>5, <2>1, <2>2, <2>3, <2>4, LinkOneMoves DEF Links!Count, LinkRequestInv
<1> QED
  BY <1>3, <1>4, <1>5 DEF Links!Count

(* A process that dies frees its slot. *)
LEMMA LinkCrashStep == ASSUME LinkInv, NEW q \in Slots, Links!Crash(q) PROVE LinkInv'
<1>n. made \in Nat
  BY RequestsAssumption DEF LinkInv, LinkLinkInv
<1> QED
  BY <1>n, LinkIdleInv, LinkOneMoves DEF Links!Crash, Links!LinkIdle, Links!Ends

(* Every step keeps the invariant. *)
LEMMA LinkNextStep == LinkInv /\ [Links!Next]_(Links!linkVars) => LinkInv'
<1> SUFFICES ASSUME LinkInv, [Links!Next]_(Links!linkVars) PROVE LinkInv'
  OBVIOUS
<1>1. CASE UNCHANGED Links!linkVars
  BY <1>1 DEF Links!linkVars, LinkInv, LinkLinkInv, LinkTokensLeft, LinkRenewing
<1>2. CASE Links!Next
  BY <1>2, LinkBeginAdminStep, LinkBeginGuestStep, LinkFindStep, LinkInsertStep, LinkReloadStep, LinkSaveStep, LinkDisableStep,
     LinkLookupStep, LinkCountStep, LinkCrashStep DEF Links!Next, Links!RequestStep
<1> QED
  BY <1>1, <1>2

(* A step by which the link does not change keeps what it promises *)
LinkPromise == Links!StaleSave \/
       /\ \A c \in Links!Counters : link'[c] >= link[c]
       /\ link.exists /\ ~link.is_active /\ link'.is_active
            => \E q \in Links!UnderWay(Links!Renewals) : Links!At(q, "save")
       /\ Links!AsksPassword(link) => Links!AsksPassword(link')

(* Under the invariant no step takes back what the link has promised. *)
LEMMA LinkPromiseStep == LinkInv /\ [Links!Next]_(Links!linkVars) => LinkPromise
<1> SUFFICES ASSUME LinkInv, [Links!Next]_(Links!linkVars) PROVE LinkPromise
  OBVIOUS
<1>n. made \in Nat /\ link \in LinkRows(made)
  BY RequestsAssumption DEF LinkInv, LinkLinkInv
<1>1. CASE UNCHANGED link
  <2>1. \A c \in Links!Counters : link[c] \in Nat
    BY <1>n DEF LinkRows, Links!Counters
  <2> QED
    BY <1>1, <2>1 DEF LinkPromise
<1>2. ASSUME NEW q \in Slots, Links!InsertLink(q) PROVE LinkPromise
  <2>1. CASE link.exists
    BY <2>1, <1>1, <1>2 DEF Links!InsertLink
  <2>2. CASE ~link.exists
    <3>1. link' = linkReq[q].entity /\ link' \in LinkRows(made) /\ Links!AsksPassword(link')
      BY <1>2, <2>2 DEF Links!InsertLink, LinkRequestInv, LinkReqOK, LinkAsked, LinkInv, Links!At
    <3>2. \A c \in Links!Counters : link[c] = 0 /\ link'[c] \in Nat
      BY <3>1, <2>2 DEF LinkInv, LinkLinkInv, LinkRows, Links!Counters
    <3> QED
      BY <2>2, <3>1, <3>2 DEF LinkPromise
  <2> QED
    BY <2>1, <2>2
<1>3. ASSUME NEW q \in Slots, Links!SaveLink(q) PROVE LinkPromise
  <2>1. LinkRequestInv(linkReq[q], link, made) /\ linkReq[q].pc = "save"
    BY <1>3 DEF LinkInv, Links!SaveLink, Links!At
  <2>2. CASE linkReq[q].stale
    <3>1. linkReq'[q].pc = "idle"
      BY <1>3 DEF Links!SaveLink, Links!WritesAndGoes, Links!LinkIdle
    <3> QED
      BY <2>1, <2>2, <3>1 DEF LinkPromise, Links!StaleSave, Links!At
  <2>3. CASE ~linkReq[q].stale
    <3>1. PICK e \in LinkRows(made) : \A c \in DOMAIN linkReq[q].patch : linkReq[q].patch[c] = e[c]
      BY <2>1 DEF LinkRequestInv, LinkReqOK
    <3>2. \A c \in DOMAIN link : link'[c] = IF c \in DOMAIN linkReq[q].patch THEN linkReq[q].patch[c] ELSE link[c]
      BY <1>3, <2>1, <3>1, <1>n, LinkPatchedRow DEF Links!SaveLink, LinkRequestInv, LinkReqOK
    <3>3. /\ Links!Counters \cap DOMAIN linkReq[q].patch = {}
          /\ "is_active" \in DOMAIN linkReq[q].patch => linkReq[q].op \in Links!Renewals
          /\ Links!AsksPassword(link) => Links!AsksPassword(link')
      BY <1>3, <2>1, <2>3 DEF LinkRequestInv, LinkFresh, Links!SaveLink
    <3>4. DOMAIN link = {"exists", "link_token", "access_mode", "password_hash", "is_active",
                       "total_views", "join_requests", "successful_joins"}
      BY <1>n DEF LinkRows
    <3>5. \A c \in Links!Counters : link'[c] = link[c] /\ link[c] \in Nat
      BY <1>n, <3>2, <3>3, <3>4 DEF Links!Counters, LinkRows
    <3>6. link'.is_active /\ ~link.is_active => q \in Links!UnderWay(Links!Renewals) /\ Links!At(q, "save")
      BY <2>1, <3>2, <3>3, <3>4 DEF Links!UnderWay, Links!At
    <3> QED
      BY <3>3, <3>5, <3>6 DEF LinkPromise
  <2> QED
    BY <2>2, <2>3
<1>4. ASSUME NEW q \in Slots, Links!Disable(q) PROVE LinkPromise
  <2>1. /\ \A c \in Links!Counters : link'[c] = link[c] /\ link[c] \in Nat
        /\ link'.is_active = FALSE /\ link'.access_mode = link.access_mode
        /\ link'.password_hash = link.password_hash
    BY <1>4, <1>n DEF Links!Disable, LinkRows, Links!Counters
  <2> QED
    BY <2>1 DEF LinkPromise, Links!AsksPassword, Links!Verified
<1>5. ASSUME NEW q \in Slots, NEW c \in Links!Counters, Links!Count(q, c) PROVE LinkPromise
  <2>1. CASE UNCHANGED link
    BY <2>1, <1>1
  <2>2. CASE link' = Links!Incremented(link, c)
    BY <2>2, <1>n, LinkIncrementedRow DEF LinkPromise, Links!AsksPassword, Links!Verified
  <2> QED
    BY <1>5, <2>1, <2>2 DEF Links!Count
<1>6. CASE UNCHANGED Links!linkVars
  BY <1>1, <1>6 DEF Links!linkVars
<1>7. CASE Links!Next
  BY <1>7, <1>1, <1>2, <1>3, <1>4, <1>5, ZenonT(60) DEF Links!Next, Links!RequestStep, Links!BeginAdmin, Links!BeginGuest, Links!FindLink,
     Links!ReloadLink, Links!LookupLink, Links!Crash
<1> QED
  BY <1>6, <1>7

(* The type invariant of the share link, for any number of requests, tokens and *)
(* faults.                                                                      *)
LEMMA LinkLinkTypes == Links!Spec => []Links!TypeOK
<1>1. LinkInv => Links!TypeOK
  BY DEF LinkInv, LinkLinkInv, Links!TypeOK, LinkRequestInv, LinkReqOK, LinkRows
<1> QED
  BY <1>1, LinkInitInv, LinkNextStep, PTL DEF Links!Spec

(* ShareLinksService: a counter of the link never falls, a disabled link becomes  *)
(* active by an upsert or a regenerate only, and a link that asked for a password *)
(* still does; but for a save of an entity loaded before somebody else wrote the  *)
(* link.                                                                          *)
LEMMA LinkPromisesStand == Links!Spec => Links!LinkStands
<1>1. LinkInv /\ [Links!Next]_(Links!linkVars) => [LinkPromise]_(Links!linkVars)
  BY LinkPromiseStep
<1>2. Links!Spec => []LinkInv
  BY LinkInitInv, LinkNextStep, PTL DEF Links!Spec
<1> QED
  BY <1>1, <1>2, PTL DEF Links!Spec, Links!LinkStands, LinkPromise

-----------------------------------------------------------------------------
(* The SOS alert *)

SosSteps == {"idle", "find", "cancel", "acknowledge", "reload", "save"}

(* A request follows its operation; what it has loaded or is going to write has a status *)
SosReqOK(r) ==
    /\ DOMAIN r = {"op", "u", "pc", "patch", "stale", "entity"}
    /\ r.pc \in SosSteps
    /\ r.op \in {"cancel", "acknowledge"}
    /\ r.stale \in BOOLEAN
    /\ r.pc \in {"cancel", "acknowledge"} => r.op = r.pc
    /\ r.pc \in {"cancel", "acknowledge", "reload"}
         => DOMAIN r.entity = Sos!Columns /\ r.entity.status # "none"
    /\ r.pc = "save" /\ "status" \in DOMAIN r.patch => r.patch.status # "none"

(* A request that nobody has overtaken has loaded the alert as it still is, and adds *)
(* to it: an acknowledgement, or the closing of an alert that is active              *)
SosFresh(r) ==
    ~r.stale =>
      /\ r.pc \in {"cancel", "acknowledge"} => r.entity = alert
      /\ r.pc = "cancel" => alert.status = "active"
      /\ r.pc = "reload" =>
           /\ alert.acknowledged_by \subseteq r.entity.acknowledged_by
           /\ \/ alert.status = "active"
              \/ /\ r.entity.status = alert.status
                 /\ r.entity.resolved_at = alert.resolved_at
      /\ r.pc = "save" =>
           /\ "acknowledged_by" \in DOMAIN r.patch
                => alert.acknowledged_by \subseteq r.patch.acknowledged_by
           /\ "status" \in DOMAIN r.patch \/ "resolved_at" \in DOMAIN r.patch
                => alert.status = "active"

(* There are requests only about an alert that was raised *)
SosRaised(r) == r.pc = "idle" \/ alert.status # "none"

SosRequestInv(r) == SosReqOK(r) /\ SosFresh(r) /\ SosRaised(r)

SosInv ==
    /\ DOMAIN alert = Sos!Columns
    /\ DOMAIN sosReq = Slots
    /\ \A q \in Slots : SosRequestInv(sosReq[q])

-----------------------------------------------------------------------------
(* The slot without a request satisfies the invariant, whatever the alert is. *)
LEMMA SosIdleInv == SosRequestInv(Sos!SosIdle)
  BY DEF SosRequestInv, SosReqOK, SosFresh, SosRaised, Sos!SosIdle, SosSteps

(* The invariant holds at the start. *)
LEMMA SosInitInv == Sos!Init => SosInv
<1> SUFFICES ASSUME Sos!Init PROVE SosInv
  OBVIOUS
<1>1. DOMAIN alert = Sos!Columns
  BY DEF Sos!Init, Sos!NoAlert, Sos!Columns
<1>2. sosReq = [q \in Slots |-> Sos!SosIdle]
  BY DEF Sos!Init
<1> QED
  BY <1>1, <1>2, SosIdleInv DEF SosInv

(* A step of one request that leaves the alert alone *)
LEMMA SosOneMoves ==
    ASSUME SosInv, NEW q \in Slots, NEW r, sosReq' = [sosReq EXCEPT ![q] = r],
           SosRequestInv(r), UNCHANGED alert
    PROVE  SosInv'
<1>1. \A p \in Slots : sosReq'[p] = IF p = q THEN r ELSE sosReq[p]
  BY DEF SosInv
<1>2. \A p \in Slots : SosRequestInv(sosReq'[p])
  BY <1>1 DEF SosInv
<1> QED
  BY <1>2 DEF SosInv, SosRequestInv, SosReqOK, SosFresh, SosRaised

(* The find of a request's alert keeps the invariant. *)
LEMMA SosFindStep == ASSUME SosInv, NEW q \in Slots, Sos!FindAlert(q) PROVE SosInv'
<1>0. SosRequestInv(sosReq[q]) /\ sosReq[q].pc = "find" /\ UNCHANGED alert
  BY DEF SosInv, Sos!FindAlert, Sos!At
<1>1. CASE sosReq[q].op = "cancel" /\ Sos!IsClosed(alert)
  BY <1>0, <1>1, SosOneMoves, SosIdleInv DEF Sos!FindAlert, Sos!Ends
<1>2. CASE ~(sosReq[q].op = "cancel" /\ Sos!IsClosed(alert))
  <2> DEFINE r == [sosReq[q] EXCEPT !.entity = alert, !.pc = sosReq[q].op]
  <2>1. sosReq' = [sosReq EXCEPT ![q] = r]
    BY <1>2 DEF Sos!FindAlert, SosInv
  <2>2. /\ DOMAIN r = {"op", "u", "pc", "patch", "stale", "entity"}
        /\ r.pc = sosReq[q].op /\ r.op = sosReq[q].op /\ r.entity = alert
        /\ r.stale = sosReq[q].stale
    BY <1>0 DEF SosRequestInv, SosReqOK
  <2>3. SosRequestInv(r)
    BY <1>0, <1>2, <2>2 DEF SosInv, SosRequestInv, SosReqOK, SosFresh, SosRaised, Sos!IsClosed, SosSteps
  <2> QED
    BY <1>0, <2>1, <2>3, SosOneMoves
<1> QED
  BY <1>1, <1>2

(* cancel closes an entity that was active when it was found. *)
LEMMA SosCloseStep == ASSUME SosInv, NEW q \in Slots, Sos!CloseEntity(q) PROVE SosInv'
<1>0. SosRequestInv(sosReq[q]) /\ sosReq[q].pc = "cancel" /\ UNCHANGED alert
  BY DEF SosInv, Sos!CloseEntity, Sos!At
<1> DEFINE r == [sosReq[q] EXCEPT !.entity.status = Sos!ClosedAs(sosReq[q].u),
                                  !.entity.resolved_at = closings', !.pc = "reload"]
<1>1. sosReq' = [sosReq EXCEPT ![q] = r]
  BY DEF Sos!CloseEntity, SosInv
<1>2. /\ DOMAIN r = {"op", "u", "pc", "patch", "stale", "entity"}
      /\ r.pc = "reload" /\ r.op = sosReq[q].op /\ r.stale = sosReq[q].stale
      /\ DOMAIN r.entity = Sos!Columns
      /\ r.entity.status = Sos!ClosedAs(sosReq[q].u)
      /\ r.entity.acknowledged_by = sosReq[q].entity.acknowledged_by
  BY <1>0 DEF SosRequestInv, SosReqOK, Sos!Columns
<1>3. Sos!ClosedAs(sosReq[q].u) # "none"
  BY DEF Sos!ClosedAs
<1>4. SosRequestInv(r)
  BY <1>0, <1>2, <1>3 DEF SosRequestInv, SosReqOK, SosFresh, SosRaised, SosSteps
<1> QED
  BY <1>0, <1>1, <1>4, SosOneMoves

(* acknowledge adds its user to the entity's list. *)
LEMMA SosAcknowledgeStep == ASSUME SosInv, NEW q \in Slots, Sos!AcknowledgeEntity(q) PROVE SosInv'
<1> DEFINE u == sosReq[q].u
<1>0. SosRequestInv(sosReq[q]) /\ sosReq[q].pc = "acknowledge" /\ UNCHANGED alert
  BY DEF SosInv, Sos!AcknowledgeEntity, Sos!At
<1>1. CASE Sos!Ends(q)
  BY <1>0, <1>1, SosOneMoves, SosIdleInv DEF Sos!Ends
<1>2. CASE ~Sos!Ends(q)
  <2> DEFINE r == [sosReq[q] EXCEPT !.entity.acknowledged_by = Sos!Acknowledged(@, u),
                                    !.pc = "reload"]
  <2>1. sosReq' = [sosReq EXCEPT ![q] = r]
    BY <1>2 DEF Sos!AcknowledgeEntity, SosInv
  <2>2. /\ DOMAIN r = {"op", "u", "pc", "patch", "stale", "entity"}
        /\ r.pc = "reload" /\ r.op = sosReq[q].op /\ r.stale = sosReq[q].stale
        /\ DOMAIN r.entity = Sos!Columns
        /\ r.entity.status = sosReq[q].entity.status
        /\ r.entity.resolved_at = sosReq[q].entity.resolved_at
        /\ r.entity.acknowledged_by = sosReq[q].entity.acknowledged_by \cup {u}
    BY <1>0 DEF SosRequestInv, SosReqOK, Sos!Columns, Sos!Acknowledged
  <2>3. SosRequestInv(r)
    BY <1>0, <2>2 DEF SosRequestInv, SosReqOK, SosFresh, SosRaised, SosSteps
  <2> QED
    BY <1>0, <2>1, <2>3, SosOneMoves
<1> QED
  BY <1>1, <1>2

(* The first half of save: the columns that differ from the row as it is now. *)
LEMMA SosReloadStep == ASSUME SosInv, NEW q \in Slots, Sos!ReloadAlert(q) PROVE SosInv'
<1> DEFINE entity == sosReq[q].entity
           patch == [c \in Sos!Differing(entity) |-> entity[c]]
           r == [sosReq[q] EXCEPT !.pc = "save", !.u = Admin, !.entity = Sos!NoAlert,
                                  !.patch = patch]
<1>0. SosRequestInv(sosReq[q]) /\ sosReq[q].pc = "reload" /\ UNCHANGED alert
  BY DEF SosInv, Sos!ReloadAlert, Sos!At
<1>1. sosReq' = [sosReq EXCEPT ![q] = r]
  BY DEF Sos!ReloadAlert, SosInv
<1>2. /\ DOMAIN r = {"op", "u", "pc", "patch", "stale", "entity"}
      /\ r.pc = "save" /\ r.op = sosReq[q].op /\ r.stale = sosReq[q].stale
      /\ r.patch = patch
  BY <1>0 DEF SosRequestInv, SosReqOK
<1>3. /\ DOMAIN patch = Sos!Differing(entity)
      /\ \A c \in Sos!Differing(entity) : patch[c] = entity[c] /\ entity[c] # alert[c]
  BY DEF Sos!Differing
<1>4. /\ "status" \in DOMAIN patch
           => patch.status = entity.status /\ entity.status # alert.status
      /\ "resolved_at" \in DOMAIN patch => entity.resolved_at # alert.resolved_at
      /\ "acknowledged_by" \in DOMAIN patch => patch.acknowledged_by = entity.acknowledged_by
  BY <1>3
<1>5. SosRequestInv(r)
  <2> HIDE DEF patch, r
  <2> QED
    BY <1>0, <1>2, <1>4 DEF SosRequestInv, SosReqOK, SosFresh, SosRaised, SosSteps
<1> QED
  BY <1>0, <1>1, <1>5, SosOneMoves

(* A save makes every request that has loaded the alert a stale one. *)
LEMMA SosSaveStep == ASSUME SosInv, NEW q \in Slots, Sos!SaveAlert(q) PROVE SosInv'
<1>0. SosRequestInv(sosReq[q]) /\ sosReq[q].pc = "save"
  BY DEF SosInv, Sos!SaveAlert, Sos!At
<1>1. /\ DOMAIN alert' = Sos!Columns
      /\ alert'.status = IF "status" \in DOMAIN sosReq[q].patch THEN sosReq[q].patch.status
                         ELSE alert.status
  BY DEF Sos!SaveAlert, Sos!Patched, Sos!Columns
<1>2. alert'.status # "none"
  BY <1>0, <1>1 DEF SosRequestInv, SosReqOK, SosRaised
<1>3. ASSUME NEW p \in Slots PROVE SosRequestInv(sosReq[p])'
  <2>1. CASE p = q
    <3>1. sosReq'[p] = Sos!SosIdle
      BY <2>1 DEF Sos!SaveAlert
    <3> QED
      BY <3>1 DEF SosRequestInv, SosReqOK, SosFresh, SosRaised, Sos!SosIdle, SosSteps
  <2>2. CASE p # q
    <3> DEFINE r == sosReq[p]
    <3>1. sosReq'[p] = [r EXCEPT !.stale = r.pc \notin {"idle", "find"}]
      BY <2>2 DEF Sos!SaveAlert
    <3>2. SosReqOK(r)
      BY DEF SosInv, SosRequestInv
    <3>3. /\ DOMAIN sosReq'[p] = {"op", "u", "pc", "patch", "stale", "entity"}
          /\ sosReq'[p].pc = r.pc /\ sosReq'[p].op = r.op /\ sosReq'[p].patch = r.patch
          /\ sosReq'[p].entity = r.entity
          /\ sosReq'[p].stale = (r.pc \notin {"idle", "find"})
      BY <3>1, <3>2 DEF SosReqOK
    <3>4. SosReqOK(sosReq[p])'
      BY <3>2, <3>3 DEF SosReqOK
    <3>5. SosFresh(sosReq[p])'
      BY <3>3 DEF SosFresh
    <3> QED
      BY <1>2, <3>4, <3>5 DEF SosRequestInv, SosRaised
  <2> QED
    BY <2>1, <2>2
<1>4. DOMAIN sosReq' = Slots
  BY DEF Sos!SaveAlert
<1> QED
  BY <1>1, <1>3, <1>4 DEF SosInv

(* Every step keeps the invariant. *)
LEMMA SosNextStep == SosInv /\ [Sos!Next]_(Sos!sosVars) => SosInv'
<1> SUFFICES ASSUME SosInv, [Sos!Next]_(Sos!sosVars) PROVE SosInv'
  OBVIOUS
<1>u. ASSUME UNCHANGED <<alert, sosReq>> PROVE SosInv'
  BY <1>u DEF SosInv, SosRequestInv, SosReqOK, SosFresh, SosRaised
<1>1. CASE Sos!Create
  <2>1. /\ DOMAIN alert' = Sos!Columns /\ alert'.status = "active"
        /\ sosReq' = sosReq
    BY <1>1 DEF Sos!Create, SosInv, Sos!Columns
  <2>2. \A q \in Slots : sosReq[q].pc = "idle"
    BY <1>1 DEF Sos!Create, SosInv, SosRequestInv, SosRaised
  <2> QED
    BY <2>1, <2>2 DEF SosInv, SosRequestInv, SosReqOK, SosFresh, SosRaised
<1>2. CASE Sos!WindowEnds \/ \E u \in Riders : Sos!LeaveTrip(u)
  BY <1>2, <1>u DEF Sos!WindowEnds, Sos!LeaveTrip
<1>3. ASSUME NEW q \in Slots, NEW op \in {"cancel", "acknowledge"}, NEW u \in Riders, Sos!Begin(q, op, u)
      PROVE  SosInv'
  <2> DEFINE r == [Sos!SosIdle EXCEPT !.op = op, !.u = u, !.pc = "find"]
  <2>1. sosReq' = [sosReq EXCEPT ![q] = r] /\ UNCHANGED alert /\ alert.status # "none"
    BY <1>3 DEF Sos!Begin
  <2>2. SosRequestInv(r)
    BY <2>1 DEF SosRequestInv, SosReqOK, SosFresh, SosRaised, Sos!SosIdle, SosSteps
  <2> QED
    BY <2>1, <2>2, SosOneMoves
<1>4. ASSUME NEW q \in Slots, Sos!RequestStep(q) PROVE SosInv'
  BY <1>4, SosFindStep, SosCloseStep, SosAcknowledgeStep, SosReloadStep, SosSaveStep DEF Sos!RequestStep
<1> QED
  BY <1>1, <1>2, <1>3, <1>4, <1>u DEF Sos!Next, Sos!sosVars

(* Only a save writes the alert once it is raised, and one that is not stale adds to it. *)
LEMMA SosStandsStep ==
    SosInv /\ [Sos!Next]_(Sos!sosVars)
      => [\/ Sos!StaleSave
          \/ /\ alert.acknowledged_by \subseteq alert'.acknowledged_by
             /\ alert.status \in {"false-alarm", "resolved"}
                  => alert'.status = alert.status /\ alert'.resolved_at = alert.resolved_at]_(Sos!sosVars)
<1> DEFINE Kept == /\ alert.acknowledged_by \subseteq alert'.acknowledged_by
                   /\ alert.status \in {"false-alarm", "resolved"}
                        => alert'.status = alert.status /\ alert'.resolved_at = alert.resolved_at
<1> SUFFICES ASSUME SosInv, Sos!Next PROVE Sos!StaleSave \/ Kept
  OBVIOUS
<1>1. CASE UNCHANGED alert
  BY <1>1
<1>2. CASE Sos!Create
  <2>1. alert'.acknowledged_by = alert.acknowledged_by /\ alert.status = "none"
    BY <1>2 DEF Sos!Create, SosInv, Sos!Columns
  <2> QED
    BY <2>1
<1>3. ASSUME NEW q \in Slots, Sos!SaveAlert(q), ~Sos!StaleSave PROVE Kept
  <2> DEFINE patch == sosReq[q].patch
  <2>1. ~sosReq[q].stale
    <3>1. sosReq'[q].pc = "idle" /\ Sos!At(q, "save")
      BY <1>3 DEF Sos!SaveAlert, Sos!SosIdle
    <3> QED
      BY <1>3, <3>1 DEF Sos!StaleSave
  <2>2. /\ "acknowledged_by" \in DOMAIN patch
             => alert.acknowledged_by \subseteq patch.acknowledged_by
        /\ "status" \in DOMAIN patch \/ "resolved_at" \in DOMAIN patch
             => alert.status = "active"
    BY <1>3, <2>1 DEF SosInv, SosRequestInv, SosFresh, Sos!SaveAlert, Sos!At
  <2>3. \A c \in Sos!Columns : alert'[c] = IF c \in DOMAIN patch THEN patch[c] ELSE alert[c]
    BY <1>3 DEF Sos!SaveAlert, Sos!Patched
  <2>4. /\ alert'.acknowledged_by = IF "acknowledged_by" \in DOMAIN patch
                                    THEN patch.acknowledged_by ELSE alert.acknowledged_by
        /\ "status" \notin DOMAIN patch => alert'.status = alert.status
        /\ "resolved_at" \notin DOMAIN patch => alert'.resolved_at = alert.resolved_at
    BY <2>3 DEF Sos!Columns
  <2> QED
    BY <2>2, <2>4
<1>4. Sos!Create \/ UNCHANGED alert \/ \E q \in Slots : Sos!SaveAlert(q)
  BY DEF Sos!Next, Sos!WindowEnds, Sos!Begin, Sos!RequestStep, Sos!FindAlert, Sos!CloseEntity, Sos!AcknowledgeEntity,
         Sos!ReloadAlert, Sos!LeaveTrip
<1> QED
  BY <1>1, <1>2, <1>3, <1>4

-----------------------------------------------------------------------------
(* SosService.cancel's 'already cancelled: idempotent' and acknowledge: however *)
(* requests overlap, how an alert was closed is final and an acknowledgement    *)
(* stays, but for a save by a request that another one has overtaken.           *)
LEMMA SosStands == Sos!Spec => Sos!AnswersStand
  BY SosInitInv, SosNextStep, SosStandsStep, PTL DEF Sos!Spec, Sos!AnswersStand

-----------------------------------------------------------------------------
(* The cardinality that the instance knows is the one of FiniteSets. *)
LEMMA SosCountSame == \A S : Sos!Cardinality(S) = Cardinality(S)
  BY DEF Sos!Cardinality, Cardinality

SosStatuses == {"none", "active", "false-alarm", "resolved"}

SosAlerts == [status : SosStatuses, resolved_at : 0..MaxCloses, acknowledged_by : SUBSET Riders]

(* What a request carries is what the columns may have *)
SosCarries(r) ==
    /\ r.pc \in {"find", "cancel", "acknowledge"} => r.u \in Riders
    /\ r.pc \in {"cancel", "acknowledge", "reload"} => r.entity \in SosAlerts
    /\ DOMAIN r.patch \subseteq Sos!Columns
    /\ "status" \in DOMAIN r.patch => r.patch.status \in SosStatuses
    /\ "resolved_at" \in DOMAIN r.patch => r.patch.resolved_at \in 0..MaxCloses
    /\ "acknowledged_by" \in DOMAIN r.patch => r.patch.acknowledged_by \in SUBSET Riders

(* The cancels that have not closed their entity yet *)
SosToClose(r) == r.op = "cancel" /\ r.pc \in {"find", "cancel"}
SosClosing == {q \in Slots : SosToClose(sosReq[q])}

SosTypeInv ==
    /\ alert \in SosAlerts /\ early \in BOOLEAN /\ onTrip \in SUBSET Riders
    /\ closings \in Nat /\ closings + Cardinality(SosClosing) <= MaxCloses
    /\ \A q \in Slots : SosCarries(sosReq[q])

(* A part of a set of slots is not larger. *)
LEMMA SosFewer ==
    ASSUME NEW S \in SUBSET Slots, NEW T \in SUBSET S
    PROVE  Cardinality(S) \in Nat /\ Cardinality(T) \in Nat /\ Cardinality(T) <= Cardinality(S)
<1>1. IsFiniteSet(S)
  BY RequestsAssumption, FS_Subset
<1>2. IsFiniteSet(T) /\ Cardinality(T) <= Cardinality(S)
  BY <1>1, FS_Subset
<1> QED
  BY <1>1, <1>2, FS_CardinalityType

(* A free slot carries nothing. *)
LEMMA SosIdleCarries == SosCarries(Sos!SosIdle)
  BY DEF SosCarries, Sos!SosIdle

(* The types hold at the start. *)
LEMMA SosInitTypes == Sos!Init => SosTypeInv
<1> SUFFICES ASSUME Sos!Init PROVE SosTypeInv
  OBVIOUS
<1>1. \A q \in Slots : sosReq[q] = Sos!SosIdle
  BY DEF Sos!Init
<1>2. SosClosing = {}
  BY <1>1 DEF SosClosing, SosToClose, Sos!SosIdle
<1>3. Cardinality(SosClosing) = 0
  BY <1>2, FS_EmptySet
<1>4. alert \in SosAlerts
  BY RequestsAssumption DEF Sos!Init, Sos!NoAlert, SosAlerts, SosStatuses
<1> QED
  <2>1. early \in BOOLEAN /\ onTrip \in SUBSET Riders /\ closings = 0
    BY DEF Sos!Init
  <2>2. closings \in Nat /\ closings + Cardinality(SosClosing) <= MaxCloses
    BY <1>3, <2>1, SosCountSame, RequestsAssumption
  <2>3. \A q \in Slots : SosCarries(sosReq[q])
    BY <1>1, SosIdleCarries
  <2> QED
    BY <1>4, <2>1, <2>2, <2>3 DEF SosTypeInv

(* A request that moves, closes nothing and leaves the alert alone keeps the types *)
LEMMA SosOneCarries ==
    ASSUME SosInv, SosTypeInv, NEW q \in Slots, NEW r, sosReq' = [sosReq EXCEPT ![q] = r],
           SosCarries(r), SosToClose(r) => SosToClose(sosReq[q]), UNCHANGED <<alert, early, onTrip, closings>>
    PROVE  SosTypeInv'
<1>1. \A p \in Slots : sosReq'[p] = IF p = q THEN r ELSE sosReq[p]
  BY DEF SosInv
<1>2. SosClosing' \in SUBSET SosClosing /\ SosClosing \in SUBSET Slots
  BY <1>1 DEF SosClosing
<1>3. Cardinality(SosClosing) \in Nat /\ Cardinality(SosClosing') \in Nat
      /\ Cardinality(SosClosing') <= Cardinality(SosClosing)
  BY <1>2, SosFewer
<1>4. closings' + Cardinality(SosClosing') <= MaxCloses
  BY <1>3, SosCountSame, RequestsAssumption DEF SosTypeInv
<1>5. \A p \in Slots : SosCarries(sosReq'[p])
  BY <1>1 DEF SosTypeInv
<1> QED
  BY <1>4, <1>5, SosCountSame DEF SosTypeInv, SosCarries

(* A new request is counted before it may close anything. *)
LEMMA SosBeginTypes ==
    ASSUME SosInv, SosTypeInv, NEW q \in Slots, NEW op \in {"cancel", "acknowledge"}, NEW u \in Riders,
           Sos!Begin(q, op, u)
    PROVE  SosTypeInv'
<1> DEFINE r == [Sos!SosIdle EXCEPT !.op = op, !.u = u, !.pc = "find"]
           Cancels == {p \in Slots : sosReq[p].op = "cancel"}
<1>1. sosReq' = [sosReq EXCEPT ![q] = r] /\ UNCHANGED <<alert, early, onTrip, closings>> /\ Sos!At(q, "idle")
      /\ (op = "cancel" => closings + Cardinality(Cancels) < MaxCloses)
  BY SosCountSame DEF Sos!Begin
<1>2. r.pc = "find" /\ r.op = op /\ r.u = u /\ r.patch = << >>
  BY DEF Sos!SosIdle
<1>3. SosCarries(r)
  BY <1>2, SosIdleCarries DEF SosCarries, Sos!SosIdle
<1>4. CASE op = "acknowledge"
  BY <1>1, <1>2, <1>3, <1>4, SosOneCarries DEF SosToClose
<1>5. CASE op = "cancel"
  <2>1. \A p \in Slots : sosReq'[p] = IF p = q THEN r ELSE sosReq[p]
    BY <1>1 DEF SosInv
  <2>2. SosClosing \in SUBSET Cancels /\ Cancels \in SUBSET Slots /\ SosClosing' \in SUBSET (SosClosing \cup {q})
        /\ SosClosing \in SUBSET Slots
    BY <2>1 DEF SosClosing, SosToClose
  <2>3. Cardinality(SosClosing) <= Cardinality(Cancels) /\ Cardinality(SosClosing) \in Nat
        /\ Cardinality(Cancels) \in Nat
    BY <2>2, SosFewer
  <2>4. IsFiniteSet(SosClosing)
    BY <2>2, RequestsAssumption, FS_Subset
  <2>5. IsFiniteSet(SosClosing \cup {q}) /\ Cardinality(SosClosing \cup {q}) <= Cardinality(SosClosing) + 1
    <3>1. /\ IsFiniteSet(SosClosing \cup {q})
          /\ Cardinality(SosClosing \cup {q}) = IF q \in SosClosing THEN Cardinality(SosClosing)
                                             ELSE Cardinality(SosClosing) + 1
      BY <2>4, FS_AddElement
    <3> QED
      BY <2>3, <3>1
  <2>6. SosClosing \cup {q} \in SUBSET Slots
    BY <2>2
  <2>7. Cardinality(SosClosing') <= Cardinality(SosClosing \cup {q}) /\ Cardinality(SosClosing') \in Nat
        /\ Cardinality(SosClosing \cup {q}) \in Nat
    BY <2>2, <2>6, SosFewer
  <2> HIDE DEF Cancels
  <2>8. closings' + Cardinality(SosClosing') <= MaxCloses
    BY <1>1, <1>5, <2>3, <2>5, <2>7, SosCountSame, RequestsAssumption DEF SosTypeInv
  <2>9. \A p \in Slots : SosCarries(sosReq'[p])
    BY <1>3, <2>1 DEF SosTypeInv
  <2> QED
    BY <1>1, <2>8, <2>9, SosCountSame DEF SosTypeInv, SosCarries
<1> QED
  BY <1>4, <1>5

(* A request finds an alert with the types of the row. *)
LEMMA SosFindTypes == ASSUME SosInv, SosTypeInv, NEW q \in Slots, Sos!FindAlert(q) PROVE SosTypeInv'
<1>1. SosRequestInv(sosReq[q]) /\ sosReq[q].pc = "find" /\ UNCHANGED <<alert, early, onTrip, closings>>
      /\ SosCarries(sosReq[q]) /\ alert \in SosAlerts
  BY DEF SosInv, SosTypeInv, Sos!FindAlert, Sos!At
<1>2. CASE Sos!Ends(q)
  BY <1>1, <1>2, SosOneCarries, SosIdleCarries DEF Sos!Ends, SosToClose, Sos!SosIdle
<1>3. CASE ~Sos!Ends(q)
  <2> DEFINE r == [sosReq[q] EXCEPT !.entity = alert, !.pc = sosReq[q].op]
  <2>1. sosReq' = [sosReq EXCEPT ![q] = r]
    BY <1>3 DEF Sos!FindAlert, SosInv
  <2>2. /\ r.pc = sosReq[q].op /\ r.op = sosReq[q].op /\ r.entity = alert
        /\ r.u = sosReq[q].u /\ r.patch = sosReq[q].patch /\ r.pc \in {"cancel", "acknowledge"}
    BY <1>1 DEF SosRequestInv, SosReqOK
  <2> HIDE DEF r
  <2>3. SosCarries(r) /\ (SosToClose(r) => SosToClose(sosReq[q]))
    BY <1>1, <2>2 DEF SosCarries, SosToClose
  <2> QED
    BY <1>1, <2>1, <2>3, SosOneCarries
<1> QED
  BY <1>2, <1>3

(* A cancel closes its entity once. *)
LEMMA SosCloseTypes == ASSUME SosInv, SosTypeInv, NEW q \in Slots, Sos!CloseEntity(q) PROVE SosTypeInv'
<1> DEFINE r == [sosReq[q] EXCEPT !.entity.status = Sos!ClosedAs(sosReq[q].u),
                                  !.entity.resolved_at = closings', !.pc = "reload"]
<1>1. SosRequestInv(sosReq[q]) /\ sosReq[q].pc = "cancel" /\ UNCHANGED <<alert, early, onTrip>>
      /\ SosCarries(sosReq[q]) /\ alert \in SosAlerts /\ closings' = closings + 1 /\ closings \in Nat
  BY DEF SosInv, SosTypeInv, Sos!CloseEntity, Sos!At
<1>2. sosReq' = [sosReq EXCEPT ![q] = r]
  BY DEF Sos!CloseEntity, SosInv
<1>3. \A p \in Slots : sosReq'[p] = IF p = q THEN r ELSE sosReq[p]
  BY <1>2 DEF SosInv
<1>4. r.pc = "reload" /\ r.patch = sosReq[q].patch
      /\ r.entity = [sosReq[q].entity EXCEPT !.status = Sos!ClosedAs(sosReq[q].u), !.resolved_at = closings']
  BY <1>1 DEF SosRequestInv, SosReqOK
<1> HIDE DEF r
<1>5. q \in SosClosing /\ SosClosing' \in SUBSET (SosClosing \ {q}) /\ SosClosing \in SUBSET Slots
  BY <1>1, <1>3, <1>4 DEF SosClosing, SosToClose, SosRequestInv, SosReqOK
<1>6. Cardinality(SosClosing') + 1 <= Cardinality(SosClosing) /\ Cardinality(SosClosing) \in Nat
      /\ Cardinality(SosClosing') \in Nat
  <2>1. IsFiniteSet(SosClosing) /\ Cardinality(SosClosing) \in Nat
    BY <1>5, RequestsAssumption, FS_Subset, FS_CardinalityType
  <2>2. Cardinality(SosClosing \ {q}) = Cardinality(SosClosing) - 1
    BY <1>5, <2>1, FS_RemoveElement
  <2>3. SosClosing \ {q} \in SUBSET Slots
    BY <1>5
  <2>4. Cardinality(SosClosing') <= Cardinality(SosClosing \ {q}) /\ Cardinality(SosClosing') \in Nat
    BY <1>5, <2>3, SosFewer
  <2> QED
    BY <2>1, <2>2, <2>4
<1>7. closings' \in Nat /\ closings' + Cardinality(SosClosing') <= MaxCloses /\ closings' \in 0..MaxCloses
  BY <1>1, <1>6, SosCountSame, RequestsAssumption DEF SosTypeInv
<1>8. SosCarries(r)
  <2>1. r.entity \in SosAlerts
    BY <1>1, <1>4, <1>7 DEF SosCarries, SosAlerts, Sos!ClosedAs, SosStatuses
  <2> QED
    BY <1>1, <1>4, <2>1 DEF SosCarries
<1>9. \A p \in Slots : SosCarries(sosReq'[p])
  BY <1>3, <1>8 DEF SosTypeInv
<1> QED
  BY <1>1, <1>7, <1>9, SosCountSame DEF SosTypeInv, SosCarries

(* An acknowledgement is of a rider. *)
LEMMA SosAcknowledgeTypes == ASSUME SosInv, SosTypeInv, NEW q \in Slots, Sos!AcknowledgeEntity(q) PROVE SosTypeInv'
<1> DEFINE u == sosReq[q].u
<1>1. SosRequestInv(sosReq[q]) /\ sosReq[q].pc = "acknowledge" /\ UNCHANGED <<alert, early, onTrip, closings>>
      /\ SosCarries(sosReq[q])
  BY DEF SosInv, SosTypeInv, Sos!AcknowledgeEntity, Sos!At
<1>2. CASE Sos!Ends(q)
  BY <1>1, <1>2, SosOneCarries, SosIdleCarries DEF Sos!Ends, SosToClose, Sos!SosIdle
<1>3. CASE ~Sos!Ends(q)
  <2> DEFINE r == [sosReq[q] EXCEPT !.entity.acknowledged_by = Sos!Acknowledged(@, u), !.pc = "reload"]
  <2>1. sosReq' = [sosReq EXCEPT ![q] = r]
    BY <1>3 DEF Sos!AcknowledgeEntity, SosInv
  <2>2. /\ r.pc = "reload" /\ r.patch = sosReq[q].patch
        /\ r.entity = [sosReq[q].entity EXCEPT !.acknowledged_by = Sos!Acknowledged(@, u)]
    BY <1>1 DEF SosRequestInv, SosReqOK
  <2> HIDE DEF r
  <2>3. r.entity \in SosAlerts
    BY <1>1, <2>2 DEF SosCarries, SosAlerts, Sos!Acknowledged
  <2>4. SosCarries(r) /\ ~SosToClose(r)
    BY <1>1, <2>2, <2>3 DEF SosCarries, SosToClose
  <2> QED
    BY <1>1, <2>1, <2>4, SosOneCarries
<1> QED
  BY <1>2, <1>3

(* What save is to write has the types of the columns. *)
LEMMA SosReloadTypes == ASSUME SosInv, SosTypeInv, NEW q \in Slots, Sos!ReloadAlert(q) PROVE SosTypeInv'
<1> DEFINE entity == sosReq[q].entity
           patch == [c \in Sos!Differing(entity) |-> entity[c]]
           r == [sosReq[q] EXCEPT !.pc = "save", !.u = Admin, !.entity = Sos!NoAlert, !.patch = patch]
<1>1. SosRequestInv(sosReq[q]) /\ sosReq[q].pc = "reload" /\ UNCHANGED <<alert, early, onTrip, closings>>
      /\ entity \in SosAlerts
  BY DEF SosInv, SosTypeInv, SosCarries, Sos!ReloadAlert, Sos!At
<1>2. sosReq' = [sosReq EXCEPT ![q] = r]
  BY DEF Sos!ReloadAlert, SosInv
<1>3. r.pc = "save" /\ r.patch = patch
  BY <1>1 DEF SosRequestInv, SosReqOK
<1>4. DOMAIN patch \subseteq Sos!Columns /\ \A c \in DOMAIN patch : patch[c] = entity[c]
  BY DEF Sos!Differing
<1>5. entity.status \in SosStatuses /\ entity.resolved_at \in 0..MaxCloses
      /\ entity.acknowledged_by \in SUBSET Riders
  BY <1>1 DEF SosAlerts
<1> HIDE DEF r, patch, entity
<1>6. SosCarries(r) /\ ~SosToClose(r)
  BY <1>3, <1>4, <1>5 DEF SosCarries, SosToClose
<1> QED
  BY <1>1, <1>2, <1>6, SosOneCarries

(* save keeps the types of the row. *)
LEMMA SosSaveTypes == ASSUME SosInv, SosTypeInv, NEW q \in Slots, Sos!SaveAlert(q) PROVE SosTypeInv'
<1> DEFINE patch == sosReq[q].patch
<1>1. SosCarries(sosReq[q]) /\ UNCHANGED <<early, onTrip, closings>> /\ alert' = Sos!Patched(patch) /\ alert \in SosAlerts
  BY DEF SosTypeInv, Sos!SaveAlert
<1>2. alert' \in SosAlerts
  <2>1. alert' = [c \in Sos!Columns |-> IF c \in DOMAIN patch THEN patch[c] ELSE alert[c]]
    BY <1>1 DEF Sos!Patched
  <2>2. alert' = [status |-> alert'.status, resolved_at |-> alert'.resolved_at,
                  acknowledged_by |-> alert'.acknowledged_by]
    BY <2>1 DEF Sos!Columns
  <2> HIDE DEF patch
  <2>3. alert'.status \in SosStatuses /\ alert'.resolved_at \in 0..MaxCloses
        /\ alert'.acknowledged_by \in SUBSET Riders
    BY <1>1, <2>1 DEF Sos!Columns, SosCarries, SosAlerts, patch
  <2> QED
    BY <2>2, <2>3 DEF SosAlerts
<1>3. \A p \in Slots : /\ p = q => sosReq'[p] = Sos!SosIdle
                       /\ p # q => /\ sosReq'[p].op = sosReq[p].op /\ sosReq'[p].pc = sosReq[p].pc
                                   /\ sosReq'[p].u = sosReq[p].u /\ sosReq'[p].entity = sosReq[p].entity
                                   /\ sosReq'[p].patch = sosReq[p].patch
  <2> SUFFICES ASSUME NEW p \in Slots, p # q
               PROVE  /\ sosReq'[p].op = sosReq[p].op /\ sosReq'[p].pc = sosReq[p].pc
                      /\ sosReq'[p].u = sosReq[p].u /\ sosReq'[p].entity = sosReq[p].entity
                      /\ sosReq'[p].patch = sosReq[p].patch
    BY DEF Sos!SaveAlert
  <2>1. sosReq'[p] = [sosReq[p] EXCEPT !.stale = sosReq[p].pc \notin {"idle", "find"}]
    BY DEF Sos!SaveAlert
  <2>2. DOMAIN sosReq[p] = {"op", "u", "pc", "patch", "stale", "entity"}
    BY DEF SosInv, SosRequestInv, SosReqOK
  <2> QED
    BY <2>1, <2>2
<1>4. SosClosing' \in SUBSET SosClosing /\ SosClosing \in SUBSET Slots
  BY <1>3 DEF SosClosing, SosToClose, Sos!SosIdle
<1>5. Cardinality(SosClosing) \in Nat /\ Cardinality(SosClosing') \in Nat
      /\ Cardinality(SosClosing') <= Cardinality(SosClosing)
  BY <1>4, SosFewer
<1>6. closings' + Cardinality(SosClosing') <= MaxCloses
  BY <1>1, <1>5, SosCountSame, RequestsAssumption DEF SosTypeInv
<1>7. \A p \in Slots : SosCarries(sosReq'[p])
  BY <1>3, SosIdleCarries DEF SosTypeInv, SosCarries
<1> QED
  BY <1>1, <1>2, <1>6, <1>7, SosCountSame DEF SosTypeInv, SosCarries

(* Every step keeps the types. *)
LEMMA SosTypesStep == SosInv /\ SosTypeInv /\ [Sos!Next]_(Sos!sosVars) => SosTypeInv'
<1> SUFFICES ASSUME SosInv, SosTypeInv, [Sos!Next]_(Sos!sosVars) PROVE SosTypeInv'
  OBVIOUS
<1>1. ASSUME UNCHANGED <<sosReq, closings>>, alert' \in SosAlerts, early' \in BOOLEAN, onTrip' \in SUBSET Riders
      PROVE  SosTypeInv'
  BY <1>1, SosCountSame DEF SosTypeInv, SosCarries, SosClosing, SosToClose
<1>2. CASE Sos!Create
  <2>1. alert' \in SosAlerts
    BY <1>2 DEF Sos!Create, SosTypeInv, SosAlerts, SosStatuses
  <2> QED
    BY <1>1, <1>2, <2>1 DEF Sos!Create, SosTypeInv
<1>3. CASE Sos!WindowEnds \/ (\E u \in Riders : Sos!LeaveTrip(u)) \/ UNCHANGED Sos!sosVars
  BY <1>1, <1>3 DEF Sos!WindowEnds, Sos!LeaveTrip, SosTypeInv, Sos!sosVars
<1>4. ASSUME NEW q \in Slots, Sos!RequestStep(q) PROVE SosTypeInv'
  BY <1>4, SosFindTypes, SosCloseTypes, SosAcknowledgeTypes, SosReloadTypes, SosSaveTypes DEF Sos!RequestStep
<1> QED
  BY <1>2, <1>3, <1>4, SosBeginTypes DEF Sos!Next

(* The type invariant of an SOS alert, for any riders, requests and number of *)
(* cancels.                                                                   *)
LEMMA SosAlertTypes == Sos!Spec => []Sos!TypeOK
<1>1. SosTypeInv => Sos!TypeOK
  <2> SUFFICES ASSUME SosTypeInv PROVE Sos!TypeOK
    OBVIOUS
  <2>1. Cardinality(SosClosing) \in Nat
    <3>1. SosClosing \in SUBSET Slots
      BY DEF SosClosing
    <3> QED
      BY <3>1, SosFewer
  <2> QED
    BY <2>1, SosCountSame, RequestsAssumption DEF SosTypeInv, Sos!TypeOK, SosCarries, SosAlerts, SosStatuses
<1> QED
  BY <1>1, SosInitInv, SosNextStep, SosInitTypes, SosTypesStep, PTL DEF Sos!Spec

-----------------------------------------------------------------------------
(* The reactions *)

ReactSteps == {"idle", "room", "cache", "access", "insert", "delete", "load", "emit"}

ReactHandlerType ==
    /\ rows \subseteq Reactors
    /\ odd \subseteq Reactors
    /\ contended \subseteq Reactors
    /\ reacting \in [Slots -> [u : Reactors, loaded : SUBSET Reactors, overtaken : BOOLEAN, pc : ReactSteps]]

(* A handler that is about to delete its user's reaction will find it, unless *)
(* that user's toggles have met                                               *)
ReactDeletesPresent ==
    \A q \in Slots : React!At(q, "delete") /\ reacting[q].u \notin contended => reacting[q].u \in rows

ReactInv == ReactHandlerType /\ React!ToggleKeepsParity /\ ReactDeletesPresent

-----------------------------------------------------------------------------
(* Initially nobody has reacted and no handler runs. *)
LEMMA ReactInitInv == ASSUME Reactors # {} PROVE React!Init => ReactInv
<1> SUFFICES ASSUME React!Init PROVE ReactInv
  OBVIOUS
<1>1. React!NoHandler \in [u : Reactors, loaded : SUBSET Reactors, overtaken : BOOLEAN, pc : ReactSteps]
  BY DEF React!NoHandler, ReactSteps
<1>2. ReactHandlerType
  BY <1>1 DEF React!Init, ReactHandlerType
<1>3. \A q \in Slots : reacting[q].pc = "idle"
  BY DEF React!Init, React!NoHandler
<1> QED
  BY <1>2, <1>3 DEF React!Init, ReactInv, React!ToggleKeepsParity, ReactDeletesPresent, React!At

(* A handler's step that writes no row and no history keeps the invariant, as long *)
(* as it puts itself before its DELETE only when the reaction is there.            *)
LEMMA ReactOneHandlerMoves ==
    ASSUME Reactors # {}, ReactInv, NEW q \in Slots,
           NEW h \in [u : Reactors, loaded : SUBSET Reactors, overtaken : BOOLEAN, pc : ReactSteps],
           reacting' = [reacting EXCEPT ![q] = h],
           h.pc = "delete" => h.u \in rows,
           UNCHANGED <<rows, odd, contended>>
    PROVE  ReactInv'
<1>1. ReactHandlerType'
  BY DEF ReactInv, ReactHandlerType
<1>2. React!ToggleKeepsParity'
  BY DEF ReactInv, React!ToggleKeepsParity
<1>3. ReactDeletesPresent'
  <2> SUFFICES ASSUME NEW p \in Slots, reacting'[p].pc = "delete", reacting'[p].u \notin contended
               PROVE  reacting'[p].u \in rows
    BY DEF ReactDeletesPresent, React!At
  <2>1. CASE p = q
    BY <2>1 DEF ReactInv, ReactHandlerType
  <2>2. CASE p # q
    BY <2>2 DEF ReactInv, ReactHandlerType, ReactDeletesPresent, React!At
  <2> QED
    BY <2>1, <2>2
<1> QED
  BY <1>1, <1>2, <1>3 DEF ReactInv

(* The INSERT adds a reaction that is not there, or sends the handler to its DELETE. *)
LEMMA ReactInsertStep ==
    ASSUME Reactors # {}, ReactInv, NEW q \in Slots, React!InsertReaction(q)
    PROVE  ReactInv'
<1> DEFINE u == reacting[q].u
<1>1. /\ u \in Reactors
      /\ reacting[q] \in [u : Reactors, loaded : SUBSET Reactors, overtaken : BOOLEAN, pc : ReactSteps]
  BY DEF ReactInv, ReactHandlerType
<1>2. CASE u \in rows
  <2>1. [reacting[q] EXCEPT !.pc = "delete"]
            \in [u : Reactors, loaded : SUBSET Reactors, overtaken : BOOLEAN, pc : ReactSteps]
    BY <1>1 DEF ReactSteps
  <2>2. /\ reacting' = [reacting EXCEPT ![q] = [reacting[q] EXCEPT !.pc = "delete"]]
        /\ UNCHANGED <<rows, odd, contended>>
    BY <1>2 DEF React!InsertReaction, React!Goto, ReactInv, ReactHandlerType
  <2>3. [reacting[q] EXCEPT !.pc = "delete"].u \in rows
    BY <1>1, <1>2
  <2> QED
    BY <2>1, <2>2, <2>3, ReactOneHandlerMoves
<1>3. CASE u \notin rows
  <2>1. /\ rows' = rows \cup {u}
        /\ odd' = IF u \in odd THEN odd \ {u} ELSE odd \cup {u}
        /\ contended' = contended
        /\ reacting' = [p \in Slots |->
              IF p = q THEN [reacting[p] EXCEPT !.pc = "load"]
              ELSE [reacting[p] EXCEPT !.overtaken = @ \/ React!At(p, "emit")]]
    BY <1>3 DEF React!InsertReaction, React!Counts, React!AfterWrite
  <2>2. ReactHandlerType'
    <3>1. \A p \in Slots : reacting'[p] \in [u : Reactors, loaded : SUBSET Reactors,
                                           overtaken : BOOLEAN, pc : ReactSteps]
      BY <2>1 DEF ReactInv, ReactHandlerType, ReactSteps, React!At
    <3> QED
      BY <1>1, <2>1, <3>1 DEF ReactInv, ReactHandlerType
  <2>3. React!ToggleKeepsParity'
    BY <1>3, <2>1 DEF ReactInv, React!ToggleKeepsParity
  <2>4. \A p \in Slots : reacting'[p].pc = "delete"
                          => reacting[p].pc = "delete" /\ reacting'[p].u = reacting[p].u
    BY <2>1 DEF ReactInv, ReactHandlerType
  <2>5. ReactDeletesPresent'
    BY <2>1, <2>4 DEF ReactInv, ReactDeletesPresent, React!At
  <2> QED
    BY <2>2, <2>3, <2>5 DEF ReactInv
<1> QED
  BY <1>2, <1>3

(* The DELETE takes a reaction away that is there, unless the user's toggles have   *)
(* met; a toggle of the same user that is at its DELETE, too, meets this one.       *)
LEMMA ReactDeleteStep ==
    ASSUME ReactInv, NEW q \in Slots, React!DeleteReaction(q)
    PROVE  ReactInv'
<1> DEFINE u == reacting[q].u
<1>1. u \in Reactors
  BY DEF ReactInv, ReactHandlerType
<1>2. /\ rows' = rows \ {u}
      /\ odd' = IF u \in odd THEN odd \ {u} ELSE odd \cup {u}
      /\ contended' = IF \E p \in Slots \ {q} : React!At(p, "delete") /\ reacting[p].u = u
                      THEN contended \cup {u} ELSE contended
      /\ reacting' = [p \in Slots |->
            IF p = q THEN [reacting[p] EXCEPT !.pc = "load"]
            ELSE [reacting[p] EXCEPT !.overtaken = @ \/ React!At(p, "emit")]]
      /\ reacting[q].pc = "delete"
  BY DEF React!DeleteReaction, React!DeletesOwn, React!Counts, React!AfterWrite, React!At
<1>3. ReactHandlerType'
  <2>1. \A p \in Slots : reacting'[p] \in [u : Reactors, loaded : SUBSET Reactors,
                                         overtaken : BOOLEAN, pc : ReactSteps]
    BY <1>2 DEF ReactInv, ReactHandlerType, ReactSteps, React!At
  <2> QED
    BY <1>1, <1>2, <2>1 DEF ReactInv, ReactHandlerType
<1>4. u \notin contended => u \in rows /\ u \in odd
  BY <1>1, <1>2 DEF ReactInv, ReactDeletesPresent, React!ToggleKeepsParity, React!At
<1>5. React!ToggleKeepsParity'
  BY <1>2, <1>4 DEF ReactInv, React!ToggleKeepsParity
<1>6. \A p \in Slots : reacting'[p].pc = "delete"
        => p # q /\ reacting[p].pc = "delete" /\ reacting'[p].u = reacting[p].u
  BY <1>2 DEF ReactInv, ReactHandlerType
<1>7. ReactDeletesPresent'
  <2> SUFFICES ASSUME NEW p \in Slots, reacting'[p].pc = "delete", reacting'[p].u \notin contended'
               PROVE  reacting'[p].u \in rows'
    BY DEF ReactDeletesPresent, React!At
  <2>1. p # q /\ reacting[p].pc = "delete" /\ reacting'[p].u = reacting[p].u
    BY <1>6
  <2>2. reacting[p].u # u
    BY <1>2, <2>1 DEF React!At
  <2> QED
    BY <1>2, <2>1, <2>2 DEF ReactInv, ReactDeletesPresent, React!At
<1> QED
  BY <1>3, <1>5, <1>7 DEF ReactInv

(* Every step keeps the invariant. *)
LEMMA ReactNextStep == ASSUME Reactors # {}, ReactInv, [React!Next]_(React!reactionVars) PROVE ReactInv'
<1> DEFINE H == [u : Reactors, loaded : SUBSET Reactors, overtaken : BOOLEAN, pc : ReactSteps]
<1>n. React!NoHandler \in H /\ React!NoHandler.pc = "idle"
  BY DEF React!NoHandler, ReactSteps
<1>g. ASSUME NEW q \in Slots, NEW step \in ReactSteps \ {"delete"}, React!Goto(q, step),
             UNCHANGED <<rows, odd, contended>>
      PROVE  ReactInv'
  <2>1. [reacting[q] EXCEPT !.pc = step] \in H /\ [reacting[q] EXCEPT !.pc = step].pc = step
    BY DEF ReactInv, ReactHandlerType
  <2>2. reacting' = [reacting EXCEPT ![q] = [reacting[q] EXCEPT !.pc = step]]
    BY <1>g DEF React!Goto, ReactInv, ReactHandlerType
  <2> QED
    BY <1>g, <2>1, <2>2, ReactOneHandlerMoves
<1>e. ASSUME NEW q \in Slots, React!Ends(q), UNCHANGED <<rows, odd, contended>> PROVE ReactInv'
  BY <1>e, <1>n, ReactOneHandlerMoves DEF React!Ends
<1>u. ASSUME UNCHANGED <<rows, odd, contended, reacting>> PROVE ReactInv'
  BY <1>u DEF ReactInv, ReactHandlerType, React!ToggleKeepsParity, ReactDeletesPresent, React!At
<1> SUFFICES ASSUME React!Next PROVE ReactInv'
  BY <1>u DEF React!reactionVars
<1>1. CASE React!Flush \/ React!RoomExpires
  BY <1>1, <1>u DEF React!Flush, React!RoomExpires, React!toggle
<1>2. ASSUME NEW q \in Slots, NEW u \in Reactors, React!Begin(q, u) PROVE ReactInv'
  <2>1. [React!NoHandler EXCEPT !.u = u, !.pc = "room"] \in H
    BY DEF React!NoHandler, ReactSteps
  <2>2. [React!NoHandler EXCEPT !.u = u, !.pc = "room"].pc # "delete"
    BY DEF React!NoHandler
  <2>3. reacting' = [reacting EXCEPT ![q] = [React!NoHandler EXCEPT !.u = u, !.pc = "room"]]
        /\ UNCHANGED <<rows, odd, contended>>
    BY <1>2 DEF React!Begin, React!toggle
  <2> QED
    BY <2>1, <2>2, <2>3, ReactOneHandlerMoves
<1>3. ASSUME NEW q \in Slots, React!FindRoom(q) PROVE ReactInv'
  BY <1>3, <1>g, <1>e DEF React!FindRoom, React!toggle, ReactSteps
<1>4. ASSUME NEW q \in Slots, React!CacheRoom(q) PROVE ReactInv'
  BY <1>4, <1>g DEF React!CacheRoom, React!toggle, ReactSteps
<1>5. ASSUME NEW q \in Slots, NEW granted \in BOOLEAN, React!CheckAccess(q, granted) PROVE ReactInv'
  BY <1>5, <1>g, <1>e DEF React!CheckAccess, React!toggle, ReactSteps
<1>6. ASSUME NEW q \in Slots, React!LoadReactions(q) PROVE ReactInv'
  <2> DEFINE h == [reacting[q] EXCEPT !.pc = "emit", !.loaded = rows]
  <2>1. h \in H /\ h.pc # "delete"
    BY DEF ReactInv, ReactHandlerType, ReactSteps
  <2>2. reacting' = [reacting EXCEPT ![q] = h] /\ UNCHANGED <<rows, odd, contended>>
    BY <1>6 DEF React!LoadReactions, React!AllReactions, React!toggle, ReactInv, ReactHandlerType
  <2> QED
    BY <2>1, <2>2, ReactOneHandlerMoves
<1>7. ASSUME NEW q \in Slots, React!Broadcast(q) \/ React!Die(q) PROVE ReactInv'
  BY <1>7, <1>e DEF React!Broadcast, React!Die
<1> QED
  BY <1>1, <1>2, <1>3, <1>4, <1>5, <1>6, <1>7, ReactInsertStep, ReactDeleteStep DEF React!Next, React!HandlerStep

-----------------------------------------------------------------------------
(* A handler that has loaded the reactions and was not overtaken holds those that   *)
(* are stored; and where the room was told others, somebody is about to tell it, or *)
(* it is known to be outdated.                                                      *)
ReactLoadedFresh == \A q \in Slots : React!At(q, "emit") /\ ~reacting[q].overtaken => reacting[q].loaded = rows
ReactSomebodyTells == told = rows \/ outdated \/ \E q \in Slots : React!At(q, "load") \/ React!At(q, "emit")
ReactToldInv == React!TypeOK /\ ReactLoadedFresh /\ ReactSomebodyTells

(* The room has been told nothing that is not stored. *)
LEMMA ReactToldInit == ASSUME Reactors # {}, MaxReactDeaths \in Nat PROVE React!Init => ReactToldInv
<1> SUFFICES ASSUME React!Init PROVE ReactToldInv
  OBVIOUS
<1>1. React!NoHandler \in [u : Reactors, loaded : SUBSET Reactors, overtaken : BOOLEAN, pc : ReactSteps]
      /\ React!NoHandler.pc = "idle"
  BY DEF React!NoHandler, ReactSteps
<1>2. reacting \in [Slots -> [u : Reactors, loaded : SUBSET Reactors, overtaken : BOOLEAN, pc : ReactSteps]]
  BY <1>1 DEF React!Init
<1>3. /\ reactionRow \in BOOLEAN /\ roomCached \in BOOLEAN /\ rows \subseteq Reactors /\ told \subseteq Reactors
      /\ odd \subseteq Reactors /\ contended \subseteq Reactors /\ outdated \in BOOLEAN
  BY DEF React!Init
<1>5. deaths \in 0..MaxReactDeaths
  BY DEF React!Init
<1>4. React!TypeOK
  BY <1>2, <1>3, <1>5 DEF React!TypeOK, ReactSteps
<1> QED
  BY <1>1, <1>4 DEF React!Init, ReactToldInv, ReactLoadedFresh, ReactSomebodyTells, React!At

(* A handler's step that changes neither the rows nor what the room was told, and     *)
(* does not start or end at the load or the broadcast.                                *)
LEMMA ReactToldMoves ==
    ASSUME Reactors # {}, ReactToldInv, NEW q \in Slots,
           NEW h \in [u : Reactors, loaded : SUBSET Reactors, overtaken : BOOLEAN, pc : ReactSteps],
           reacting' = [reacting EXCEPT ![q] = h], UNCHANGED <<rows, told, odd, contended>>,
           reactionRow' \in BOOLEAN, roomCached' \in BOOLEAN, deaths' \in 0..MaxReactDeaths,
           outdated' \in BOOLEAN, outdated => outdated',
           h.pc = "emit" /\ ~h.overtaken => h.loaded = rows,
           reacting[q].pc \in {"load", "emit"} => h.pc \in {"load", "emit"} \/ outdated'
    PROVE  ReactToldInv'
<1>1. React!TypeOK'
  BY DEF ReactToldInv, React!TypeOK, ReactSteps
<1>2. \A p \in Slots : reacting'[p] = IF p = q THEN h ELSE reacting[p]
  BY DEF ReactToldInv, React!TypeOK
<1>3. ReactLoadedFresh'
  BY <1>2 DEF ReactToldInv, ReactLoadedFresh, React!At
<1>4. ReactSomebodyTells'
  BY <1>2 DEF ReactToldInv, ReactSomebodyTells, React!At
<1> QED
  BY <1>1, <1>3, <1>4 DEF ReactToldInv

(* After a write, its handler is to load and to tell, and the others are overtaken. *)
LEMMA ReactToldWrites ==
    ASSUME ReactToldInv, NEW q \in Slots, React!AfterWrite(q, "load"), rows' \subseteq Reactors,
           odd' \subseteq Reactors, contended' \subseteq Reactors,
           UNCHANGED <<reactionRow, roomCached, told, outdated, deaths>>
    PROVE  ReactToldInv'
<1>1. \A p \in Slots : reacting'[p] = IF p = q THEN [reacting[p] EXCEPT !.pc = "load"]
                                    ELSE [reacting[p] EXCEPT !.overtaken = @ \/ React!At(p, "emit")]
  BY DEF React!AfterWrite
<1>2. \A p \in Slots : reacting[p] \in [u : Reactors, loaded : SUBSET Reactors, overtaken : BOOLEAN, pc : ReactSteps]
  BY DEF ReactToldInv, React!TypeOK, ReactSteps
<1>3. /\ reacting'[q].pc = "load"
      /\ \A p \in Slots : p # q => /\ reacting'[p].pc = reacting[p].pc
                                   /\ reacting'[p].overtaken = (reacting[p].overtaken \/ React!At(p, "emit"))
  BY <1>1, <1>2
<1>4. \A p \in Slots : reacting'[p] \in [u : Reactors, loaded : SUBSET Reactors, overtaken : BOOLEAN, pc : ReactSteps]
  <2> SUFFICES ASSUME NEW p \in Slots
               PROVE  reacting'[p] \in [u : Reactors, loaded : SUBSET Reactors, overtaken : BOOLEAN, pc : ReactSteps]
    OBVIOUS
  <2>1. CASE p = q
    <3>1. /\ reacting'[p] = [reacting[p] EXCEPT !.pc = "load"] /\ "load" \in ReactSteps
          /\ reacting[p] \in [u : Reactors, loaded : SUBSET Reactors, overtaken : BOOLEAN, pc : ReactSteps]
      BY <1>1, <1>2, <2>1 DEF ReactSteps
    <3> HIDE <2>1
    <3> QED
      BY <3>1
  <2>2. CASE p # q
    <3> DEFINE b == reacting[p].overtaken \/ React!At(p, "emit")
    <3>1. b \in BOOLEAN /\ reacting'[p] = [reacting[p] EXCEPT !.overtaken = b]
      BY <1>1, <1>2, <2>2
    <3> HIDE DEF b
    <3>2. reacting[p] \in [u : Reactors, loaded : SUBSET Reactors, overtaken : BOOLEAN, pc : ReactSteps]
      BY <1>2
    <3> QED
      BY <3>1, <3>2
  <2> QED
    BY <2>1, <2>2
<1>5. React!TypeOK'
  BY <1>4 DEF ReactToldInv, React!TypeOK, React!AfterWrite, ReactSteps
<1>6. ReactLoadedFresh'
  BY <1>3 DEF ReactLoadedFresh, React!At
<1>7. ReactSomebodyTells'
  BY <1>3 DEF ReactSomebodyTells, React!At
<1> QED
  BY <1>5, <1>6, <1>7 DEF ReactToldInv

(* Every step keeps what the room was told in step with the row, or somebody is *)
(* still to tell it.                                                            *)
LEMMA ReactToldStep == ASSUME Reactors # {}, MaxReactDeaths \in Nat, ReactToldInv, [React!Next]_(React!reactionVars) PROVE ReactToldInv'
<1> DEFINE H == [u : Reactors, loaded : SUBSET Reactors, overtaken : BOOLEAN, pc : ReactSteps]
<1>n. React!NoHandler \in H /\ React!NoHandler.pc = "idle"
  BY DEF React!NoHandler, ReactSteps
<1>h. \A q \in Slots : reacting[q] \in H
  BY DEF ReactToldInv, React!TypeOK, ReactSteps
<1>t. /\ reactionRow \in BOOLEAN /\ roomCached \in BOOLEAN /\ outdated \in BOOLEAN /\ deaths \in 0..MaxReactDeaths
      /\ reacting \in [Slots -> H]
  BY DEF ReactToldInv, React!TypeOK, ReactSteps
<1>g. ASSUME NEW q \in Slots, NEW step \in ReactSteps \ {"load", "emit"}, React!Goto(q, step),
             ~(reacting[q].pc \in {"load", "emit"}),
             UNCHANGED <<rows, told, odd, contended, outdated, deaths, reactionRow>>, roomCached' \in BOOLEAN
      PROVE  ReactToldInv'
  <2>1. [reacting[q] EXCEPT !.pc = step] \in H /\ [reacting[q] EXCEPT !.pc = step].pc = step
    BY <1>h
  <2>2. reacting' = [reacting EXCEPT ![q] = [reacting[q] EXCEPT !.pc = step]]
    BY <1>g, <1>t DEF React!Goto
  <2> QED
    BY <1>g, <1>t, <2>1, <2>2, ReactToldMoves
<1>e. ASSUME NEW q \in Slots, React!Ends(q), UNCHANGED <<rows, told, odd, contended, reactionRow, roomCached>>,
             deaths' \in 0..MaxReactDeaths, outdated' = (outdated \/ reacting[q].pc \in {"load", "emit"})
      PROVE  ReactToldInv'
  <2>1. reacting' = [reacting EXCEPT ![q] = React!NoHandler]
    BY <1>e DEF React!Ends
  <2> QED
    BY <1>e, <1>n, <1>t, <2>1, ReactToldMoves
<1>1. CASE UNCHANGED React!reactionVars
  BY <1>1 DEF React!reactionVars, ReactToldInv, React!TypeOK, ReactLoadedFresh, ReactSomebodyTells, React!At
<1>2. CASE React!Flush \/ React!RoomExpires
  <2>1. UNCHANGED <<rows, told, odd, contended, outdated, reacting, deaths>> /\ reactionRow' \in BOOLEAN
        /\ roomCached' \in BOOLEAN
    BY <1>2, <1>t DEF React!Flush, React!RoomExpires, React!toggle
  <2>2. React!TypeOK'
    BY <2>1 DEF ReactToldInv, React!TypeOK
  <2> QED
    BY <2>1, <2>2 DEF ReactToldInv, ReactLoadedFresh, ReactSomebodyTells, React!At
<1>3. ASSUME NEW q \in Slots, NEW u \in Reactors, React!Begin(q, u) PROVE ReactToldInv'
  <2> DEFINE h == [React!NoHandler EXCEPT !.u = u, !.pc = "room"]
  <2>1. h \in H /\ h.pc = "room"
    BY DEF React!NoHandler, ReactSteps
  <2>2. reacting' = [reacting EXCEPT ![q] = h] /\ reacting[q].pc = "idle"
        /\ UNCHANGED <<rows, told, odd, contended, outdated, reactionRow, roomCached, deaths>>
    BY <1>3 DEF React!Begin, React!toggle, React!At
  <2> HIDE DEF h
  <2> QED
    BY <1>t, <2>1, <2>2, ReactToldMoves
<1>4. ASSUME NEW q \in Slots, React!FindRoom(q) PROVE ReactToldInv'
  <2>1. CASE React!Ends(q)
    <3>1. reacting[q].pc = "room" /\ UNCHANGED <<rows, told, odd, contended, outdated, reactionRow, roomCached, deaths>>
      BY <1>4 DEF React!FindRoom, React!toggle, React!At
    <3> QED
      BY <1>e, <1>t, <2>1, <3>1
  <2>2. CASE React!Goto(q, "access") \/ React!Goto(q, "cache")
    BY <1>4, <1>g, <1>t, <2>2 DEF React!FindRoom, React!toggle, React!At, ReactSteps
  <2> QED
    BY <1>4, <2>1, <2>2 DEF React!FindRoom
<1>5. ASSUME NEW q \in Slots, React!CacheRoom(q) PROVE ReactToldInv'
  BY <1>5, <1>g, <1>t DEF React!CacheRoom, React!toggle, React!At, ReactSteps
<1>6. ASSUME NEW q \in Slots, NEW granted \in BOOLEAN, React!CheckAccess(q, granted) PROVE ReactToldInv'
  <2>1. reacting[q].pc = "access" /\ UNCHANGED <<rows, told, odd, contended, outdated, reactionRow, roomCached, deaths>>
    BY <1>6 DEF React!CheckAccess, React!toggle, React!At
  <2> QED
    BY <1>6, <2>1, <1>g, <1>e, <1>t DEF React!CheckAccess, ReactSteps
<1>7. ASSUME NEW q \in Slots, React!InsertReaction(q) PROVE ReactToldInv'
  <2>1. reacting[q].pc = "insert" /\ UNCHANGED <<reactionRow, roomCached, told, contended, outdated, deaths>>
    BY <1>7 DEF React!InsertReaction, React!At
  <2>2. CASE reacting[q].u \in rows
    BY <1>7, <2>1, <2>2, <1>g, <1>t DEF React!InsertReaction, ReactSteps
  <2>3. CASE reacting[q].u \notin rows
    <3>1. rows' \subseteq Reactors /\ odd' \subseteq Reactors /\ contended' \subseteq Reactors
      BY <1>7, <1>h, <2>1, <2>3 DEF React!InsertReaction, React!Counts, ReactToldInv, React!TypeOK
    <3> QED
      BY <1>7, <2>1, <2>3, <3>1, ReactToldWrites DEF React!InsertReaction
  <2> QED
    BY <2>2, <2>3
<1>8. ASSUME NEW q \in Slots, React!DeleteReaction(q) PROVE ReactToldInv'
  <2>1. rows' \subseteq Reactors /\ odd' \subseteq Reactors /\ contended' \subseteq Reactors
    BY <1>8, <1>h DEF React!DeleteReaction, React!DeletesOwn, React!Counts, ReactToldInv, React!TypeOK
  <2> QED
    BY <1>8, <2>1, ReactToldWrites DEF React!DeleteReaction
<1>9. ASSUME NEW q \in Slots, React!LoadReactions(q) PROVE ReactToldInv'
  <2> DEFINE h == [reacting[q] EXCEPT !.pc = "emit", !.loaded = rows]
  <2>1. h \in H /\ h.pc = "emit" /\ h.loaded = rows
    BY <1>h DEF ReactToldInv, React!TypeOK, ReactSteps
  <2>2. reacting' = [reacting EXCEPT ![q] = h]
        /\ UNCHANGED <<rows, told, odd, contended, outdated, reactionRow, roomCached, deaths>>
    BY <1>9, <1>t DEF React!LoadReactions, React!AllReactions, React!toggle
  <2> HIDE DEF h
  <2> QED
    BY <1>t, <2>1, <2>2, ReactToldMoves
<1>10. ASSUME NEW q \in Slots, React!Broadcast(q) PROVE ReactToldInv'
  <2>1. /\ reacting' = [reacting EXCEPT ![q] = React!NoHandler]
        /\ told' = reacting[q].loaded /\ outdated' = reacting[q].overtaken /\ reacting[q].pc = "emit"
        /\ UNCHANGED <<reactionRow, roomCached, rows, odd, contended, deaths>>
    BY <1>10 DEF React!Broadcast, React!Ends, React!At
  <2>2. \A p \in Slots : reacting'[p] = IF p = q THEN React!NoHandler ELSE reacting[p]
    BY <2>1, <1>t
  <2>3. React!TypeOK'
    BY <1>n, <1>h, <2>1 DEF ReactToldInv, React!TypeOK, ReactSteps
  <2>4. ReactLoadedFresh'
    BY <1>n, <2>1, <2>2 DEF ReactToldInv, ReactLoadedFresh, React!At
  <2>5. ReactSomebodyTells'
    <3>1. reacting[q].overtaken \/ reacting[q].loaded = rows
      BY <2>1 DEF ReactToldInv, ReactLoadedFresh, React!At
    <3> QED
      BY <2>1, <3>1 DEF ReactSomebodyTells
  <2> QED
    BY <2>3, <2>4, <2>5 DEF ReactToldInv
<1>11. ASSUME NEW q \in Slots, React!Die(q) PROVE ReactToldInv'
  BY <1>11, <1>e, <1>t DEF React!Die
<1> QED
  BY <1>1, <1>2, <1>3, <1>4, <1>5, <1>6, <1>7, <1>8, <1>9, <1>10, <1>11 DEF React!Next, React!HandlerStep

(* ChatGateway.handleReact: with no handler running, the room was told the      *)
(* reactions that are stored, unless another toggle was stored between the load *)
(* and the broadcast, or a process died.                                        *)
LEMMA ReactRoomIsTold == ASSUME Reactors # {}, MaxReactDeaths \in Nat PROVE React!Spec => [](React!TypeOK /\ React!ToldIsStored)
<1>1. ReactToldInv /\ [React!Next]_(React!reactionVars) => ReactToldInv'
  BY ReactToldStep
<1>2. ReactToldInv => React!TypeOK /\ React!ToldIsStored
  BY DEF ReactToldInv, ReactSomebodyTells, React!ToldIsStored, React!At
<1> QED
  BY <1>1, <1>2, ReactToldInit, PTL DEF React!Spec

-----------------------------------------------------------------------------
(* chat:react's "atomic toggle": however toggles overlap, a user has the reaction if  *)
(* and only if they toggled it an odd number of times, unless two of their own toggles *)
(* both found the reaction there.                                                      *)
LEMMA ReactParity == ASSUME Reactors # {} PROVE React!Spec => []React!ToggleKeepsParity
<1>1. ReactInv /\ [React!Next]_(React!reactionVars) => ReactInv'
  BY ReactNextStep
<1>2. ReactInv => React!ToggleKeepsParity
  BY DEF ReactInv
<1> QED
  BY <1>1, <1>2, ReactInitInv, PTL DEF React!Spec

-----------------------------------------------------------------------------
(* What the components promise *)

(* ShareLinksService: a counter of the link never falls, a disabled link becomes  *)
(* active by an upsert or a regenerate only, and a link that asked for a password *)
(* still does; but for a save of an entity loaded before somebody else wrote the  *)
(* link.                                                                          *)
THEOREM PromisesOfALink == Links!Spec => LinkStands
  BY LinkPromisesStand DEF LinkStands

(* SosService.cancel and acknowledge: how an alert was closed is final and who *)
(* acknowledged it stays in the list, but for a save by a request that was     *)
(* overtaken.                                                                  *)
THEOREM AnswersOfAnAlert == Sos!Spec => AnswersStand
  BY SosStands DEF AnswersStand

(* ChatService.toggleReaction: a user has the reaction if and only if they       *)
(* toggled it an odd number of times, unless two of their own found it there and *)
(* both delete it.                                                               *)
THEOREM TogglesKeepParity == React!Spec => []ToggleKeepsParity
<1>1. Reactors # {}
  BY RequestsAssumption
<1> QED
  BY <1>1, ReactParity, PTL DEF ToggleKeepsParity

(* ChatGateway.handleReact: with no handler running, the room was told the        *)
(* reactions that are stored, unless another toggle was stored between a load and *)
(* its broadcast, or a process died.                                              *)
THEOREM RoomsAreTold == React!Spec => []ToldIsStored
<1>1. Reactors # {} /\ MaxReactDeaths \in Nat
  BY RequestsAssumption
<1>2. React!Spec => [](React!TypeOK /\ React!ToldIsStored)
  BY <1>1, ReactRoomIsTold
<1> QED
  BY <1>2, PTL DEF ToldIsStored

-----------------------------------------------------------------------------
(* All components together *)

(* A behaviour of the requests is one of every component: the component that *)
(* `focus` names takes its steps, the others stutter.                        *)
LEMMA StepsOfParts ==
    [RequestsNext]_requests =>
        /\ [Links!Next]_(Links!linkVars) /\ [Sos!Next]_(Sos!sosVars) /\ [Auth!Next]_(Auth!authVars)
        /\ [React!Next]_(React!reactionVars) /\ [History!Next]_(History!historyVars)
        /\ [Presence!Next]_(Presence!presenceVars) /\ [Fanout!Next]_(Fanout!pushVars)
<1> SUFFICES ASSUME [RequestsNext]_requests
             PROVE  /\ [Links!Next]_(Links!linkVars) /\ [Sos!Next]_(Sos!sosVars) /\ [Auth!Next]_(Auth!authVars)
                    /\ [React!Next]_(React!reactionVars) /\ [History!Next]_(History!historyVars)
                    /\ [Presence!Next]_(Presence!presenceVars) /\ [Fanout!Next]_(Fanout!pushVars)
  OBVIOUS
<1> USE DEF requests, links, sos, auth, reactions, history, presence, fanout
<1>1. Links!Next \/ UNCHANGED links
  BY DEF RequestsNext
<1>2. Sos!Next \/ UNCHANGED sos
  BY DEF RequestsNext
<1>3. Auth!Next \/ UNCHANGED auth
  BY DEF RequestsNext
<1>4. React!Next \/ UNCHANGED reactions
  BY DEF RequestsNext
<1>5. History!Next \/ UNCHANGED history
  BY DEF RequestsNext
<1>6. Presence!Next \/ UNCHANGED presence
  BY DEF RequestsNext
<1>7. Fanout!Next \/ UNCHANGED fanout
  BY DEF RequestsNext
<1> QED
  BY <1>1, <1>2, <1>3, <1>4, <1>5, <1>6, <1>7 DEF Links!linkVars, Sos!sosVars, Auth!authVars,
     React!reactionVars, History!historyVars, Presence!presenceVars, Fanout!pushVars

(* The safety part of each component's specification follows. *)
LEMMA SpecsOfParts ==
    RequestsSpec => /\ Links!Spec /\ Sos!Spec /\ Auth!Spec /\ React!Spec /\ History!Spec /\ Fanout!Spec
                    /\ Presence!Init /\ [][Presence!Next]_(Presence!presenceVars)
<1>1. RequestsInit => Links!Init /\ Sos!Init /\ Auth!Init /\ React!Init /\ History!Init /\ Presence!Init
                      /\ Fanout!Init
  BY DEF RequestsInit
<1> QED
  BY <1>1, StepsOfParts, PTL DEF RequestsSpec, Links!Spec, Sos!Spec, Auth!Spec, React!Spec, History!Spec,
     Fanout!Spec

(* The type invariant of the components, whichever is followed. *)
THEOREM TypesOfParts == RequestsSpec => []PartsTypeOK
<1>1. Reactors # {} /\ MaxReactDeaths \in Nat
  BY RequestsAssumption
<1>2. React!Spec => [](React!TypeOK /\ React!ToldIsStored)
  BY <1>1, ReactRoomIsTold
<1>3. /\ Links!TypeOK /\ Sos!TypeOK /\ Auth!TypeOK /\ React!TypeOK /\ History!TypeOK /\ Presence!TypeOK
      /\ Fanout!TypeOK
      => PartsTypeOK
  BY DEF PartsTypeOK
<1> QED
  BY <1>2, <1>3, SpecsOfParts, LinkLinkTypes, SosAlertTypes, AuthSessionTypes, HistPagesAndReplies,
     MapIsCurrent, PushReaches, PTL

(* What the components promise holds of the requests together. *)
THEOREM RequestsHold ==
    RequestsSpec => /\ LinkStands /\ AnswersStand
                    /\ []Auth!OtpIsGuarded /\ [](RefreshAccepted /\ EditsKept)
                    /\ []ToggleKeepsParity /\ []ToldIsStored
                    /\ [](EveryMessageOnce /\ ReplyResolves) /\ []MapShowsStored /\ []AlertReachesRiders
  BY SpecsOfParts, PromisesOfALink, AnswersOfAnAlert, RefreshWorks, EditsStay, OtpsAreGuarded, TogglesKeepParity,
     RoomsAreTold, PagesShowAll, RepliesResolve, MapIsCurrent, AlertsArrive, PTL
=============================================================================
