----------------------------- MODULE FeedProofs ------------------------------
(***************************************************************************)
(* What users are shown, for any users, messages, page sizes and           *)
(* overlapping requests: the pages and the replies of the chat             *)
(* (ChatHistory), the positions on the map (LocationPresence) and the      *)
(* notifications (PushFanout).                                             *)
(***************************************************************************)
EXTENDS Requests, Sequences, FiniteSetTheorems, WellFoundedInduction, TLAPS

-----------------------------------------------------------------------------
(* The pages and the replies of the chat *)

(* The cardinality that the instance knows is the one of FiniteSets *)
LEMMA HistCountSame == \A S : History!Cardinality(S) = Cardinality(S)
  BY DEF History!Cardinality, Cardinality

(* Reached by a page: what is not shown is older than the message the walk goes on before *)
HistReached ==
    walk.pc \in {"cursor", "page"} =>
        /\ walk.shown # {} => /\ walk.before \in walk.shown
                              /\ \A y \in walk.shown : y = walk.before \/ History!Older(walk.before, y)
        /\ walk.shown = {} => walk.before = walk.first
        /\ \A x \in walk.begin : (walk.first = NoMessage \/ History!Older(x, walk.first)) =>
              x \in walk.shown \/ walk.shown = {} \/ History!Older(x, walk.before)

(* A page is read before that message, but for the first page, when it has no row yet *)
HistAimed ==
    walk.pc = "page" =>
        /\ walk.shown # {} => walk.cursor = walk.before
        /\ walk.cursor \in {walk.before, NoMessage}

HistWalkType == walk \in [pc : {"idle", "cursor", "page", "done"}, first : History!Queued \cup {NoMessage},
                      before : History!Queued \cup {NoMessage}, cursor : kept \cup {NoMessage}, begin : SUBSET kept,
                      shown : SUBSET kept, repeated : BOOLEAN]

(* The message that a reply is to is too far back in the stream *)
HistTooFar(m) == \E k \in DOMAIN stream : stream[k] = m /\ Len(stream) - k >= ReplyScan

(* A reply that goes on without a snapshot has not found its target in the stream *)
HistScanned(r) ==
    /\ r.pc = "idle" => r = History!NoWriter
    /\ r.pc \in {"scan", "row"} => r.target # NoMessage /\ ~r.found
    /\ r.pc = "scan" => ~r.failed
    /\ r.pc = "row" => r.failed \/ HistTooFar(r.target)
    /\ r.pc = "add" /\ r.target # NoMessage /\ ~r.found => r.failed \/ HistTooFar(r.target)

HistTypes == /\ stream \in Seq(History!Messages) /\ IsFiniteSet(History!Queued) /\ History!TypeOK /\ HistWalkType

HistInv == HistTypes /\ HistReached /\ HistAimed /\ History!EveryMessageOnce /\ \A w \in (Senders \cup Repliers) : HistScanned(writer[w])

-----------------------------------------------------------------------------
(* The order of the pages is a strict total order *)
LEMMA HistOlderOrder ==
    ASSUME NEW x \in History!Messages, NEW y \in History!Messages, NEW z \in History!Messages
    PROVE  /\ ~History!Older(x, x)
           /\ x = y \/ History!Older(x, y) \/ History!Older(y, x)
           /\ History!Older(x, y) /\ History!Older(y, z) => History!Older(x, z)
<1>1. /\ x[1] \in Int /\ x[2] \in Int /\ y[1] \in Int /\ y[2] \in Int /\ z[1] \in Int /\ z[2] \in Int
      /\ x = <<x[1], x[2]>> /\ y = <<y[1], y[2]>>
  <2>1. ASSUME NEW m \in History!Messages PROVE m[1] \in Int /\ m[2] \in Int /\ m = <<m[1], m[2]>>
    <3>1. m \in Times \X Ids
      BY DEF History!Messages
    <3>2. PICK t \in Times, i \in Ids : m = <<t, i>>
      BY <3>1
    <3>3. t \in Int /\ i \in Int
      BY RequestsAssumption
    <3> QED
      BY <3>2, <3>3
  <2> QED
    BY <2>1
<1>2. ~History!Older(x, x) /\ (History!Older(x, y) /\ History!Older(y, z) => History!Older(x, z))
  BY <1>1 DEF History!Older
<1>3. x[1] = y[1] /\ x[2] = y[2] => x = y
  BY <1>1
<1>4. x = y \/ History!Older(x, y) \/ History!Older(y, x)
  BY <1>1, <1>3 DEF History!Older
<1> QED
  BY <1>2, <1>4

(* A nonempty finite set has an element before which there is none *)
LEMMA HistHasFirst ==
    ASSUME NEW F, IsFiniteSet(F), F # {}, NEW R,
           \A x, y, z \in F : <<x, x>> \notin R /\ (<<x, y>> \in R /\ <<y, z>> \in R => <<x, z>> \in R)
    PROVE  \E x \in F : \A y \in F : <<y, x>> \notin R
<1> DEFINE Below(x) == {y \in F : <<y, x>> \in R}
           All == {Below(x) : x \in F}
<1>1. All \subseteq FiniteSubsetsOf(F) /\ All # {}
  <2>1. ASSUME NEW x \in F PROVE Below(x) \in SUBSET F /\ IsFiniteSet(Below(x))
    BY FS_Subset
  <2>2. ASSUME NEW s \in All PROVE s \in SUBSET F /\ IsFiniteSet(s)
    <3>1. PICK x \in F : s = Below(x)
      OBVIOUS
    <3> QED
      BY <2>1, <3>1
  <2>3. \A s \in All : s \in FiniteSubsetsOf(F)
    <3> HIDE DEF All
    <3> QED
      BY <2>2 DEF FiniteSubsetsOf
  <2>4. PICK x \in F : TRUE
    OBVIOUS
  <2>5. Below(x) \in All
    OBVIOUS
  <2> QED
    BY <2>3, <2>5
<1>2. PICK s \in All : \A t \in All : ~(<<t, s>> \in StrictSubsetOrdering(F))
  BY <1>1, FS_StrictSubsetOrderingWellFounded, WFMin
<1>3. PICK x \in F : s = Below(x)
  OBVIOUS
<1>4. ASSUME NEW y \in F, <<y, x>> \in R PROVE FALSE
  <2>1. Below(y) \subseteq Below(x) /\ y \in Below(x) /\ y \notin Below(y)
    BY <1>4
  <2>2. Below(y) \in All /\ Below(y) \in SUBSET F /\ Below(x) \in SUBSET F /\ Below(y) # Below(x)
    BY <2>1
  <2> DEFINE a == Below(y)
             b == Below(x)
  <2> HIDE DEF Below
  <2>3. <<a, b>> \in StrictSubsetOrdering(F)
    BY <2>1, <2>2 DEF StrictSubsetOrdering
  <2> QED
    BY <1>2, <1>3, <2>2, <2>3
<1> QED
  BY <1>4

(* A page has an oldest message, and the rows it leaves are older *)
LEMMA HistOldestOfPage ==
    ASSUME NEW left \in SUBSET History!Messages, IsFiniteSet(left), left # {}
    PROVE  LET page == History!Newest(left)
               b == CHOOSE x \in page : \A y \in page : x = y \/ History!Older(x, y)
           IN  /\ page # {} /\ page \subseteq left /\ b \in page
               /\ \A y \in page : b = y \/ History!Older(b, y)
               /\ \A x \in left \ page : History!Older(x, b)
<1> DEFINE page == History!Newest(left)
           b == CHOOSE x \in page : \A y \in page : x = y \/ History!Older(x, y)
           After(x) == {y \in left : History!Older(x, y)}
<1>1. page \subseteq left
  BY DEF History!Newest
<1>2. \A x \in page : x \in left /\ Cardinality(After(x)) < Limit
  BY HistCountSame DEF History!Newest
<1>3. \A x \in left \ page : ~(Cardinality(After(x)) < Limit)
  BY HistCountSame DEF History!Newest
<1>4. \A x \in left : IsFiniteSet(After(x)) /\ Cardinality(After(x)) \in Nat
  <2> SUFFICES ASSUME NEW x \in left PROVE IsFiniteSet(After(x)) /\ Cardinality(After(x)) \in Nat
    OBVIOUS
  <2>1. After(x) \in SUBSET left
    OBVIOUS
  <2> QED
    BY <2>1, FS_Subset, FS_CardinalityType
<1>5. page # {}
  <2> DEFINE R == {p \in left \X left : History!Older(p[2], p[1])}
  <2>1. \A x, y \in left : <<x, y>> \in R <=> History!Older(y, x)
    OBVIOUS
  <2> HIDE DEF R
  <2>2. PICK x \in left : \A y \in left : <<y, x>> \notin R
    <3>1. \A x, y, z \in left : <<x, x>> \notin R /\ (<<x, y>> \in R /\ <<y, z>> \in R => <<x, z>> \in R)
      BY <2>1, HistOlderOrder
    <3> QED
      BY <3>1, HistHasFirst
  <2>3. After(x) = {}
    BY <2>1, <2>2
  <2>4. Cardinality(After(x)) = 0
    BY <2>3, FS_EmptySet
  <2>5. 0 < Limit
    BY RequestsAssumption
  <2> QED
    BY <1>3, <2>4, <2>5
<1>6. \E x \in page : \A y \in page : x = y \/ History!Older(x, y)
  <2> DEFINE R == {p \in page \X page : History!Older(p[1], p[2])}
  <2>1. \A x, y \in page : <<x, y>> \in R <=> History!Older(x, y)
    OBVIOUS
  <2>2. IsFiniteSet(page) /\ page \subseteq History!Messages
    BY <1>1, FS_Subset
  <2> HIDE DEF R, page
  <2>3. \A x, y, z \in page : <<x, x>> \notin R /\ (<<x, y>> \in R /\ <<y, z>> \in R => <<x, z>> \in R)
    BY <2>1, <2>2, HistOlderOrder
  <2>4. PICK x \in page : \A y \in page : <<y, x>> \notin R
    BY <1>5, <2>2, <2>3, HistHasFirst
  <2>5. \A y \in page : x = y \/ History!Older(x, y)
    BY <2>1, <2>2, <2>4, HistOlderOrder
  <2> QED
    BY <2>5
<1>7. b \in page /\ \A y \in page : b = y \/ History!Older(b, y)
  <2> HIDE DEF page
  <2> QED
    BY <1>6
<1>8. ASSUME NEW x \in left \ page PROVE History!Older(x, b)
  <2> HIDE DEF page, b
  <2>1. b \in left /\ x \in left /\ x # b /\ b \in page
    BY <1>1, <1>7, <1>8
  <2>2. CASE History!Older(b, x)
    <3>1. After(x) \in SUBSET After(b)
      BY <2>1, <2>2, HistOlderOrder
    <3>2. Cardinality(After(x)) <= Cardinality(After(b))
      BY <1>4, <2>1, <3>1, FS_Subset
    <3>3. Cardinality(After(b)) < Limit /\ ~(Cardinality(After(x)) < Limit)
      BY <1>2, <1>3, <1>8, <2>1
    <3>4. Cardinality(After(x)) \in Nat /\ Cardinality(After(b)) \in Nat
      BY <1>4, <2>1
    <3> HIDE DEF After
    <3> QED
      BY <3>2, <3>3, <3>4, RequestsAssumption
  <2> QED
    BY <2>1, <2>2, HistOlderOrder
<1> QED
  BY <1>1, <1>5, <1>7, <1>8

-----------------------------------------------------------------------------
(* One more entry in a stream. *)
LEMMA HistAppendSet ==
    ASSUME NEW s \in Seq(History!Messages), NEW m \in History!Messages
    PROVE  /\ History!ToSet(Append(s, m)) = History!ToSet(s) \cup {m}
           /\ History!ToSet(s) \subseteq History!Messages
           /\ \A k \in 1..Len(s) : Append(s, m)[k] = s[k]
           /\ Append(s, m) \in Seq(History!Messages) /\ Len(Append(s, m)) = Len(s) + 1
<1> DEFINE t == Append(s, m)
<1>1. /\ t \in Seq(History!Messages) /\ Len(t) = Len(s) + 1 /\ DOMAIN t = 1..(Len(s) + 1) /\ DOMAIN s = 1..Len(s)
      /\ \A k \in 1..Len(s) : t[k] = s[k]
      /\ t[Len(s) + 1] = m /\ Len(s) \in Nat
  OBVIOUS
<1> HIDE DEF t
<1>2. \A k \in DOMAIN s : k \in DOMAIN t /\ t[k] = s[k]
  BY <1>1
<1>3. \A k \in DOMAIN t : k \in DOMAIN s \/ k = Len(s) + 1
  BY <1>1
<1>4. Len(s) + 1 \in DOMAIN t
  BY <1>1
<1>5. History!ToSet(t) = History!ToSet(s) \cup {m}
  BY <1>1, <1>2, <1>3, <1>4 DEF History!ToSet
<1>6. History!ToSet(s) \subseteq History!Messages
  BY DEF History!ToSet
<1> QED
  BY <1>1, <1>5, <1>6 DEF t

(* What the scan does not read is too far back *)
LEMMA HistLatestSuffix ==
    ASSUME stream \in Seq(History!Messages), NEW m \in History!Queued, m \notin History!LatestEntries
    PROVE  HistTooFar(m)
<1> DEFINE n == Len(stream)
           a == IF n < ReplyScan THEN 1 ELSE n - ReplyScan + 1
           sub == SubSeq(stream, a, n)
<1>1. PICK k \in DOMAIN stream : stream[k] = m
  BY DEF History!Queued, History!ToSet
<1>2. n \in Nat /\ DOMAIN stream = 1..n /\ a \in 1..(n + 1) /\ k \in 1..n
  BY <1>1, RequestsAssumption
<1>3. Len(sub) = n - a + 1 /\ \A i \in 1..(n - a + 1) : sub[i] = stream[a + i - 1]
  BY <1>2
<1>4. CASE k >= a
  <2>1. k - a + 1 \in 1..(n - a + 1) /\ sub[k - a + 1] = m
    BY <1>1, <1>2, <1>3, <1>4
  <2>2. DOMAIN sub = 1..(n - a + 1)
    BY <1>2, <1>3
  <2>3. m \in History!ToSet(sub)
    BY <2>1, <2>2 DEF History!ToSet
  <2> QED
    BY <2>3 DEF History!LatestEntries
<1>5. CASE k < a
  <2>1. n - k >= ReplyScan
    BY <1>2, <1>5, RequestsAssumption
  <2> QED
    BY <1>1, <2>1 DEF HistTooFar
<1> QED
  BY <1>2, <1>4, <1>5

-----------------------------------------------------------------------------
(* The invariant holds at the start. *)
LEMMA HistInitInv == History!Init => HistInv
<1> SUFFICES ASSUME History!Init PROVE HistInv
  OBVIOUS
<1> USE DEF History!Init
<1>1. History!Queued = {}
  BY DEF History!Queued, History!ToSet
<1>2. IsFiniteSet(History!Queued) /\ Cardinality(History!Queued) = 0
  BY <1>1, FS_EmptySet
<1>3. HistTypes
  BY <1>1, <1>2, HistCountSame, RequestsAssumption DEF HistTypes, History!TypeOK, HistWalkType, History!NoWalk, History!NoWriter
<1> QED
  BY <1>3 DEF HistInv, HistReached, HistAimed, History!EveryMessageOnce, History!NothingSkipped, History!NothingRepeated, History!NoWalk, History!NoWriter, HistScanned

(* A message of the stream stays there *)
LEMMA HistStaysFar ==
    ASSUME stream \in Seq(History!Messages), NEW m \in History!Messages, stream' = Append(stream, m),
           NEW t, HistTooFar(t)
    PROVE  \E k \in DOMAIN stream' : stream'[k] = t /\ Len(stream') - k >= ReplyScan
<1>1. PICK k \in DOMAIN stream : stream[k] = t /\ Len(stream) - k >= ReplyScan
  BY DEF HistTooFar
<1>2. k \in DOMAIN stream' /\ stream'[k] = t /\ Len(stream') - k >= ReplyScan
  BY <1>1, RequestsAssumption
<1> QED
  BY <1>2

(* The slots of the senders: a step of one of them *)
LEMMA HistWriterStepInv ==
    ASSUME HistInv, NEW w \in (Senders \cup Repliers), UNCHANGED walk,
           \/ History!BeginSend(w) \/ (\E m \in History!Queued : History!BeginReply(w, m))
           \/ History!ScanStream(w) \/ History!ScanFails(w) \/ History!FindParent(w) \/ History!Die(w)
    PROVE  HistInv'
<1> DEFINE WType(r) == r \in [pc : {"idle", "scan", "row", "add"}, target : History!Queued \cup {NoMessage},
                               found : BOOLEAN, failed : BOOLEAN]
<1>1. /\ stream \in Seq(History!Messages) /\ IsFiniteSet(History!Queued) /\ History!TypeOK /\ HistWalkType
      /\ writer \in [(Senders \cup Repliers) -> [pc : {"idle", "scan", "row", "add"}, target : History!Queued \cup {NoMessage},
                               found : BOOLEAN, failed : BOOLEAN]]
      /\ faults \in 0..MaxScanFaults
  BY DEF HistInv, HistTypes, History!TypeOK
<1>2. UNCHANGED <<stream, kept>> /\ faults' \in 0..MaxScanFaults
  <2>1. UNCHANGED <<stream, kept>>
    BY DEF History!BeginSend, History!BeginReply, History!ScanStream, History!ScanFails, History!FindParent, History!Die
  <2>2. faults' = faults \/ (faults < MaxScanFaults /\ faults' = faults + 1)
    BY DEF History!BeginSend, History!BeginReply, History!ScanStream, History!ScanFails, History!FindParent, History!Die
  <2> QED
    BY <1>1, <2>1, <2>2, RequestsAssumption
<1>3. History!Queued' = History!Queued
  BY <1>2 DEF History!Queued
<1>4. /\ writer' = [writer EXCEPT ![w] = writer'[w]]
      /\ writer'[w] \in [pc : {"idle", "scan", "row", "add"}, target : History!Queued \cup {NoMessage},
                               found : BOOLEAN, failed : BOOLEAN]
      /\ HistScanned(writer'[w])
  <2>1. CASE History!BeginSend(w)
    <3>1. writer[w] = History!NoWriter
      BY <2>1 DEF History!BeginSend, History!Writes, HistScanned, HistInv
    <3>2. writer'[w] = [History!NoWriter EXCEPT !.pc = "add"]
          /\ writer' = [writer EXCEPT ![w] = writer'[w]]
      BY <1>1, <2>1, <3>1 DEF History!BeginSend
    <3> QED
      BY <1>1, <3>2 DEF HistScanned, History!NoWriter
  <2>2. CASE \E m \in History!Queued : History!BeginReply(w, m)
    <3>1. PICK m \in History!Queued : History!BeginReply(w, m)
      BY <2>2
    <3>2. m # NoMessage
      BY <1>1, RequestsAssumption DEF History!TypeOK, History!Messages
    <3>3. writer[w] = History!NoWriter
      BY <3>1 DEF History!BeginReply, History!Writes, HistScanned, HistInv
    <3>4. writer'[w] = [History!NoWriter EXCEPT !.pc = "scan", !.target = m]
          /\ writer' = [writer EXCEPT ![w] = writer'[w]]
      BY <1>1, <3>1, <3>3 DEF History!BeginReply
    <3> QED
      BY <1>1, <3>1, <3>2, <3>4 DEF HistScanned, History!NoWriter
  <2>3. CASE History!ScanStream(w)
    <3>1. writer[w].target # NoMessage /\ ~writer[w].found /\ writer[w].target \in History!Queued
      BY <1>1, <2>3 DEF History!ScanStream, History!Writes, HistScanned, HistInv
    <3>2. writer[w].target \in History!LatestEntries \/ HistTooFar(writer[w].target)
      BY <1>1, <3>1, HistLatestSuffix
    <3> QED
      BY <1>1, <2>3, <3>1, <3>2 DEF History!ScanStream, History!Writes, HistScanned, HistInv
  <2>4. CASE History!ScanFails(w)
    BY <1>1, <2>4 DEF History!ScanFails, History!Writes, HistScanned, HistInv
  <2>5. CASE History!FindParent(w)
    <3>1. writer[w] \in [pc : {"idle", "scan", "row", "add"}, target : History!Queued \cup {NoMessage},
                               found : BOOLEAN, failed : BOOLEAN]
          /\ writer[w].pc = "row" /\ (writer[w].failed \/ HistTooFar(writer[w].target))
      BY <1>1, <2>5 DEF History!FindParent, History!Writes, HistScanned, HistInv
    <3> DEFINE f == writer[w].target \in kept
    <3>2. f \in BOOLEAN /\ writer' = [writer EXCEPT ![w].pc = "add", ![w].found = f]
      BY <2>5 DEF History!FindParent
    <3> HIDE DEF f
    <3>3. writer' = [writer EXCEPT ![w] = writer'[w]]
          /\ writer'[w] = [writer[w] EXCEPT !.pc = "add", !.found = f]
      BY <1>1, <3>2
    <3> HIDE <3>2
    <3>4. HistScanned(writer'[w])
      BY <3>1, <3>3 DEF HistScanned
    <3>5. writer'[w] \in [pc : {"idle", "scan", "row", "add"}, target : History!Queued \cup {NoMessage},
                               found : BOOLEAN, failed : BOOLEAN]
      <4>1. CASE f = TRUE
        BY <3>1, <3>3, <4>1
      <4>2. CASE f = FALSE
        BY <3>1, <3>3, <4>2
      <4> QED
        BY <3>2, <4>1, <4>2
    <3> QED
      BY <3>3, <3>4, <3>5
  <2>6. CASE History!Die(w)
    BY <1>1, <2>6 DEF History!Die, History!Writes, HistScanned, HistInv, History!NoWriter
  <2> QED
    BY <2>1, <2>2, <2>3, <2>4, <2>5, <2>6
<1>5. History!TypeOK' /\ HistWalkType'
  BY <1>1, <1>2, <1>3, <1>4 DEF History!TypeOK, HistWalkType
<1>6. \A v \in (Senders \cup Repliers) : HistScanned(writer[v])'
  <2> SUFFICES ASSUME NEW v \in (Senders \cup Repliers) PROVE HistScanned(writer[v])'
    OBVIOUS
  <2>1. writer'[v] = IF v = w THEN writer'[w] ELSE writer[v]
    BY <1>1, <1>4
  <2>2. HistScanned(writer'[v])
    BY <1>4, <2>1 DEF HistInv
  <2> QED
    BY <1>2, <2>2 DEF HistScanned, HistTooFar
<1> QED
  BY <1>1, <1>2, <1>3, <1>5, <1>6 DEF HistInv, HistTypes, HistReached, HistAimed, History!EveryMessageOnce, History!NothingSkipped, History!NothingRepeated

(* XADD keeps the invariant: what was too far back stays so. *)
LEMMA HistAddMessageInv ==
    ASSUME HistInv, NEW w \in (Senders \cup Repliers), NEW m \in Times \X Ids, History!AddMessage(w, m)
    PROVE  HistInv'
<1>1. /\ stream \in Seq(History!Messages) /\ IsFiniteSet(History!Queued) /\ History!TypeOK /\ HistWalkType
      /\ writer \in [(Senders \cup Repliers) -> [pc : {"idle", "scan", "row", "add"}, target : History!Queued \cup {NoMessage},
                               found : BOOLEAN, failed : BOOLEAN]]
      /\ m \in History!Messages
  BY DEF HistInv, HistTypes, History!TypeOK, History!Messages
<1>2. stream' = Append(stream, m) /\ UNCHANGED <<kept, walk, faults>> /\ m \notin History!Queued
  BY DEF History!AddMessage
<1>3. History!Queued' = History!Queued \cup {m} /\ stream' \in Seq(History!Messages) /\ Len(stream') = Len(stream) + 1
  BY <1>1, <1>2, HistAppendSet DEF History!Queued
<1>4. IsFiniteSet(History!Queued') /\ Cardinality(History!Queued') = Cardinality(History!Queued) + 1
  BY <1>1, <1>2, <1>3, FS_AddElement
<1>5. History!Queued' \subseteq History!Messages /\ Len(stream') = Cardinality(History!Queued')
  BY <1>1, <1>3, <1>4, HistCountSame DEF History!TypeOK
<1>6. writer' \in [(Senders \cup Repliers) -> [pc : {"idle", "scan", "row", "add"}, target : History!Queued' \cup {NoMessage},
                               found : BOOLEAN, failed : BOOLEAN]]
  <2>1. History!NoWriter \in [pc : {"idle", "scan", "row", "add"}, target : History!Queued' \cup {NoMessage},
                               found : BOOLEAN, failed : BOOLEAN]
    BY DEF History!NoWriter
  <2>2. writer' = [writer EXCEPT ![w] = History!NoWriter]
    BY DEF History!AddMessage
  <2>3. \A v \in (Senders \cup Repliers) : writer'[v] \in [pc : {"idle", "scan", "row", "add"}, target : History!Queued' \cup {NoMessage},
                               found : BOOLEAN, failed : BOOLEAN]
    BY <1>1, <1>3, <2>1, <2>2
  <2> QED
    BY <1>1, <2>2, <2>3
<1>7. History!TypeOK' /\ HistWalkType'
  <2>1. kept' \subseteq History!Queued' /\ walk'.before \in History!Queued' \cup {NoMessage} /\ HistWalkType'
    BY <1>1, <1>2, <1>3 DEF History!TypeOK, HistWalkType
  <2> QED
    BY <1>1, <1>2, <1>5, <1>6, <2>1, HistCountSame DEF History!TypeOK
<1>8. \A v \in (Senders \cup Repliers) : HistScanned(writer[v])'
  <2> SUFFICES ASSUME NEW v \in (Senders \cup Repliers) PROVE HistScanned(writer[v])'
    OBVIOUS
  <2>1. writer' = [writer EXCEPT ![w] = History!NoWriter]
    BY DEF History!AddMessage
  <2>2. CASE v = w
    BY <1>1, <2>1, <2>2 DEF HistScanned, History!NoWriter
  <2>3. CASE v # w
    <3>1. writer'[v] = writer[v] /\ HistScanned(writer[v])
      BY <1>1, <2>1, <2>3 DEF HistInv
    <3>2. HistTooFar(writer[v].target) => HistTooFar(writer[v].target)'
      <4> DEFINE t == writer[v].target
      <4>1. t' = t
        BY <3>1
      <4> HIDE DEF t
      <4>2. HistTooFar(t) => \E k \in DOMAIN stream' : stream'[k] = t /\ Len(stream') - k >= ReplyScan
        BY <1>1, <1>2, HistStaysFar DEF HistTooFar
      <4>3. HistTooFar(t)' <=> \E k \in DOMAIN stream' : stream'[k] = t' /\ Len(stream') - k >= ReplyScan
        BY DEF HistTooFar
      <4>4. HistTooFar(t) => HistTooFar(t)'
        BY <4>1, <4>2, <4>3
      <4> QED
        BY <4>4 DEF t
    <3> QED
      BY <3>1, <3>2 DEF HistScanned
  <2> QED
    BY <2>2, <2>3
<1> QED
  BY <1>1, <1>2, <1>3, <1>4, <1>7, <1>8 DEF HistInv, HistTypes, HistReached, HistAimed, History!EveryMessageOnce, History!NothingSkipped, History!NothingRepeated

(* A message that gets its row keeps the invariant: it is not what the walk was *)
(* promised.                                                                    *)
LEMMA HistFlushInv ==
    ASSUME HistInv, NEW m \in History!Queued, History!Flush(m)
    PROVE  HistInv'
<1>1. HistTypes /\ UNCHANGED <<stream, writer, walk, faults>> /\ kept \subseteq kept' /\ kept' \subseteq History!Queued
  BY DEF HistInv, History!Flush, HistTypes, History!TypeOK
<1>2. History!Queued' = History!Queued
  BY <1>1 DEF History!Queued
<1>3. HistTypes'
  BY <1>1, <1>2, HistCountSame DEF HistTypes, History!TypeOK, HistWalkType
<1>4. \A v \in (Senders \cup Repliers) : HistScanned(writer[v])'
  BY <1>1 DEF HistInv, HistScanned, HistTooFar
<1> QED
  BY <1>1, <1>3, <1>4 DEF HistInv, HistReached, HistAimed, History!EveryMessageOnce, History!NothingSkipped, History!NothingRepeated

(* The begin and the end of a walk, and the find of its cursor, keep the *)
(* invariant.                                                            *)
LEMMA HistWalkStepInv ==
    ASSUME HistInv, History!FindCursor \/ (\E m \in History!Queued \cup {NoMessage} : History!BeginWalk(m)) \/ History!EndWalk
    PROVE  HistInv'
<1>1. HistTypes /\ UNCHANGED <<stream, kept, writer, faults>>
  BY DEF HistInv, History!FindCursor, History!BeginWalk, History!EndWalk
<1>2. History!Queued' = History!Queued /\ kept \subseteq History!Queued
  BY <1>1 DEF History!Queued, HistTypes, History!TypeOK
<1>3. \A v \in (Senders \cup Repliers) : HistScanned(writer[v])'
  BY <1>1 DEF HistInv, HistScanned, HistTooFar
<1>4. CASE History!FindCursor
  <2>1. walk' = [walk EXCEPT !.pc = "page", !.cursor = IF walk.before \in kept THEN walk.before ELSE NoMessage]
        /\ walk.pc = "cursor"
    BY <1>4 DEF History!FindCursor
  <2>2. HistWalkType'
    BY <1>1, <1>2, <2>1 DEF HistTypes, HistWalkType
  <2>3. HistTypes'
    BY <1>1, <1>2, <2>1, <2>2, HistCountSame DEF HistTypes, History!TypeOK, HistWalkType
  <2>4. HistReached' /\ HistAimed'
    BY <1>1, <2>1 DEF HistInv, HistTypes, HistWalkType, HistReached, HistAimed
  <2>5. History!EveryMessageOnce'
    BY <1>1, <2>1 DEF HistInv, HistTypes, HistWalkType, History!EveryMessageOnce, History!NothingSkipped, History!NothingRepeated
  <2> QED
    BY <1>3, <2>3, <2>4, <2>5 DEF HistInv
<1>5. CASE \E m \in History!Queued \cup {NoMessage} : History!BeginWalk(m)
  <2>1. PICK m \in History!Queued \cup {NoMessage} :
          walk' = [History!NoWalk EXCEPT !.pc = "cursor", !.first = m, !.before = m, !.begin = kept]
    BY <1>5 DEF History!BeginWalk
  <2>2. HistWalkType'
    BY <1>1, <1>2, <2>1 DEF HistTypes, HistWalkType, History!NoWalk
  <2>3. HistTypes'
    BY <1>1, <1>2, <2>1, <2>2, HistCountSame DEF HistTypes, History!TypeOK, HistWalkType
  <2>4. HistReached' /\ HistAimed' /\ History!EveryMessageOnce'
    BY <2>1 DEF HistReached, HistAimed, History!EveryMessageOnce, History!NothingSkipped, History!NothingRepeated, History!NoWalk
  <2> QED
    BY <1>3, <2>3, <2>4 DEF HistInv
<1>6. CASE History!EndWalk
  <2>1. walk' = History!NoWalk
    BY <1>6 DEF History!EndWalk
  <2>2. HistWalkType'
    BY <1>1, <1>2, <2>1 DEF HistTypes, HistWalkType, History!NoWalk
  <2>3. HistTypes'
    BY <1>1, <1>2, <2>1, <2>2, HistCountSame DEF HistTypes, History!TypeOK, HistWalkType
  <2>4. HistReached' /\ HistAimed' /\ History!EveryMessageOnce'
    BY <2>1 DEF HistReached, HistAimed, History!EveryMessageOnce, History!NothingSkipped, History!NothingRepeated, History!NoWalk
  <2> QED
    BY <1>3, <2>3, <2>4 DEF HistInv
<1> QED
  BY <1>4, <1>5, <1>6

(* getHistory: a page shows the newest of what is older than the cursor, so that *)
(* what it leaves is older than the next cursor and nothing comes twice.         *)
LEMMA HistReadPageInv ==
    ASSUME HistInv, History!ReadPage
    PROVE  HistInv'
<1> DEFINE left == IF walk.cursor = NoMessage THEN kept ELSE {x \in kept : History!Before(x, walk.cursor)}
           page == History!Newest(left)
           b == CHOOSE x \in page : \A y \in page : x = y \/ History!Older(x, y)
<1>1. /\ HistTypes /\ UNCHANGED <<stream, kept, writer, faults>> /\ walk.pc = "page"
      /\ walk' = IF page = {}
                 THEN [walk EXCEPT !.pc = "done", !.cursor = NoMessage, !.before = NoMessage]
                 ELSE [walk EXCEPT !.pc = "cursor", !.cursor = NoMessage,
                          !.shown = @ \cup page,
                          !.repeated = @ \/ page \cap walk.shown # {},
                          !.before = b]
  BY DEF HistInv, History!ReadPage
<1>2. History!Queued' = History!Queued /\ kept \subseteq History!Queued /\ History!Queued \subseteq History!Messages /\ IsFiniteSet(History!Queued)
  BY <1>1 DEF History!Queued, HistTypes, History!TypeOK
<1>3. \A v \in (Senders \cup Repliers) : HistScanned(writer[v])'
  BY <1>1 DEF HistInv, HistScanned, HistTooFar
<1>4. left \in SUBSET kept /\ left \in SUBSET History!Messages /\ IsFiniteSet(left)
  <2>1. left \in SUBSET kept
    OBVIOUS
  <2>2. left \in SUBSET History!Queued /\ left \in SUBSET History!Messages
    BY <1>2, <2>1
  <2> HIDE DEF left
  <2> QED
    BY <1>2, <2>1, <2>2, FS_Subset
<1>5. left # {} => /\ page # {} /\ page \subseteq left /\ b \in page
                   /\ \A y \in page : b = y \/ History!Older(b, y)
                   /\ \A x \in left \ page : History!Older(x, b)
  <2> HIDE DEF left
  <2> QED
    BY <1>4, HistOldestOfPage
<1>6. page = {} <=> left = {}
  <2>1. page \subseteq left
    BY DEF History!Newest
  <2> HIDE DEF left, page
  <2> QED
    BY <1>5, <2>1
<1>7. NoMessage \notin History!Messages
  BY RequestsAssumption DEF History!Messages
<1>8. \A x \in kept : x \in left <=> (walk.cursor = NoMessage \/ History!Older(x, walk.cursor))
  BY DEF History!Before, History!Older
<1>9. /\ walk.shown # {} => /\ walk.before \in walk.shown /\ walk.cursor = walk.before
                            /\ \A y \in walk.shown : y = walk.before \/ History!Older(walk.before, y)
      /\ walk.shown = {} => walk.before = walk.first
      /\ walk.cursor \in {walk.before, NoMessage}
      /\ \A x \in walk.begin : (walk.first = NoMessage \/ History!Older(x, walk.first)) =>
              x \in walk.shown \/ walk.shown = {} \/ History!Older(x, walk.before)
      /\ ~walk.repeated
  BY <1>1 DEF HistInv, HistReached, HistAimed, History!EveryMessageOnce, History!NothingRepeated
<1>10. /\ walk \in [pc : {"idle", "cursor", "page", "done"}, first : History!Queued \cup {NoMessage},
                      before : History!Queued \cup {NoMessage}, cursor : kept \cup {NoMessage}, begin : SUBSET kept,
                      shown : SUBSET kept, repeated : BOOLEAN]
       /\ walk.begin \subseteq kept /\ walk.shown \subseteq kept
  BY <1>1 DEF HistTypes, HistWalkType
\* what the client wants and has not seen is among the rows
<1>11. \A x \in walk.begin : (walk.first = NoMessage \/ History!Older(x, walk.first)) => x \in walk.shown \/ x \in left
  <2> SUFFICES ASSUME NEW x \in walk.begin, walk.first = NoMessage \/ History!Older(x, walk.first), x \notin walk.shown
               PROVE  walk.cursor = NoMessage \/ History!Older(x, walk.cursor)
    BY <1>8, <1>10
  <2>1. CASE walk.shown = {}
    BY <1>9, <2>1
  <2>2. CASE walk.shown # {}
    BY <1>9, <2>2
  <2> QED
    BY <2>1, <2>2
\* no row has been shown
<1>12. \A x \in left, y \in walk.shown : History!Older(x, y)
  <2> SUFFICES ASSUME NEW x \in left, NEW y \in walk.shown PROVE History!Older(x, y)
    OBVIOUS
  <2>1. walk.cursor = walk.before /\ walk.before \in History!Messages /\ y \in History!Messages /\ x \in History!Messages /\ x \in kept
    BY <1>2, <1>4, <1>9, <1>10
  <2>2. History!Older(x, walk.before)
    BY <1>7, <1>8, <2>1
  <2>3. y = walk.before \/ History!Older(walk.before, y)
    BY <1>9
  <2> QED
    BY <2>1, <2>2, <2>3, HistOlderOrder
<1>13. page \cap walk.shown = {}
  <2> SUFFICES ASSUME NEW x \in left, x \in walk.shown PROVE FALSE
    BY DEF History!Newest
  <2> QED
    BY <1>4, <1>12, HistOlderOrder
<1> HIDE DEF left, page, b
<1>14. CASE left = {}
  <2>1. walk' = [walk EXCEPT !.pc = "done", !.cursor = NoMessage, !.before = NoMessage]
    BY <1>1, <1>6, <1>14
  <2>2. HistWalkType'
    BY <1>1, <1>2, <1>10, <2>1 DEF HistWalkType
  <2>3. HistTypes'
    BY <1>1, <1>2, <2>1, <2>2, HistCountSame DEF HistTypes, History!TypeOK, HistWalkType
  <2>4. HistReached' /\ HistAimed'
    BY <1>10, <2>1 DEF HistReached, HistAimed
  <2>5. History!EveryMessageOnce'
    BY <1>9, <1>10, <1>11, <1>14, <2>1 DEF History!EveryMessageOnce, History!NothingSkipped, History!NothingRepeated
  <2> QED
    BY <1>3, <2>3, <2>4, <2>5 DEF HistInv
<1>15. CASE left # {}
  <2>1. /\ walk' = [walk EXCEPT !.pc = "cursor", !.cursor = NoMessage, !.shown = walk.shown \cup page,
                          !.repeated = FALSE, !.before = b]
        /\ page \subseteq kept /\ b \in kept
    BY <1>1, <1>4, <1>5, <1>6, <1>9, <1>10, <1>13, <1>15
  <2>2. HistWalkType'
    <3> DEFINE seen == walk.shown \cup page
    <3>1. walk' = [walk EXCEPT !.pc = "cursor", !.cursor = NoMessage, !.shown = seen, !.repeated = FALSE, !.before = b]
          /\ seen \in SUBSET kept /\ b \in History!Queued
      BY <1>2, <1>10, <2>1
    <3> HIDE DEF seen
    <3>2. walk' \in [pc : {"idle", "cursor", "page", "done"}, first : History!Queued \cup {NoMessage},
                      before : History!Queued \cup {NoMessage}, cursor : kept \cup {NoMessage}, begin : SUBSET kept,
                      shown : SUBSET kept, repeated : BOOLEAN]
      BY <1>10, <3>1
    <3> QED
      BY <1>1, <1>2, <3>2 DEF HistWalkType
  <2>3. HistTypes'
    BY <1>1, <1>2, <2>1, <2>2, HistCountSame DEF HistTypes, History!TypeOK, HistWalkType
  <2>4. /\ walk'.pc = "cursor" /\ walk'.cursor = NoMessage /\ walk'.shown = walk.shown \cup page
        /\ walk'.before = b /\ walk'.first = walk.first /\ walk'.begin = walk.begin /\ ~walk'.repeated
    BY <1>10, <2>1
  <2>5. \A y \in walk.shown \cup page : y = b \/ History!Older(b, y)
    BY <1>5, <1>12, <1>15
  <2>6. \A x \in walk.begin : (walk.first = NoMessage \/ History!Older(x, walk.first)) =>
             x \in walk.shown \cup page \/ History!Older(x, b)
    BY <1>5, <1>11, <1>15
  <2>7. HistReached' /\ HistAimed'
    BY <1>5, <1>15, <2>4, <2>5, <2>6 DEF HistReached, HistAimed
  <2>8. History!EveryMessageOnce'
    BY <2>4 DEF History!EveryMessageOnce, History!NothingSkipped, History!NothingRepeated
  <2> QED
    BY <1>3, <2>3, <2>7, <2>8 DEF HistInv
<1> QED
  BY <1>14, <1>15

(* Every step keeps the invariant. *)
LEMMA HistNextInv == HistInv /\ [History!Next]_(History!historyVars) => HistInv'
<1> SUFFICES ASSUME HistInv, [History!Next]_(History!historyVars) PROVE HistInv'
  OBVIOUS
<1>1. ASSUME NEW w \in (Senders \cup Repliers), History!BeginSend(w) \/ (\E m \in History!Queued : History!BeginReply(w, m)) \/ History!ScanStream(w)
                                \/ History!ScanFails(w) \/ History!FindParent(w) \/ History!Die(w)
      PROVE  HistInv'
  <2>1. UNCHANGED walk
    BY <1>1 DEF History!BeginSend, History!BeginReply, History!ScanStream, History!ScanFails, History!FindParent, History!Die
  <2> QED
    BY <1>1, <2>1, HistWriterStepInv
<1>2. ASSUME NEW w \in (Senders \cup Repliers), NEW m \in Times \X Ids, History!AddMessage(w, m) PROVE HistInv'
  BY <1>2, HistAddMessageInv
<1>3. ASSUME NEW m \in History!Queued, History!Flush(m) PROVE HistInv'
  BY <1>3, HistFlushInv
<1>4. CASE History!FindCursor \/ (\E m \in History!Queued \cup {NoMessage} : History!BeginWalk(m)) \/ History!EndWalk
  BY <1>4, HistWalkStepInv
<1>5. CASE History!ReadPage
  BY <1>5, HistReadPageInv
<1>6. CASE UNCHANGED History!historyVars
  BY <1>6, HistCountSame DEF History!historyVars, HistInv, HistTypes, History!TypeOK, HistWalkType, History!Queued, HistReached, HistAimed, HistScanned, HistTooFar,
     History!EveryMessageOnce, History!NothingSkipped, History!NothingRepeated
<1> QED
  BY <1>1, <1>2, <1>3, <1>4, <1>5, <1>6 DEF History!Next, History!WriterStep, History!WalkStep

(* The invariant holds in every state. *)
LEMMA HistInvAlways == History!Spec => []HistInv
  BY HistInitInv, HistNextInv, PTL DEF History!Spec

(* The invariant says what is promised. *)
LEMMA HistInvSays == HistInv => History!TypeOK /\ History!EveryMessageOnce /\ History!ReplyResolves
  BY DEF HistInv, HistTypes, HistScanned, HistTooFar, History!ReplyResolves, History!Writes

(* ChatService.getHistory and resolveReplySnapshot: a walk through the pages    *)
(* shows every message once that was stored when it began, whatever is stored   *)
(* meanwhile, and a reply without a snapshot had its target too far back in the *)
(* stream, or Redis failed.                                                     *)
LEMMA HistPagesAndReplies == History!Spec => [](History!TypeOK /\ History!EveryMessageOnce /\ History!ReplyResolves)
  BY HistInvAlways, HistInvSays, PTL

-----------------------------------------------------------------------------
(* The positions on the map *)

MapSteps == {"idle", "incr", "expire", "get", "store", "emit"}
MapHandlerSet == [cell : Presence!Places, pc : MapSteps]

(* The room is still to be told of the position that is stored *)
MapUntold == \E q \in Slots : handler[q].pc = "emit" /\ handler[q].cell = pos

(* What the member is going to see, or sees, is what is stored, or is still to be told *)
MapShows ==
    ~raced =>
        /\ view.pc \in {"listed", "read"} => view.snapshot = pos \/ MapUntold
        /\ view.pc = "in" => view.shown = pos \/ MapUntold

MapInv == Presence!TypeOK /\ MapShows

-----------------------------------------------------------------------------
(* The invariant holds at the start. *)
LEMMA MapInitInv == Presence!Init => MapInv
<1> SUFFICES ASSUME Presence!Init PROVE MapInv
  OBVIOUS
<1>1. Presence!NoHandler \in [cell : Presence!Places, pc : {"idle", "incr", "expire", "get", "store", "emit"}]
  BY DEF Presence!NoHandler, Presence!Places
<1>2. /\ Presence!NoView \in [pc : {"out", "room", "listed", "read", "in"}, snapshot : Presence!Places, shown : Presence!Places]
      /\ Presence!NoView.pc = "out"
  BY DEF Presence!NoView, Presence!Places
<1>3. 0 \in 0..(Presence!RL_MAX + 1) /\ 0 \in 0..MaxPresenceDeaths /\ Presence!NoPlace \in Presence!Places
  BY RequestsAssumption DEF Presence!RL_MAX, Presence!Places
<1> QED
  BY <1>1, <1>2, <1>3 DEF Presence!Init, MapInv, Presence!TypeOK, MapShows

(* One handler moves, and neither position nor map change *)
LEMMA MapOneMoves ==
    ASSUME MapInv, NEW q \in Slots, NEW h \in MapHandlerSet, handler' = [handler EXCEPT ![q] = h],
           handler[q].pc = "emit" => raced' \/ view.pc \in {"out", "room"},
           raced => raced', UNCHANGED <<pos, view>>
    PROVE  /\ handler' \in [Slots -> MapHandlerSet]
           /\ MapShows'
<1>1. handler \in [Slots -> MapHandlerSet]
  BY DEF MapInv, Presence!TypeOK, MapHandlerSet, MapSteps
<1>2. handler' \in [Slots -> MapHandlerSet]
  BY <1>1
<1>3. handler[q].pc # "emit" /\ MapUntold => MapUntold'
  BY <1>1 DEF MapUntold
<1> QED
  BY <1>2, <1>3 DEF MapInv, MapShows

(* Every step keeps the invariant. *)
LEMMA MapNextStep == MapInv /\ [Presence!Next]_(Presence!presenceVars) => MapInv'
<1> SUFFICES ASSUME MapInv, [Presence!Next]_(Presence!presenceVars) PROVE MapInv'
  OBVIOUS
<1>t. /\ Presence!TypeOK /\ MapShows /\ MaxPresenceDeaths \in Nat
      /\ handler \in [Slots -> MapHandlerSet]
      /\ view \in [pc : {"out", "room", "listed", "read", "in"}, snapshot : Presence!Places, shown : Presence!Places]
  BY RequestsAssumption DEF MapInv, Presence!TypeOK, MapHandlerSet, MapSteps
<1>h. MapHandlerSet = [cell : Presence!Places, pc : {"idle", "incr", "expire", "get", "store", "emit"}]
  BY DEF MapHandlerSet, MapSteps
<1>n. Presence!NoHandler \in MapHandlerSet
  BY DEF Presence!NoHandler, MapHandlerSet, MapSteps, Presence!Places
<1>g. ASSUME NEW q \in Slots, NEW step \in MapSteps, Presence!Goto(q, step), handler[q].pc # "emit",
             raced => raced', UNCHANGED <<pos, view>>
      PROVE  handler' \in [Slots -> MapHandlerSet] /\ MapShows'
  <2>1. handler' = [handler EXCEPT ![q] = [handler[q] EXCEPT !.pc = step]]
    BY <1>g, <1>t DEF Presence!Goto
  <2>2. [handler[q] EXCEPT !.pc = step] \in MapHandlerSet
    BY <1>t DEF MapHandlerSet
  <2> QED
    BY <1>g, <2>1, <2>2, MapOneMoves
<1>e. ASSUME NEW q \in Slots, Presence!Ends(q), handler[q].pc = "emit" => raced' \/ view.pc \in {"out", "room"},
             raced => raced', UNCHANGED <<pos, view>>
      PROVE  handler' \in [Slots -> MapHandlerSet] /\ MapShows'
  BY <1>e, <1>n, MapOneMoves DEF Presence!Ends
<1>1. CASE Presence!Connect \/ Presence!JoinTrip \/ Presence!Disconnect
  BY <1>1, <1>t DEF Presence!Connect, Presence!JoinTrip, Presence!Disconnect, MapInv, Presence!TypeOK, MapShows, MapUntold
<1>2. ASSUME NEW q \in Slots, NEW cell \in Cells, Presence!BeginUpdate(q, cell) PROVE MapInv'
  <2> DEFINE h == [pc |-> "incr", cell |-> cell]
  <2>1. h \in MapHandlerSet
    BY DEF MapHandlerSet, MapSteps, Presence!Places
  <2>2. handler' \in [Slots -> MapHandlerSet] /\ MapShows'
    BY <1>2, <2>1, MapOneMoves DEF Presence!BeginUpdate, Presence!At
  <2> QED
    BY <1>2, <1>t, <1>h, <2>2 DEF Presence!BeginUpdate, MapInv, Presence!TypeOK
<1>3. ASSUME NEW q \in Slots, Presence!BeginLeave(q) PROVE MapInv'
  <2>1. handler' \in [Slots -> MapHandlerSet] /\ MapShows'
    BY <1>3, <1>g DEF Presence!BeginLeave, Presence!At, MapSteps
  <2> QED
    BY <1>3, <1>t, <1>h, <2>1 DEF Presence!BeginLeave, MapInv, Presence!TypeOK
<1>4. ASSUME NEW q \in Slots, Presence!CountUpdate(q) PROVE MapInv'
  <2>1. handler[q].pc = "incr" /\ UNCHANGED <<rest, pos, countTtl, socket, view, raced, presenceDeaths>>
    BY <1>4 DEF Presence!CountUpdate, Presence!At
  <2>2. Presence!Ends(q) \/ \E step \in {"expire", "get"} : Presence!Goto(q, step)
    BY <1>4 DEF Presence!CountUpdate
  <2>3. handler' \in [Slots -> MapHandlerSet] /\ MapShows'
    BY <1>e, <1>g, <2>1, <2>2 DEF MapSteps
  <2>4. count' \in 0..(Presence!RL_MAX + 1)
    BY <1>4, <1>t DEF Presence!CountUpdate, Presence!TypeOK, Presence!RL_MAX
  <2> QED
    BY <1>t, <1>h, <2>1, <2>3, <2>4 DEF MapInv, Presence!TypeOK
<1>5. ASSUME NEW q \in Slots, Presence!StartWindow(q) PROVE MapInv'
  <2>1. handler' \in [Slots -> MapHandlerSet] /\ MapShows'
    BY <1>5, <1>g DEF Presence!StartWindow, Presence!At, MapSteps
  <2> QED
    BY <1>5, <1>t, <1>h, <2>1 DEF Presence!StartWindow, MapInv, Presence!TypeOK
<1>6. CASE Presence!WindowEnds
  <2>1. 0 \in 0..(Presence!RL_MAX + 1)
    BY DEF Presence!RL_MAX
  <2>2. MapShows'
    BY <1>6, <1>t DEF Presence!WindowEnds, MapShows, MapUntold
  <2> QED
    BY <1>6, <1>t, <2>1, <2>2 DEF Presence!WindowEnds, MapInv, Presence!TypeOK
<1>7. ASSUME NEW q \in Slots, Presence!ReadPosition(q) PROVE MapInv'
  <2>1. /\ handler[q].pc = "get" /\ (Presence!Ends(q) \/ Presence!Goto(q, "store"))
        /\ UNCHANGED <<rest, pos, count, countTtl, socket, view, raced, presenceDeaths>>
    BY <1>7 DEF Presence!ReadPosition, Presence!At
  <2>2. handler' \in [Slots -> MapHandlerSet] /\ MapShows'
    BY <1>e, <1>g, <2>1 DEF MapSteps
  <2> QED
    BY <1>t, <1>h, <2>1, <2>2 DEF MapInv, Presence!TypeOK
<1>8. ASSUME NEW q \in Slots, Presence!Store(q) PROVE MapInv'
  <2>1. /\ handler[q].pc = "store" /\ pos' = handler[q].cell
        /\ IF rest THEN Presence!Ends(q) ELSE Presence!Goto(q, "emit")
        /\ raced' = (raced \/ (rest /\ view.pc \in {"listed", "read", "in"}))
        /\ UNCHANGED <<rest, count, countTtl, socket, view, presenceDeaths>>
    BY <1>8 DEF Presence!Store, Presence!At, Presence!Races
  <2>2. pos' \in Presence!Places /\ raced' \in BOOLEAN
    BY <1>t, <2>1 DEF MapHandlerSet, Presence!TypeOK
  <2>3. CASE rest
    <3>1. handler' \in [Slots -> MapHandlerSet]
      BY <1>t, <1>n, <2>1, <2>3 DEF Presence!Ends
    <3>2. MapShows'
      BY <2>1, <2>3 DEF MapShows
    <3> QED
      BY <1>t, <1>h, <2>1, <2>2, <3>1, <3>2 DEF MapInv, Presence!TypeOK
  <2>4. CASE ~rest
    <3>1. handler' = [handler EXCEPT ![q].pc = "emit"]
      BY <2>1, <2>4 DEF Presence!Goto
    <3>2. handler' \in [Slots -> MapHandlerSet] /\ handler'[q].pc = "emit" /\ handler'[q].cell = pos'
      BY <1>t, <2>1, <3>1 DEF MapHandlerSet, MapSteps
    <3>3. MapShows'
      BY <3>2 DEF MapShows, MapUntold
    <3> QED
      BY <1>t, <1>h, <2>1, <2>2, <3>2, <3>3 DEF MapInv, Presence!TypeOK
  <2> QED
    BY <2>3, <2>4
<1>9. ASSUME NEW q \in Slots, Presence!Broadcast(q) PROVE MapInv'
  <2> DEFINE cell == handler[q].cell
  <2>1. /\ view' = IF view.pc # "out" THEN [view EXCEPT !.shown = cell] ELSE view
        /\ raced' = (raced \/ ((view.pc \in {"listed", "read"} \/ cell # pos)
                                /\ view.pc \in {"listed", "read", "in"}))
        /\ Presence!Ends(q)
        /\ UNCHANGED <<rest, pos, count, countTtl, socket, presenceDeaths>>
    BY <1>9 DEF Presence!Broadcast, Presence!Races, Presence!BeforeSnapshot, Presence!InRoom
  <2>2. cell \in Presence!Places
    BY <1>t DEF MapHandlerSet
  <2>3. /\ view' \in [pc : {"out", "room", "listed", "read", "in"}, snapshot : Presence!Places, shown : Presence!Places]
        /\ view'.pc = view.pc
        /\ view.pc = "in" => view'.shown = cell
    BY <1>t, <2>1, <2>2
  <2>4. handler' \in [Slots -> MapHandlerSet]
    BY <1>t, <1>n, <2>1 DEF Presence!Ends
  <2>5. MapShows'
    BY <2>1, <2>3 DEF MapShows
  <2>6. raced' \in BOOLEAN
    BY <1>t, <2>1 DEF Presence!TypeOK
  <2> QED
    BY <1>t, <1>h, <2>1, <2>3, <2>4, <2>5, <2>6 DEF MapInv, Presence!TypeOK
<1>10. CASE Presence!PositionExpires
  <2>1. raced' \/ view'.pc \in {"out", "room"}
    BY <1>10, <1>t DEF Presence!PositionExpires, Presence!Races
  <2> QED
    BY <1>10, <1>t, <2>1 DEF Presence!PositionExpires, Presence!Races, MapInv, Presence!TypeOK, MapShows, Presence!Places
<1>11. CASE Presence!JoinRoom \/ Presence!CloseMap
  <2>1. /\ view' \in [pc : {"out", "room", "listed", "read", "in"}, snapshot : Presence!Places, shown : Presence!Places]
        /\ view'.pc \in {"room", "out"}
        /\ raced' \in BOOLEAN
        /\ UNCHANGED <<rest, pos, count, countTtl, socket, handler, presenceDeaths>>
    <3>1. CASE Presence!JoinRoom
      BY <1>t, <3>1 DEF Presence!JoinRoom, Presence!TypeOK
    <3>2. CASE Presence!CloseMap
      <4>1. /\ Presence!NoView \in [pc : {"out", "room", "listed", "read", "in"}, snapshot : Presence!Places, shown : Presence!Places]
            /\ Presence!NoView.pc = "out"
        BY DEF Presence!NoView, Presence!Places
      <4> QED
        BY <1>t, <3>2, <4>1 DEF Presence!CloseMap
    <3> QED
      BY <1>11, <3>1, <3>2
  <2> QED
    BY <1>t, <2>1 DEF MapInv, Presence!TypeOK, MapShows
<1>12. CASE Presence!JoinStep
  <2>1. CASE Presence!ListKeys
    <3>1. view'.pc = "listed" /\ view'.snapshot = pos /\ pos' = pos
      BY <2>1, <1>t DEF Presence!ListKeys
    <3>2. MapShows'
      BY <3>1 DEF MapShows
    <3> QED
      BY <2>1, <1>t, <3>2 DEF Presence!ListKeys, MapInv, Presence!TypeOK
  <2>2. CASE Presence!ReadListed
    <3>1. /\ view.pc = "listed" /\ view'.pc = "read"
          /\ view'.snapshot = IF view.snapshot = Presence!NoPlace THEN Presence!NoPlace ELSE pos
          /\ UNCHANGED <<rest, pos, count, countTtl, socket, handler, raced, presenceDeaths>>
      BY <2>2, <1>t DEF Presence!ReadListed
    <3>2. MapShows'
      BY <1>t, <3>1 DEF MapShows, MapUntold
    <3>3. view' \in [pc : {"out", "room", "listed", "read", "in"}, snapshot : Presence!Places, shown : Presence!Places]
      BY <2>2, <1>t DEF Presence!ReadListed, Presence!TypeOK, Presence!Places
    <3> QED
      BY <1>t, <3>1, <3>2, <3>3 DEF MapInv, Presence!TypeOK
  <2>3. CASE Presence!SendSnapshot
    <3>1. /\ view.pc = "read" /\ view'.pc = "in" /\ view'.shown = view.snapshot
          /\ UNCHANGED <<rest, pos, count, countTtl, socket, handler, raced, presenceDeaths>>
      BY <2>3, <1>t DEF Presence!SendSnapshot
    <3>2. MapShows'
      BY <1>t, <3>1 DEF MapShows, MapUntold
    <3>3. view' \in [pc : {"out", "room", "listed", "read", "in"}, snapshot : Presence!Places, shown : Presence!Places]
      BY <2>3, <1>t DEF Presence!SendSnapshot, Presence!Places
    <3> QED
      BY <1>t, <3>1, <3>2, <3>3 DEF MapInv, Presence!TypeOK
  <2> QED
    BY <1>12, <2>1, <2>2, <2>3 DEF Presence!JoinStep
<1>13. ASSUME NEW q \in Slots, Presence!Die(q) PROVE MapInv'
  <2>1. /\ presenceDeaths < MaxPresenceDeaths /\ presenceDeaths' = presenceDeaths + 1 /\ Presence!Ends(q)
        /\ raced' = (raced \/ (handler[q].pc = "emit" /\ view.pc \in {"listed", "read", "in"}))
        /\ UNCHANGED <<rest, pos, count, countTtl, socket, view>>
    BY <1>13 DEF Presence!Die, Presence!At, Presence!Races
  <2>2. handler[q].pc = "emit" => raced' \/ view.pc \in {"out", "room"}
    BY <1>t, <2>1
  <2>3. handler' \in [Slots -> MapHandlerSet] /\ MapShows'
    BY <1>e, <2>1, <2>2
  <2>4. presenceDeaths' \in 0..MaxPresenceDeaths /\ raced' \in BOOLEAN
    BY <1>t, <2>1 DEF Presence!TypeOK
  <2> QED
    BY <1>t, <1>h, <2>1, <2>3, <2>4 DEF MapInv, Presence!TypeOK
<1>14. CASE UNCHANGED Presence!presenceVars
  BY <1>14, <1>t DEF Presence!presenceVars, MapInv, Presence!TypeOK, MapShows, MapUntold
<1> QED
  BY <1>1, <1>2, <1>3, <1>4, <1>5, <1>6, <1>7, <1>8, <1>9, <1>10, <1>11, <1>12, <1>13, <1>14
     DEF Presence!Next, Presence!HandlerStep

-----------------------------------------------------------------------------
(* The notifications *)

PushSteps == {"idle", "participants", "tokens", "trip", "send", "done"}

(* Nobody is due before the tokens are read; then who is due was tried or is still to be *)
PushDueInv ==
    \A k \in Fanout!Kinds :
        /\ push[k].pc \in {"idle", "participants", "tokens"} => due[k] = {}
        /\ push[k].pc \in {"trip", "send"} =>
              \A u \in due[k] : u \in push[k].ids \/ <<k, u>> \in tried

(* An alert is on its way to users who have been on the trip, and not to its sender *)
PushGoesToRiders ==
    /\ approved \subseteq everOn
    /\ push["sos"].ids \subseteq everOn \ {Sender}

(* The approval's promise has not begun before the transaction *)
PushBeginsOnce == commit = "none" => push["approval"].pc = "idle" /\ "approval" \notin lost

PushInv == Fanout!TypeOK /\ PushDueInv /\ PushGoesToRiders /\ PushBeginsOnce /\ Fanout!AlertReachesRiders

-----------------------------------------------------------------------------
(* The invariant holds at the start. *)
LEMMA PushInitInv == Fanout!Init => PushInv
<1> SUFFICES ASSUME Fanout!Init PROVE PushInv
  OBVIOUS
<1>1. Fanout!TypeOK
  BY DEF Fanout!Init, Fanout!TypeOK, Fanout!People, Fanout!Kinds
<1>2. PushDueInv /\ PushGoesToRiders /\ PushBeginsOnce
  BY DEF Fanout!Init, PushDueInv, PushGoesToRiders, PushBeginsOnce, Fanout!Kinds
<1>3. Fanout!AlertReachesRiders
  BY DEF Fanout!Init, Fanout!AlertReachesRiders, Fanout!EveryoneIsTried, Fanout!AlertsOnlyRiders, Fanout!At, Fanout!Kinds
<1> QED
  BY <1>1, <1>2, <1>3 DEF PushInv

(* What a promise that goes on leaves of the others *)
LEMMA PushProceedsType ==
    ASSUME Fanout!TypeOK, NEW k \in Fanout!Kinds, NEW step \in PushSteps, NEW ids \in SUBSET Fanout!People,
           Fanout!Proceeds(k, step, ids)
    PROVE  /\ push' \in [Fanout!Kinds -> [pc : PushSteps, ids : SUBSET Fanout!People]]
           /\ push'[k].pc = IF ids = {} THEN "done" ELSE step
           /\ push'[k].ids = ids
           /\ \A j \in Fanout!Kinds \ {k} : push'[j] = push[j]
<1> DEFINE n == IF ids = {} THEN [pc |-> "done", ids |-> {}] ELSE [pc |-> step, ids |-> ids]
<1>1. push \in [Fanout!Kinds -> [pc : PushSteps, ids : SUBSET Fanout!People]] /\ push' = [push EXCEPT ![k] = n]
  BY DEF Fanout!TypeOK, PushSteps, Fanout!Proceeds
<1>2. n \in [pc : PushSteps, ids : SUBSET Fanout!People] /\ n.ids = ids
      /\ n.pc = IF ids = {} THEN "done" ELSE step
  BY DEF PushSteps
<1> HIDE DEF n
<1> QED
  BY <1>1, <1>2

(* Every step keeps the invariant. *)
LEMMA PushNextStep == PushInv /\ [Fanout!Next]_(Fanout!pushVars) => PushInv'
<1> SUFFICES ASSUME PushInv, [Fanout!Next]_(Fanout!pushVars) PROVE PushInv'
  OBVIOUS
<1>t. /\ Fanout!TypeOK /\ PushDueInv /\ PushGoesToRiders /\ PushBeginsOnce
      /\ Fanout!EveryoneIsTried /\ Fanout!AlertsOnlyRiders
      /\ "sos" \in Fanout!Kinds /\ "approval" \in Fanout!Kinds
  BY DEF PushInv, Fanout!AlertReachesRiders, Fanout!Kinds
<1>s. Sender \in Fanout!People /\ Applicant \in Fanout!People
  BY RequestsAssumption DEF Fanout!People
<1>1. CASE Fanout!RaiseAlert
  <2>1. /\ push' = [push EXCEPT !["sos"].pc = "participants"]
        /\ UNCHANGED <<approved, commit, hasToken, due, tried, lost, everOn>>
        /\ push["sos"].pc = "idle"
    BY <1>1 DEF Fanout!RaiseAlert, Fanout!At
  <2>2. /\ Fanout!TypeOK' /\ push'["sos"].pc = "participants" /\ push'["sos"].ids = push["sos"].ids
        /\ push'["approval"] = push["approval"]
    BY <1>t, <2>1 DEF Fanout!TypeOK, Fanout!Kinds
  <2> QED
    BY <1>t, <2>1, <2>2 DEF PushInv, PushDueInv, PushGoesToRiders, PushBeginsOnce, Fanout!AlertReachesRiders,
       Fanout!EveryoneIsTried, Fanout!AlertsOnlyRiders, Fanout!At, Fanout!Kinds
<1>2. CASE Fanout!Approve
  <2>1. /\ commit' = "open" /\ push["approval"].pc = "idle"
        /\ Fanout!Proceeds("approval", "tokens", {Applicant})
        /\ UNCHANGED <<approved, hasToken, due, tried, lost, everOn>>
    BY <1>2, <1>t DEF Fanout!Approve, PushBeginsOnce
  <2>2. /\ push' \in [Fanout!Kinds -> [pc : PushSteps, ids : SUBSET Fanout!People]]
        /\ push'["approval"].pc = "tokens" /\ push'["sos"] = push["sos"]
    BY <1>t, <1>s, <2>1, PushProceedsType DEF PushSteps, Fanout!Kinds
  <2>3. Fanout!TypeOK'
    BY <1>t, <2>1, <2>2 DEF Fanout!TypeOK, PushSteps
  <2> QED
    BY <1>t, <2>1, <2>2, <2>3 DEF PushInv, PushDueInv, PushGoesToRiders, PushBeginsOnce, Fanout!AlertReachesRiders,
       Fanout!EveryoneIsTried, Fanout!AlertsOnlyRiders, Fanout!At, Fanout!Kinds
<1>3. CASE Fanout!Commit
  BY <1>3, <1>t, <1>s DEF Fanout!Commit, PushInv, Fanout!TypeOK, PushDueInv, PushGoesToRiders, PushBeginsOnce,
     Fanout!AlertReachesRiders, Fanout!EveryoneIsTried, Fanout!AlertsOnlyRiders, Fanout!At
<1>4. CASE Fanout!FindParticipants
  <2> DEFINE ids == approved \ {Sender}
  <2>1. /\ push["sos"].pc = "participants" /\ Fanout!Proceeds("sos", "tokens", ids)
        /\ UNCHANGED <<approved, commit, hasToken, due, tried, lost, everOn>>
    BY <1>4 DEF Fanout!FindParticipants, Fanout!Found, Fanout!At
  <2>2. ids \in SUBSET Fanout!People /\ ids \subseteq everOn \ {Sender}
    BY <1>t DEF Fanout!TypeOK, PushGoesToRiders
  <2>3. /\ push' \in [Fanout!Kinds -> [pc : PushSteps, ids : SUBSET Fanout!People]]
        /\ push'["sos"].pc \in {"done", "tokens"} /\ push'["sos"].ids = ids
        /\ push'["approval"] = push["approval"]
    BY <1>t, <2>1, <2>2, PushProceedsType DEF PushSteps, Fanout!Kinds
  <2>4. Fanout!TypeOK'
    BY <1>t, <2>1, <2>3 DEF Fanout!TypeOK, PushSteps
  <2> QED
    BY <1>t, <2>1, <2>2, <2>3, <2>4 DEF PushInv, PushDueInv, PushGoesToRiders, PushBeginsOnce,
       Fanout!AlertReachesRiders, Fanout!EveryoneIsTried, Fanout!AlertsOnlyRiders, Fanout!At, Fanout!Kinds
<1>5. ASSUME NEW k \in Fanout!Kinds, Fanout!FindTokens(k) PROVE PushInv'
  <2> DEFINE ids == push[k].ids \cap hasToken
  <2>1. \E step \in {"trip", "send"} : Fanout!Proceeds(k, step, ids)
    BY <1>5 DEF Fanout!FindTokens
  <2>2. /\ push[k].pc = "tokens" /\ due' = [due EXCEPT ![k] = ids]
        /\ UNCHANGED <<approved, commit, hasToken, tried, lost, everOn>>
    BY <1>5 DEF Fanout!FindTokens, Fanout!At
  <2>3. ids \in SUBSET Fanout!People /\ ids \subseteq push[k].ids
    BY <1>t DEF Fanout!TypeOK
  <2>4. /\ push' \in [Fanout!Kinds -> [pc : PushSteps, ids : SUBSET Fanout!People]]
        /\ (push'[k].pc = "done" /\ ids = {}) \/ push'[k].pc \in {"trip", "send"}
        /\ push'[k].ids = ids
        /\ \A j \in Fanout!Kinds \ {k} : push'[j] = push[j]
    BY <1>t, <2>1, <2>3, PushProceedsType DEF PushSteps
  <2>5. due'[k] = ids /\ \A j \in Fanout!Kinds \ {k} : due'[j] = due[j]
    BY <1>t, <2>2 DEF Fanout!TypeOK
  <2>6. Fanout!TypeOK'
    BY <1>t, <2>2, <2>3, <2>4 DEF Fanout!TypeOK, PushSteps
  <2>7. PushDueInv' /\ PushBeginsOnce'
    BY <1>t, <2>2, <2>4, <2>5 DEF PushDueInv, PushBeginsOnce
  <2>8. PushGoesToRiders'
    BY <1>t, <2>2, <2>3, <2>4 DEF PushGoesToRiders
  <2>9. Fanout!AlertReachesRiders'
    BY <1>t, <2>2, <2>4, <2>5 DEF Fanout!AlertReachesRiders, Fanout!EveryoneIsTried, Fanout!AlertsOnlyRiders, Fanout!At
  <2> QED
    BY <2>6, <2>7, <2>8, <2>9 DEF PushInv
<1>6. CASE Fanout!FindTrip
  <2>1. /\ push["sos"].pc = "trip" /\ Fanout!Proceeds("sos", "send", push["sos"].ids)
        /\ UNCHANGED <<approved, commit, hasToken, due, tried, lost, everOn>>
    BY <1>6 DEF Fanout!FindTrip, Fanout!At
  <2>2. push["sos"].ids \in SUBSET Fanout!People
    BY <1>t DEF Fanout!TypeOK
  <2>3. /\ push' \in [Fanout!Kinds -> [pc : PushSteps, ids : SUBSET Fanout!People]]
        /\ (push'["sos"].pc = "done" /\ push["sos"].ids = {}) \/ push'["sos"].pc = "send"
        /\ push'["sos"].ids = push["sos"].ids
        /\ push'["approval"] = push["approval"]
    BY <1>t, <2>1, <2>2, PushProceedsType DEF PushSteps, Fanout!Kinds
  <2>4. Fanout!TypeOK'
    BY <1>t, <2>1, <2>3 DEF Fanout!TypeOK, PushSteps
  <2> QED
    BY <1>t, <2>1, <2>2, <2>3, <2>4 DEF PushInv, PushDueInv, PushGoesToRiders, PushBeginsOnce,
       Fanout!AlertReachesRiders, Fanout!EveryoneIsTried, Fanout!AlertsOnlyRiders, Fanout!At, Fanout!Kinds
<1>7. ASSUME NEW k \in Fanout!Kinds, NEW u \in Fanout!People, NEW ok \in BOOLEAN, Fanout!Send(k, u, ok) PROVE PushInv'
  <2> DEFINE ids == push[k].ids \ {u}
  <2>1. /\ push[k].pc = "send" /\ u \in push[k].ids /\ Fanout!Proceeds(k, "send", ids)
        /\ tried' = tried \cup {<<k, u>>}
        /\ UNCHANGED <<approved, commit, hasToken, due, lost, everOn>>
    BY <1>7 DEF Fanout!Send, Fanout!Others, Fanout!At
  <2>2. ids \in SUBSET Fanout!People
    BY <1>t DEF Fanout!TypeOK
  <2>3. /\ push' \in [Fanout!Kinds -> [pc : PushSteps, ids : SUBSET Fanout!People]]
        /\ (push'[k].pc = "done" /\ ids = {}) \/ push'[k].pc = "send"
        /\ push'[k].ids = ids
        /\ \A j \in Fanout!Kinds \ {k} : push'[j] = push[j]
    BY <1>t, <2>1, <2>2, PushProceedsType DEF PushSteps
  <2>4. Fanout!TypeOK'
    BY <1>t, <2>1, <2>3 DEF Fanout!TypeOK, PushSteps
  <2>5. \A j \in Fanout!Kinds : \A w \in due[j] : w \in push[j].ids \/ <<j, w>> \in tried
          => w \in push'[j].ids \/ <<j, w>> \in tried'
    BY <2>1, <2>3
  <2>6. PushDueInv' /\ PushBeginsOnce'
    BY <1>t, <2>1, <2>3, <2>5 DEF PushDueInv, PushBeginsOnce
  <2>7. PushGoesToRiders'
    BY <1>t, <2>1, <2>3 DEF PushGoesToRiders
  <2>8. Fanout!EveryoneIsTried'
    BY <1>t, <2>1, <2>3, <2>5 DEF Fanout!EveryoneIsTried, PushDueInv, Fanout!At
  <2>9. Fanout!AlertsOnlyRiders'
    BY <1>t, <2>1 DEF Fanout!AlertsOnlyRiders, PushGoesToRiders
  <2> QED
    BY <2>4, <2>6, <2>7, <2>8, <2>9 DEF PushInv, Fanout!AlertReachesRiders
<1>8. ASSUME NEW k \in Fanout!Kinds, Fanout!QueryFails(k) PROVE PushInv'
  <2>1. /\ lost' = lost \cup {k} /\ Fanout!Proceeds(k, "done", {})
        /\ push[k].pc # "idle"
        /\ UNCHANGED <<approved, commit, hasToken, due, tried, everOn>>
    BY <1>8 DEF Fanout!QueryFails
  <2>2. /\ push' \in [Fanout!Kinds -> [pc : PushSteps, ids : SUBSET Fanout!People]]
        /\ push'[k].pc = "done" /\ push'[k].ids = {}
        /\ \A j \in Fanout!Kinds \ {k} : push'[j] = push[j]
    BY <1>t, <2>1, PushProceedsType DEF PushSteps
  <2>3. Fanout!TypeOK'
    BY <1>t, <2>1, <2>2 DEF Fanout!TypeOK, PushSteps
  <2>4. PushDueInv' /\ PushBeginsOnce'
    BY <1>t, <2>1, <2>2 DEF PushDueInv, PushBeginsOnce
  <2>5. PushGoesToRiders' /\ Fanout!AlertReachesRiders'
    BY <1>t, <2>1, <2>2 DEF PushGoesToRiders, Fanout!AlertReachesRiders, Fanout!EveryoneIsTried,
       Fanout!AlertsOnlyRiders, Fanout!At
  <2> QED
    BY <2>3, <2>4, <2>5 DEF PushInv
<1>9. CASE Fanout!Die
  <2>1. /\ lost \subseteq lost' /\ lost' \subseteq Fanout!Kinds
        /\ push' = [k \in Fanout!Kinds |-> IF k \in lost' THEN [pc |-> "done", ids |-> {}] ELSE push[k]]
        /\ commit' \in {"none", "open", "yes", "no"}
        /\ commit' = "none" => commit = "none"
        /\ "approval" \in lost' => "approval" \in lost \/ push["approval"].pc # "idle"
        /\ UNCHANGED <<approved, hasToken, due, tried, everOn>>
    BY <1>9, <1>t DEF Fanout!Die, Fanout!TypeOK
  <2>2. \A k \in Fanout!Kinds : push'[k] = IF k \in lost' THEN [pc |-> "done", ids |-> {}] ELSE push[k]
    BY <2>1
  <2>3. Fanout!TypeOK'
    BY <1>t, <2>1, <2>2 DEF Fanout!TypeOK
  <2>4. PushDueInv' /\ PushGoesToRiders'
    BY <1>t, <2>1, <2>2 DEF PushDueInv, PushGoesToRiders
  <2>5. Fanout!AlertReachesRiders'
    BY <1>t, <2>1, <2>2 DEF Fanout!AlertReachesRiders, Fanout!EveryoneIsTried, Fanout!AlertsOnlyRiders, Fanout!At
  <2>6. PushBeginsOnce'
    BY <1>t, <2>1, <2>2 DEF PushBeginsOnce
  <2> QED
    BY <2>3, <2>4, <2>5, <2>6 DEF PushInv
<1>10. ASSUME NEW u \in Fanout!People, Fanout!Leave(u) \/ Fanout!SetToken(u) PROVE PushInv'
  BY <1>10, <1>t DEF Fanout!Leave, Fanout!SetToken, PushInv, Fanout!TypeOK, PushDueInv, PushGoesToRiders, PushBeginsOnce,
     Fanout!AlertReachesRiders, Fanout!EveryoneIsTried, Fanout!AlertsOnlyRiders, Fanout!At
<1>11. CASE UNCHANGED Fanout!pushVars
  BY <1>11, <1>t DEF Fanout!pushVars, PushInv, Fanout!TypeOK, PushDueInv, PushGoesToRiders, PushBeginsOnce,
     Fanout!AlertReachesRiders, Fanout!EveryoneIsTried, Fanout!AlertsOnlyRiders, Fanout!At
<1> QED
  BY <1>1, <1>2, <1>3, <1>4, <1>5, <1>6, <1>7, <1>8, <1>9, <1>10, <1>11 DEF Fanout!Next, Fanout!PushStep

(* The SOS and the approval reach whom they found, and the SOS riders only. *)
LEMMA PushReaches == Fanout!Spec => [](Fanout!TypeOK /\ Fanout!AlertReachesRiders)
<1>1. PushInv => Fanout!TypeOK /\ Fanout!AlertReachesRiders
  BY DEF PushInv
<1> QED
  BY <1>1, PushInitInv, PushNextStep, PTL DEF Fanout!Spec

-----------------------------------------------------------------------------
(* ChatService.getHistory: a walk through the pages shows every message once that *)
(* was stored when it began, whatever is stored meanwhile and wherever the walk   *)
(* begins.                                                                        *)
THEOREM PagesShowAll == History!Spec => []EveryMessageOnce
  BY HistPagesAndReplies, PTL DEF EveryMessageOnce

(* ChatService.resolveReplySnapshot: a reply without a snapshot had its target *)
(* too far back in the stream for the scan, or Redis failed.                   *)
THEOREM RepliesResolve == History!Spec => []ReplyResolves
  BY HistPagesAndReplies, PTL DEF ReplyResolves

(* LocationGateway: once no handler runs, what a member's map shows of a rider is *)
(* the position that is stored, unless a change came between KEYS and the         *)
(* snapshot, two changes were told in the other order, or the position expired or *)
(* was not told. It needs no fairness.                                            *)
THEOREM MapIsCurrent ==
    Presence!Init /\ [][Presence!Next]_(Presence!presenceVars) => [](Presence!TypeOK /\ MapShowsStored)
<1>1. MapInv => Presence!TypeOK /\ MapShowsStored
  BY DEF MapInv, MapShows, MapUntold, MapShowsStored, Presence!MapShowsStored, Presence!Quiet, Presence!At
<1> QED
  BY <1>1, MapInitInv, MapNextStep, PTL

(* NotificationsService.sendPushMany: an alert goes to riders of the trip and not *)
(* to its sender, and everybody that a finished promise found is tried, whichever *)
(* tokens fail, unless a query failed or the process ended.                       *)
THEOREM AlertsArrive == Fanout!Spec => []AlertReachesRiders
  BY PushReaches, PTL DEF AlertReachesRiders
=============================================================================
