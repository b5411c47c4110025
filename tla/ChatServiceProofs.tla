-------------------------- MODULE ChatServiceProofs --------------------------
(***************************************************************************)
(* Proofs about the chat: the write path (ChatFlush), for every set of     *)
(* rooms and servers, every batch size and every number of messages and    *)
(* faults; and the limits (ChatLimits), for any number of handlers that    *)
(* overlap and die, and any limits.                                        *)
(***************************************************************************)
EXTENDS ChatService, FiniteSetTheorems, TLAPS

(* The cursor of the group never runs ahead of the stream, and has not moved  *)
(* before the group exists.                                                   *)
CursorInv ==
    \A r \in Rooms : /\ lastDel[r] <= len[r]
                     /\ r \notin group => lastDel[r] = 0

(* A flush holds entries only between its read and its ack, they are entries  *)
(* the group has delivered, and from the INSERT on they have their rows.      *)
BatchInv ==
    \A s \in Servers, r \in Rooms :
       /\ \A i \in batch[s][r] : i <= lastDel[r]
       /\ pc[s][r] \notin {"insert", "ack"} => batch[s][r] = {}
       /\ pc[s][r] = "ack" => batch[s][r] \subseteq stored[r]

(* Rows are written and PEL entries exist only for what was queued.           *)
StoredInv == 
    \A r \in Rooms : \A i \in Entries :
       /\ i \in stored[r] => i <= lastDel[r]
       /\ owner[r][i] # NoOwner => i <= lastDel[r]

Inv == TypeOK /\ CursorInv /\ BatchInv /\ StoredInv /\ AckedIsStored /\ ExclusiveDelivery

USE ChatFlushAssumption

-----------------------------------------------------------------------------
(* What XREADGROUP hands out lies after the cursor and up to the new cursor. *)
LEMMA NewEntriesRange ==
    ASSUME TypeOK, NEW r \in Rooms, NEW i \in Entries
    PROVE  i \in NewEntries(r) <=> /\ lastDel[r] < i
                                   /\ i <= len[r]
                                   /\ i <= lastDel[r] + BatchSize
  BY DEF NewEntries

(* The initial states satisfy the inductive invariant. *)
LEMMA InitInv == Init => Inv
  BY SMTT(30) DEF Init, Inv, TypeOK, CursorInv, BatchInv, StoredInv, AckedIsStored,
         Acked, ExclusiveDelivery, Entries, PC

(* Every step of the chat pipeline keeps the variables in their types. *)
LEMMA TypeStep == TypeOK /\ [Next]_vars => TypeOK'
<1> SUFFICES ASSUME TypeOK, [Next]_vars PROVE TypeOK'
  OBVIOUS
<1> USE DEF TypeOK, Entries, PC
<1>1. ASSUME NEW s \in Servers, Bootstrap(s) PROVE TypeOK'
  BY <1>1 DEF Bootstrap, redis
<1>2. ASSUME NEW s \in Servers, Crash(s) PROVE TypeOK'
  BY <1>2 DEF Crash, Fault, redis
<1>3. ASSUME NEW s \in Servers, Tick(s) PROVE TypeOK'
  BY <1>3 DEF Tick, redis
<1>4. ASSUME NEW s \in Servers, NEW r \in Rooms, QueueMessage(s, r) PROVE TypeOK'
  BY <1>4 DEF QueueMessage, local
<1>5. ASSUME NEW s \in Servers, NEW r \in Rooms, RegisterStream(s, r) PROVE TypeOK'
  BY <1>5 DEF RegisterStream
<1>6. ASSUME NEW s \in Servers, NEW r \in Rooms, EnsureConsumerGroup(s, r) PROVE TypeOK'
  BY <1>6 DEF EnsureConsumerGroup, GroupStart
<1>7. ASSUME NEW s \in Servers, NEW r \in Rooms, RecoverPendingEntries(s, r) PROVE TypeOK'
  BY <1>7 DEF RecoverPendingEntries
<1>8. ASSUME NEW s \in Servers, NEW r \in Rooms, FlushReadNothing(s, r) PROVE TypeOK'
  BY <1>8 DEF FlushReadNothing, FlushEnds, redis
<1>9. ASSUME NEW s \in Servers, NEW r \in Rooms, FlushRead(s, r) PROVE TypeOK'
  <2>1. NewEntries(r) \subseteq Entries
    BY DEF NewEntries
  <2>2. lastDel' \in [Rooms -> 0..MaxEntries]
    BY <1>9 DEF FlushRead, CursorAfterRead
  <2> QED
    BY <1>9, <2>1, <2>2 DEF FlushRead
<1>10. ASSUME NEW s \in Servers, NEW r \in Rooms, FlushInsert(s, r) PROVE TypeOK'
  BY <1>10 DEF FlushInsert, redis
<1>11. ASSUME NEW s \in Servers, NEW r \in Rooms, FlushAck(s, r) PROVE TypeOK'
  BY <1>11 DEF FlushAck, FlushEnds
<1>12. ASSUME NEW s \in Servers, NEW r \in Rooms, FlushFails(s, r) PROVE TypeOK'
  <2>1. CASE UNCHANGED stored
    BY <1>12, <2>1 DEF FlushFails, FlushEnds, Fault, redis
  <2>2. CASE stored' = [stored EXCEPT ![r] = @ \cup batch[s][r]]
    BY <1>12, <2>2 DEF FlushFails, FlushEnds, Fault, redis
  <2> QED
    BY <1>12, <2>1, <2>2 DEF FlushFails
<1>13. CASE UNCHANGED vars
  BY <1>13 DEF vars, redis, local
<1> QED
  BY <1>1, <1>2, <1>3, <1>4, <1>5, <1>6, <1>7, <1>8, <1>9, <1>10, <1>11,
     <1>12, <1>13 DEF Next, FlushStep

(* The type invariant of the chat pipeline holds in every reachable state. *)
THEOREM TypeCorrect == Spec => []TypeOK
<1>1. Init => TypeOK
  BY InitInv DEF Inv
<1> QED
  BY <1>1, TypeStep, PTL DEF Spec

-----------------------------------------------------------------------------
(* Every step of the chat pipeline keeps the inductive invariant. *)
LEMMA InvStep == Inv /\ [Next]_vars => Inv'
<1> SUFFICES ASSUME Inv, [Next]_vars PROVE Inv'
  OBVIOUS
<1>t. TypeOK /\ TypeOK'
  BY TypeStep DEF Inv
<1> DEFINE Rest == CursorInv /\ BatchInv /\ StoredInv /\ AckedIsStored /\ ExclusiveDelivery
<1> USE DEF Inv, CursorInv, BatchInv, StoredInv, AckedIsStored, Acked, ExclusiveDelivery
<1>1. ASSUME NEW s \in Servers, Bootstrap(s) PROVE Rest'
  BY <1>1 DEF Bootstrap, redis
<1>2. ASSUME NEW s \in Servers, Crash(s) PROVE Rest'
  BY <1>2, <1>t DEF Crash, redis, TypeOK
<1>3. ASSUME NEW s \in Servers, Tick(s) PROVE Rest'
  BY <1>3, <1>t DEF Tick, redis, TypeOK
<1>4. ASSUME NEW s \in Servers, NEW r \in Rooms, QueueMessage(s, r) PROVE Rest'
  BY <1>4, <1>t DEF QueueMessage, local, TypeOK
<1>5. ASSUME NEW s \in Servers, NEW r \in Rooms, RegisterStream(s, r) PROVE Rest'
  BY <1>5 DEF RegisterStream
<1>6. ASSUME NEW s \in Servers, NEW r \in Rooms, EnsureConsumerGroup(s, r) PROVE Rest'
  <2>1. lastDel' = lastDel
    BY <1>6, <1>t DEF EnsureConsumerGroup, GroupStart, TypeOK
  <2> QED
    BY <1>6, <2>1 DEF EnsureConsumerGroup
<1>7. ASSUME NEW s \in Servers, NEW r \in Rooms, RecoverPendingEntries(s, r) PROVE Rest'
  <2>1. \A q \in Rooms : \A i \in Entries :
           owner'[q][i] = NoOwner <=> owner[q][i] = NoOwner
    <3>1. PICK stale \in SUBSET FirstPending(r) :
             owner' = [owner EXCEPT ![r] =
                         [i \in Entries |-> IF i \in stale THEN s ELSE @[i]]]
      BY <1>7 DEF RecoverPendingEntries
    <3>2. \A i \in stale : owner[r][i] # NoOwner
      BY DEF FirstPending, PEL
    <3> QED
      BY <1>t, <3>1, <3>2 DEF TypeOK
  <2>2. CursorInv' /\ BatchInv' /\ ExclusiveDelivery'
    BY <1>7, <1>t DEF RecoverPendingEntries, TypeOK
  <2>3. StoredInv' /\ AckedIsStored'
    BY <1>7, <2>1 DEF RecoverPendingEntries
  <2> QED
    BY <2>2, <2>3
<1>8. ASSUME NEW s \in Servers, NEW r \in Rooms, FlushReadNothing(s, r) PROVE Rest'
  BY <1>8, <1>t DEF FlushReadNothing, FlushEnds, redis, TypeOK
<1>9. ASSUME NEW s \in Servers, NEW r \in Rooms, FlushRead(s, r) PROVE Rest'
  <2>1. CursorInv'
    BY <1>9, <1>t, NewEntriesRange DEF FlushRead, CursorAfterRead, Entries, TypeOK
  <2>2. BatchInv'
    BY <1>9, <1>t, NewEntriesRange DEF FlushRead, CursorAfterRead, Entries, TypeOK
  <2>3. StoredInv'
    BY <1>9, <1>t, NewEntriesRange DEF FlushRead, CursorAfterRead, Entries, TypeOK
  <2>4. AckedIsStored'
    BY <1>9, <1>t, NewEntriesRange DEF FlushRead, CursorAfterRead, Entries, TypeOK
  <2>5. ExclusiveDelivery'
    BY <1>9, <1>t, NewEntriesRange DEF FlushRead, CursorAfterRead, Entries, TypeOK
  <2> QED
    BY <2>1, <2>2, <2>3, <2>4, <2>5
<1>10. ASSUME NEW s \in Servers, NEW r \in Rooms, FlushInsert(s, r) PROVE Rest'
  BY <1>10, <1>t DEF FlushInsert, redis, TypeOK
<1>11. ASSUME NEW s \in Servers, NEW r \in Rooms, FlushAck(s, r) PROVE Rest'
  <2>1. CursorInv'
    BY <1>11, <1>t DEF FlushAck, FlushEnds, TypeOK
  <2>2. BatchInv'
    BY <1>11, <1>t DEF FlushAck, FlushEnds, TypeOK
  <2>3. StoredInv'
    BY <1>11, <1>t DEF FlushAck, FlushEnds, TypeOK
  <2>4. AckedIsStored'
    BY <1>11, <1>t DEF FlushAck, FlushEnds, TypeOK
  <2>5. ExclusiveDelivery'
    BY <1>11, <1>t DEF FlushAck, FlushEnds, TypeOK
  <2> QED
    BY <2>1, <2>2, <2>3, <2>4, <2>5
<1>12. ASSUME NEW s \in Servers, NEW r \in Rooms, FlushFails(s, r) PROVE Rest'
  <2>1. \A q \in Rooms : /\ stored[q] \subseteq stored'[q]
                         /\ \A i \in stored'[q] : i \in stored[q] \/ i \in batch[s][q]
    <3>1. CASE UNCHANGED stored
      BY <3>1
    <3>2. CASE stored' = [stored EXCEPT ![r] = @ \cup batch[s][r]]
      BY <1>t, <3>2 DEF TypeOK
    <3> QED
      BY <1>12, <3>1, <3>2 DEF FlushFails
  <2>2. CursorInv' /\ BatchInv' /\ ExclusiveDelivery'
    BY <1>12, <1>t, <2>1 DEF FlushFails, FlushEnds, redis, TypeOK
  <2>3. StoredInv' /\ AckedIsStored'
    BY <1>12, <1>t, <2>1 DEF FlushFails, FlushEnds, redis, TypeOK
  <2> QED
    BY <2>2, <2>3
<1>13. CASE UNCHANGED vars
  <2>1. CursorInv' /\ BatchInv'
    BY <1>13 DEF vars, redis, local
  <2>2. StoredInv' /\ AckedIsStored' /\ ExclusiveDelivery'
    BY <1>13 DEF vars, redis, local
  <2> QED
    BY <1>t, <2>1, <2>2
<1> QED
  BY <1>1, <1>2, <1>3, <1>4, <1>5, <1>6, <1>7, <1>8, <1>9, <1>10, <1>11,
     <1>12, <1>13, <1>t DEF Next, FlushStep

(* Whatever crashes, failed calls and claims happen, an entry that has left   *)
(* the PEL has its row: flushStream acknowledges after the INSERT.             *)
THEOREM AcknowledgedHaveRows == Spec => []AckedIsStored
<1>1. Inv => AckedIsStored
  BY DEF Inv
<1> QED
  BY <1>1, InitInv, InvStep, PTL DEF Spec

(* No entry is in the hands of two flushes: XREADGROUP assigns it to one       *)
(* consumer, and a claim does not give its contents to anybody.                *)
THEOREM HandedOutOnce == Spec => []ExclusiveDelivery
<1>1. Inv => ExclusiveDelivery
  BY DEF Inv
<1> QED
  BY <1>1, InitInv, InvStep, PTL DEF Spec

-----------------------------------------------------------------------------
(* The refinement mapping, named *)
AcceptedM == {m \in Rooms \X Entries : m[2] <= len[m[1]]}
KeptM     == {m \in Rooms \X Entries : m[2] \in stored[m[1]]}
SettledM  == {m \in Rooms \X Entries : m[2] \in Acked(m[1])}

(* A step of ChatFlush is a step of MessageLog, or changes nothing of it. *)
LEMMA RefinementStep == Inv /\ Inv' /\ [Next]_vars => [Log!Next]_(Log!logVars)
<1> SUFFICES ASSUME Inv, Inv', [Next]_vars PROVE [Log!Next]_(Log!logVars)
  OBVIOUS
<1>m. /\ Log!Accept <=> \E m \in (Rooms \X Entries) \ AcceptedM :
                            /\ AcceptedM' = AcceptedM \cup {m}
                            /\ KeptM' = KeptM /\ SettledM' = SettledM
      /\ Log!Keep <=> \E S \in SUBSET (AcceptedM \ KeptM) :
                            /\ KeptM' = KeptM \cup S
                            /\ AcceptedM' = AcceptedM /\ SettledM' = SettledM
      /\ Log!Settle <=> \E S \in SUBSET (KeptM \ SettledM) :
                            /\ SettledM' = SettledM \cup S
                            /\ AcceptedM' = AcceptedM /\ KeptM' = KeptM
      /\ (UNCHANGED Log!logVars) <=>
            AcceptedM' = AcceptedM /\ KeptM' = KeptM /\ SettledM' = SettledM
  BY DEF Log!Accept, Log!Keep, Log!Settle, Log!logVars, AcceptedM, KeptM, SettledM
<1>t. TypeOK /\ TypeOK'
  BY DEF Inv
<1>s. ASSUME \A r \in Rooms : \A i \in Entries : i \in Acked(r)' <=> i \in Acked(r)
      PROVE  SettledM' = SettledM
  BY <1>s DEF SettledM
<1>1. ASSUME NEW s \in Servers, Bootstrap(s) \/ Crash(s) \/ Tick(s)
      PROVE  UNCHANGED Log!logVars
  <2>1. len' = len /\ stored' = stored /\ lastDel' = lastDel /\ owner' = owner
    BY <1>1 DEF Bootstrap, Crash, Tick, redis
  <2> QED
    BY <1>m, <2>1 DEF AcceptedM, KeptM, SettledM, Acked
<1>2. ASSUME NEW s \in Servers, NEW r \in Rooms,
             RegisterStream(s, r) \/ FlushReadNothing(s, r)
      PROVE  UNCHANGED Log!logVars
  <2>1. len' = len /\ stored' = stored /\ lastDel' = lastDel /\ owner' = owner
    BY <1>2 DEF RegisterStream, FlushReadNothing, redis
  <2> QED
    BY <1>m, <2>1 DEF AcceptedM, KeptM, SettledM, Acked
<1>3. ASSUME NEW s \in Servers, NEW r \in Rooms, EnsureConsumerGroup(s, r)
      PROVE  UNCHANGED Log!logVars
  <2>1. len' = len /\ stored' = stored /\ owner' = owner
    BY <1>3 DEF EnsureConsumerGroup
  <2>2. lastDel' = lastDel
    BY <1>3, <1>t DEF EnsureConsumerGroup, GroupStart, TypeOK, Inv, CursorInv
  <2> QED
    BY <1>m, <2>1, <2>2 DEF AcceptedM, KeptM, SettledM, Acked
<1>4. ASSUME NEW s \in Servers, NEW r \in Rooms, RecoverPendingEntries(s, r)
      PROVE  UNCHANGED Log!logVars
  <2>1. PICK stale \in SUBSET FirstPending(r) :
           owner' = [owner EXCEPT ![r] =
                       [i \in Entries |-> IF i \in stale THEN s ELSE @[i]]]
    BY <1>4 DEF RecoverPendingEntries
  <2>2. \A i \in stale : owner[r][i] # NoOwner
    BY DEF FirstPending, PEL
  <2>3. \A q \in Rooms : \A i \in Entries : 
           owner'[q][i] = NoOwner <=> owner[q][i] = NoOwner
    BY <1>t, <2>1, <2>2 DEF TypeOK
  <2>4. len' = len /\ stored' = stored /\ lastDel' = lastDel
    BY <1>4 DEF RecoverPendingEntries
  <2>5. SettledM' = SettledM
    BY <1>s, <2>3, <2>4 DEF Acked
  <2> QED
    BY <1>m, <2>4, <2>5 DEF AcceptedM, KeptM
<1>5. ASSUME NEW s \in Servers, NEW r \in Rooms, FlushRead(s, r)
      PROVE  UNCHANGED Log!logVars
  <2>1. len' = len /\ stored' = stored
    BY <1>5 DEF FlushRead
  <2>2. \A q \in Rooms : \A i \in Entries : i \in Acked(q)' <=> i \in Acked(q)
    BY <1>5, <1>t, NewEntriesRange DEF FlushRead, CursorAfterRead, Acked, TypeOK, Entries
  <2> QED
    BY <1>m, <1>s, <2>1, <2>2 DEF AcceptedM, KeptM
<1>6. ASSUME NEW s \in Servers, NEW r \in Rooms, QueueMessage(s, r)
      PROVE  Log!Accept
  <2>1. stored' = stored /\ lastDel' = lastDel /\ owner' = owner
    BY <1>6 DEF QueueMessage
  <2>2. len[r] + 1 \in Entries
    BY <1>6, <1>t DEF QueueMessage, TypeOK, Entries
  <2>3. \A q \in Rooms : \A i \in Entries :
           i <= len'[q] <=> i <= len[q] \/ (q = r /\ i = len[r] + 1)
    BY <1>6, <1>t DEF QueueMessage, TypeOK, Entries
  <2>4. AcceptedM' = AcceptedM \cup {<<r, len[r] + 1>>}
    BY <2>2, <2>3 DEF AcceptedM
  <2>5. <<r, len[r] + 1>> \in (Rooms \X Entries) \ AcceptedM
    BY <1>t, <2>2 DEF AcceptedM, TypeOK
  <2> QED
    BY <1>m, <2>1, <2>4, <2>5 DEF KeptM, SettledM, Acked
<1>7. ASSUME NEW s \in Servers, NEW r \in Rooms,
             len' = len, lastDel' = lastDel, owner' = owner,
             stored' = [stored EXCEPT ![r] = @ \cup batch[s][r]]
      PROVE  Log!Keep
  <2> DEFINE S == {m \in Rooms \X Entries : m[1] = r /\ m[2] \in batch[s][r]} \ KeptM
  <2>1. \A q \in Rooms : \A i \in Entries :
           i \in stored'[q] <=> i \in stored[q] \/ (q = r /\ i \in batch[s][r])
    BY <1>7, <1>t DEF TypeOK
  <2>2. KeptM' = KeptM \cup S
    BY <2>1 DEF KeptM
  <2>3. \A i \in batch[s][r] : i <= len[r]
    BY <1>t DEF Inv, BatchInv, CursorInv, TypeOK, Entries
  <2>4. S \in SUBSET (AcceptedM \ KeptM)
    BY <2>3 DEF AcceptedM
  <2>5. AcceptedM' = AcceptedM /\ SettledM' = SettledM
    BY <1>7 DEF AcceptedM, SettledM, Acked
  <2> HIDE DEF S
  <2> QED
    BY <1>m, <2>2, <2>4, <2>5
<1>8. ASSUME NEW s \in Servers, NEW r \in Rooms, FlushAck(s, r)
      PROVE  Log!Settle
  <2> DEFINE S == {m \in Rooms \X Entries : m[1] = r /\ m[2] \in batch[s][r]} \ SettledM
  <2>1. \A q \in Rooms : \A i \in Entries :
           i \in Acked(q)' <=> i \in Acked(q) \/ (q = r /\ i \in batch[s][r])
    BY <1>8, <1>t DEF FlushAck, Acked, TypeOK, Inv, BatchInv
  <2>2. SettledM' = SettledM \cup S
    BY <2>1 DEF SettledM
  <2>3. batch[s][r] \subseteq stored[r]
    BY <1>8 DEF FlushAck, Inv, BatchInv
  <2>4. S \in SUBSET (KeptM \ SettledM)
    BY <2>3 DEF KeptM
  <2>5. AcceptedM' = AcceptedM /\ KeptM' = KeptM
    BY <1>8 DEF FlushAck, AcceptedM, KeptM
  <2> HIDE DEF S
  <2> QED
    BY <1>m, <2>2, <2>4, <2>5
<1>9. ASSUME NEW s \in Servers, NEW r \in Rooms, FlushInsert(s, r)
      PROVE  Log!Keep
  BY <1>7, <1>9 DEF FlushInsert, redis
<1>10. ASSUME NEW s \in Servers, NEW r \in Rooms, FlushFails(s, r)
       PROVE  Log!Keep \/ UNCHANGED Log!logVars
  <2>1. len' = len /\ lastDel' = lastDel /\ owner' = owner
    BY <1>10 DEF FlushFails, redis
  <2>2. CASE UNCHANGED stored
    BY <1>m, <2>1, <2>2 DEF AcceptedM, KeptM, SettledM, Acked
  <2>3. CASE stored' = [stored EXCEPT ![r] = @ \cup batch[s][r]]
    BY <1>7, <2>1, <2>3
  <2> QED
    BY <1>10, <2>2, <2>3 DEF FlushFails
<1>11. CASE UNCHANGED vars
  BY <1>m, <1>11 DEF vars, redis, AcceptedM, KeptM, SettledM, Acked
<1> QED
  BY <1>1, <1>2, <1>3, <1>4, <1>5, <1>6, <1>8, <1>9, <1>10, <1>11
     DEF Next, FlushStep, Log!Next

(* The chat's write path implements MessageLog: no row without a message, no    *)
(* row lost, no message settled without its row or taken up again.              *)
THEOREM Refinement == Spec => ImplementsMessageLog
<1>1. Init => Log!Init
  BY DEF Init, Log!Init, Acked, Entries
<1>2. Inv /\ Inv' /\ [Next]_vars => [Log!Next]_(Log!logVars)
  BY RefinementStep
<1> QED
  BY <1>1, <1>2, InitInv, InvStep, PTL DEF Spec, Log!Spec, ImplementsMessageLog

-----------------------------------------------------------------------------
(* The limits of a user *)

(* The reactions that were let through and have no entry yet *)
LimitAdding == {q \in Handlers : limiter[q] = "add"}

(* An entry takes the place of a handler that is adding; the last one let through *)
(* saw fewer entries than the limit.                                              *)
LimitWindowInv == window + Cardinality(LimitAdding) <= RL_REACT_MAX + Cardinality(Handlers) - 1

(* Each send that was let through was counted since the counter was absent *)
LimitFloodInv == sent <= flood /\ sent <= FLOOD_MAX

LimitInv == Limits!TypeOK /\ LimitWindowInv /\ LimitFloodInv

(* The cardinality that the instance knows is the one of FiniteSets *)
LEMMA LimitCountSame == \A S : Limits!Cardinality(S) = Cardinality(S)
  BY DEF Limits!Cardinality, Cardinality

(* The slots are finitely many, and those that add are among them. *)
LEMMA LimitSlotsCount ==
           /\ Cardinality(Handlers) \in Nat /\ Cardinality(Handlers) >= 1
           /\ IsFiniteSet(LimitAdding) /\ Cardinality(LimitAdding) \in Nat
           /\ Cardinality(LimitAdding) <= Cardinality(Handlers)
<1>1. LimitAdding \in SUBSET Handlers
  BY DEF LimitAdding
<1>2. Cardinality(Handlers) \in Nat /\ Cardinality(Handlers) # 0
  BY FS_CardinalityType, FS_EmptySet, ChatServiceAssumption
<1> QED
  BY <1>1, <1>2, FS_Subset, FS_CardinalityType, ChatServiceAssumption

(* One handler moves *)
LEMMA LimitGotoStep ==
    ASSUME Limits!TypeOK, NEW q \in Handlers, NEW from \in {"idle", "count", "add", "incr", "expire"},
           NEW to \in {"idle", "count", "add", "incr", "expire"}, Limits!Goto(q, from, to)
    PROVE  /\ limiter' \in [Handlers -> {"idle", "count", "add", "incr", "expire"}]
           /\ LimitAdding' = IF to = "add" THEN LimitAdding \cup {q} ELSE LimitAdding \ {q}
           /\ q \in LimitAdding <=> from = "add"
  BY DEF Limits!Goto, Limits!TypeOK, LimitAdding

(* Every step keeps the invariant. *)
LEMMA LimitInvStep == LimitInv /\ [Limits!Next]_(Limits!limitVars) => LimitInv'
<1> SUFFICES ASSUME LimitInv, [Limits!Next]_(Limits!limitVars) PROVE LimitInv'
  OBVIOUS
<1>t. Limits!TypeOK /\ LimitWindowInv /\ LimitFloodInv
  BY DEF LimitInv
<1>n. /\ Cardinality(Handlers) \in Nat /\ Cardinality(Handlers) >= 1
      /\ IsFiniteSet(LimitAdding) /\ Cardinality(LimitAdding) \in Nat
  BY LimitSlotsCount
<1>l. RL_REACT_MAX \in Nat /\ RL_REACT_MAX >= 1 /\ FLOOD_MAX \in Nat /\ MaxLimitDeaths \in Nat
  BY ChatServiceAssumption
<1>v. window \in Nat /\ flood \in Nat /\ sent \in Nat
  BY <1>t, <1>l DEF Limits!TypeOK
<1>a. ASSUME NEW q \in Handlers, q \notin LimitAdding, LimitAdding' = LimitAdding \ {q}
      PROVE  LimitAdding' = LimitAdding
  BY <1>a
<1>r. ASSUME NEW q \in Handlers, LimitAdding' = LimitAdding \ {q}
      PROVE  /\ Cardinality(LimitAdding') \in Nat
             /\ Cardinality(LimitAdding') = IF q \in LimitAdding THEN Cardinality(LimitAdding) - 1
                                       ELSE Cardinality(LimitAdding)
  BY <1>n, <1>r, FS_RemoveElement, FS_CardinalityType
<1>1. ASSUME NEW q \in Handlers, NEW check \in {"count", "incr"}, Limits!Begin(q, check) PROVE LimitInv'
  <2>1. LimitAdding' = LimitAdding
    BY <1>1, <1>t, <1>a, LimitGotoStep DEF Limits!Begin
  <2> QED
    BY <1>1, <1>t, <2>1, LimitGotoStep DEF Limits!Begin, LimitInv, Limits!TypeOK, LimitWindowInv, LimitFloodInv
<1>2. ASSUME NEW q \in Handlers, Limits!CountReactions(q) PROVE LimitInv'
  <2>1. CASE Limits!UnderLimit
    <3>1. Limits!Goto(q, "count", "add") /\ UNCHANGED <<window, flood, floodTtl, sent, limitDeaths>>
      BY <1>2, <2>1 DEF Limits!CountReactions
    <3>2. LimitAdding' \in SUBSET Handlers
      BY DEF LimitAdding
    <3>3. Cardinality(LimitAdding') \in Nat /\ Cardinality(LimitAdding') <= Cardinality(Handlers)
      BY <3>2, FS_Subset, FS_CardinalityType, ChatServiceAssumption
    <3>4. window' + Cardinality(LimitAdding') <= RL_REACT_MAX + Cardinality(Handlers) - 1
      BY <1>l, <1>n, <1>v, <2>1, <3>1, <3>3 DEF Limits!UnderLimit
    <3> QED
      BY <1>t, <3>1, <3>4, LimitGotoStep DEF LimitInv, Limits!TypeOK, LimitWindowInv, LimitFloodInv
  <2>2. CASE ~Limits!UnderLimit
    <3>1. Limits!Goto(q, "count", "idle") /\ UNCHANGED <<window, flood, floodTtl, sent, limitDeaths>>
      BY <1>2, <2>2 DEF Limits!CountReactions
    <3>2. LimitAdding' = LimitAdding
      BY <1>t, <1>a, <3>1, LimitGotoStep
    <3> QED
      BY <1>t, <3>1, <3>2, LimitGotoStep DEF LimitInv, Limits!TypeOK, LimitWindowInv, LimitFloodInv
  <2> QED
    BY <2>1, <2>2
<1>3. ASSUME NEW q \in Handlers, Limits!AddReaction(q) PROVE LimitInv'
  <2>1. LimitAdding' = LimitAdding \ {q} /\ q \in LimitAdding
    BY <1>3, <1>t, LimitGotoStep DEF Limits!AddReaction
  <2>2. Cardinality(LimitAdding') = Cardinality(LimitAdding) - 1
    BY <1>r, <2>1
  <2>3. LimitWindowInv'
    BY <1>3, <1>l, <1>n, <1>t, <1>v, <2>2 DEF Limits!AddReaction, LimitWindowInv
  <2> QED
    BY <1>3, <1>t, <1>v, <2>3, LimitGotoStep DEF Limits!AddReaction, LimitInv, Limits!TypeOK, LimitFloodInv
<1>4. ASSUME NEW q \in Handlers, Limits!CountSend(q) PROVE LimitInv'
  <2>1. \E step \in {"expire", "idle"} : Limits!Goto(q, "incr", step)
    BY <1>4 DEF Limits!CountSend
  <2>2. LimitAdding' = LimitAdding
    BY <1>t, <1>a, <2>1, LimitGotoStep
  <2>3. limiter' \in [Handlers -> {"idle", "count", "add", "incr", "expire"}]
    BY <1>t, <2>1, LimitGotoStep
  <2>4. /\ flood' = IF flood + 1 > FLOOD_MAX + 1 THEN flood ELSE flood + 1
        /\ sent' = IF flood + 1 <= FLOOD_MAX THEN sent + 1 ELSE sent
        /\ UNCHANGED <<window, floodTtl, limitDeaths>>
    BY <1>4 DEF Limits!CountSend, Limits!WithinFlood
  <2>5. LimitFloodInv' /\ flood' \in 0..(FLOOD_MAX + 1) /\ sent' \in Nat
    BY <1>l, <1>t, <1>v, <2>4 DEF LimitFloodInv, Limits!TypeOK
  <2> QED
    BY <1>t, <2>2, <2>3, <2>4, <2>5 DEF LimitInv, Limits!TypeOK, LimitWindowInv
<1>5. ASSUME NEW q \in Handlers, Limits!StartSecond(q) PROVE LimitInv'
  <2>1. LimitAdding' = LimitAdding
    BY <1>5, <1>t, <1>a, LimitGotoStep DEF Limits!StartSecond
  <2> QED
    BY <1>5, <1>t, <2>1, LimitGotoStep DEF Limits!StartSecond, LimitInv, Limits!TypeOK, LimitWindowInv, LimitFloodInv
<1>6. ASSUME NEW q \in Handlers, Limits!Die(q) PROVE LimitInv'
  <2>1. LimitAdding' = LimitAdding \ {q} /\ limiter' \in [Handlers -> {"idle", "count", "add", "incr", "expire"}]
    BY <1>6, <1>t DEF Limits!Die, Limits!Goto, Limits!TypeOK, LimitAdding
  <2>2. Cardinality(LimitAdding') \in Nat /\ Cardinality(LimitAdding') <= Cardinality(LimitAdding)
    BY <1>n, <1>r, <2>1
  <2>3. LimitWindowInv'
    BY <1>6, <1>l, <1>n, <1>t, <1>v, <2>2 DEF Limits!Die, LimitWindowInv
  <2> QED
    BY <1>6, <1>l, <1>t, <2>1, <2>3 DEF Limits!Die, LimitInv, Limits!TypeOK, LimitFloodInv
<1>7. CASE Limits!AgesOut
  <2>1. LimitAdding' = LimitAdding
    BY <1>7 DEF Limits!AgesOut, LimitAdding
  <2> QED
    BY <1>7, <1>l, <1>n, <1>t, <1>v, <2>1 DEF Limits!AgesOut, LimitInv, Limits!TypeOK, LimitWindowInv, LimitFloodInv
<1>8. CASE Limits!SecondEnds
  <2>1. LimitAdding' = LimitAdding /\ window' = window
    BY <1>8 DEF Limits!SecondEnds, LimitAdding
  <2>2. LimitWindowInv'
    BY <1>t, <2>1 DEF LimitWindowInv
  <2>3. Limits!TypeOK'
    <3>1. flood' \in 0..(FLOOD_MAX + 1) /\ limitDeaths' \in 0..MaxLimitDeaths
      BY <1>8, <1>l, <1>t DEF Limits!SecondEnds, Limits!TypeOK
    <3>2. limiter' \in [Handlers -> {"idle", "count", "add", "incr", "expire"}]
      BY <1>8, <1>t DEF Limits!SecondEnds, Limits!TypeOK
    <3>3. window' \in Nat /\ sent' \in Nat /\ floodTtl' \in BOOLEAN
      BY <1>8, <1>v DEF Limits!SecondEnds
    <3> QED
      BY <3>1, <3>2, <3>3 DEF Limits!TypeOK
  <2>4. LimitFloodInv'
    BY <1>8, <1>l DEF Limits!SecondEnds, LimitFloodInv
  <2> QED
    BY <2>2, <2>3, <2>4 DEF LimitInv
<1>9. CASE UNCHANGED Limits!limitVars
  BY <1>9, <1>t DEF Limits!limitVars, LimitInv, Limits!TypeOK, LimitWindowInv, LimitFloodInv, LimitAdding
<1> QED
  BY <1>1, <1>2, <1>3, <1>4, <1>5, <1>6, <1>7, <1>8, <1>9 DEF Limits!Next, Limits!CheckStep

(* The invariant holds at the start *)
LEMMA LimitInitInv == Limits!Init => LimitInv
<1> SUFFICES ASSUME Limits!Init PROVE LimitInv
  OBVIOUS
<1>1. LimitAdding = {}
  BY DEF Limits!Init, LimitAdding
<1>2. Limits!TypeOK
  <2>1. limiter \in [Handlers -> {"idle", "count", "add", "incr", "expire"}]
    BY DEF Limits!Init
  <2>2. floodTtl \in BOOLEAN
    BY DEF Limits!Init
  <2>3. window \in Nat /\ sent \in Nat
    BY DEF Limits!Init
  <2>4. flood \in 0..(FLOOD_MAX + 1) /\ limitDeaths \in 0..MaxLimitDeaths
    BY ChatServiceAssumption DEF Limits!Init
  <2> QED
    BY <2>1, <2>2, <2>3, <2>4 DEF Limits!TypeOK
<1>3. LimitWindowInv
  BY <1>1, LimitSlotsCount, FS_EmptySet, ChatServiceAssumption DEF Limits!Init, LimitWindowInv
<1> QED
  BY <1>2, <1>3, ChatServiceAssumption DEF Limits!Init, LimitFloodInv, LimitInv

(* The invariant says what is promised *)
LEMMA LimitInvSays == LimitInv => Limits!LimitsHold
<1> SUFFICES ASSUME LimitInv PROVE Limits!LimitsHold
  OBVIOUS
<1>1. window <= RL_REACT_MAX + Cardinality(Handlers) - 1
  BY LimitSlotsCount, ChatServiceAssumption DEF LimitInv, LimitWindowInv, Limits!TypeOK
<1> QED
  BY <1>1, LimitCountSame DEF LimitInv, LimitFloodInv, Limits!LimitsHold, Limits!LimitOvershootBounded, Limits!SendsPaced

(* However the handlers of a user overlap, and wherever their processes die, no more    *)
(* sends pass than FLOOD_MAX between two expiries of the counter, and reactions pass     *)
(* theirs by fewer than run at once.                                                     *)
THEOREM LimitsAreKept == Limits!Init /\ [][Limits!Next]_(Limits!limitVars) => []LimitsHold
<1>1. LimitInv => LimitsHold
  BY LimitInvSays DEF LimitsHold
<1> QED
  BY <1>1, LimitInitInv, LimitInvStep, PTL

(* The write path and the limits together: each follows its own specification. *)
THEOREM ServiceIsSafe == ServiceSpec => [](TypeOK /\ AckedIsStored /\ ExclusiveDelivery /\ LimitsHold)
<1>1. ServiceInit => Init /\ Limits!Init
  BY DEF ServiceInit
<1>2. [ServiceNext]_service => [Next]_vars /\ [Limits!Next]_(Limits!limitVars)
  <2> SUFFICES ASSUME [ServiceNext]_service
               PROVE  [Next]_vars /\ [Limits!Next]_(Limits!limitVars)
    OBVIOUS
  <2>1. (Next \/ UNCHANGED vars) /\ (Limits!Next \/ UNCHANGED limits)
    BY DEF ServiceNext, service
  <2> QED
    BY <2>1 DEF limits, Limits!limitVars
<1>3. ServiceSpec => Spec /\ Limits!Init /\ [][Limits!Next]_(Limits!limitVars)
  BY <1>1, <1>2, PTL DEF ServiceSpec, Spec
<1> QED
  BY <1>3, TypeCorrect, AcknowledgedHaveRows, HandedOutOnce, LimitsAreKept, PTL
=============================================================================
