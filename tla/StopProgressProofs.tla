------------------------- MODULE StopProgressProofs -------------------------
(***************************************************************************)
(* StopProgress, for any number of stops and of concurrent completions:    *)
(* types, that a next stop is always offered, and that only completions    *)
(* that overlap take a completed stop back.                                *)
(***************************************************************************)
EXTENDS StopProgress, TLAPS

(* Seeding writes all rows or none *)
SeededTogether == \A s, t \in Stops : row[s] = "none" => row[t] = "none"

(* A completion past its seeding finds all the rows *)
PastSeed ==
    \A q \in Reqs : req[q].pc \notin {"idle", "begin", "seed"}
                       => \A s \in Stops : row[s] # "none"

(* What a completion has picked: another stop than its own, and when it found  *)
(* none, no other stop is pending any more, as no stop becomes pending again.  *)
(* One that does not set the status has seen its stop completed.               *)
Picked ==
    \A q \in Reqs :
        /\ req[q].next # req[q].stop
        /\ req[q].next # 0 => req[q].pc \in {"advance", "commit"}
        /\ req[q].pc = "advance" => req[q].next # 0
        /\ req[q].pc = "commit" /\ req[q].next = 0
             => \A s \in Stops : row[s] = "pending" => s = req[q].stop
        /\ req[q].pc \in {"save", "pick", "advance", "commit"} /\ ~req[q].marks
             => row[req[q].stop] # "pending"

(* A completion that runs on its own: nobody else runs, and the stop it has    *)
(* picked is still pending.                                                    *)
OnItsOwn ==
    \A q \in Reqs : req[q].alone /\ req[q].pc # "idle" =>
        /\ \A o \in Reqs : o # q => req[o].pc = "idle"
        /\ req[q].next # 0 => row[req[q].next] = "pending"

IInv ==
    /\ TypeOK
    /\ SeededTogether
    /\ PastSeed
    /\ Picked
    /\ OnItsOwn
    /\ NextStopOffered

USE DEF Stops, At

(* Seeding keeps every row that is there *)
LEMMA SeededType ==
    ASSUME TypeOK, SeededTogether
    PROVE  /\ Seeded \in [Stops -> {"pending", "current", "completed"}]
           /\ \A s \in Stops : row[s] # "none" => Seeded[s] = row[s]
           /\ (\A s \in Stops : row[s] # "none") \/ Seeded[1] = "current"
  BY StopAssumption DEF TypeOK, SeededTogether, Seeded

LEMMA IdleRequest ==
    /\ Idle \in Request
    /\ Idle.pc = "idle" /\ Idle.next = 0 /\ Idle.stop = 1
  BY StopAssumption DEF Idle, Request

(* What a step leaves in the request that takes it, and that the others keep  *)
LEMMA GotoFields ==
    ASSUME TypeOK, NEW q \in Reqs,
           NEW c \in {"seed", "find", "locate", "reload", "pick", "commit"},
           req' = [req EXCEPT ![q].pc = c]
    PROVE  /\ req' \in [Reqs -> Request]
           /\ req'[q].pc = c
           /\ req'[q].stop = req[q].stop
           /\ req'[q].marks = req[q].marks
           /\ req'[q].next = req[q].next
           /\ req'[q].alone = req[q].alone
           /\ \A p \in Reqs : p # q => req'[p] = req[p]
  <1>1. req \in [Reqs -> Request] BY DEF TypeOK
  <1>2. [req[q] EXCEPT !.pc = c] \in Request BY <1>1 DEF Request
  <1>3. req' = [p \in Reqs |-> IF p = q THEN [req[q] EXCEPT !.pc = c] ELSE req[p]]
    BY <1>1
  <1>4. req' \in [Reqs -> Request] BY <1>1, <1>2, <1>3
  <1>5. \A p \in Reqs : p # q => req'[p] = req[p] BY <1>3
  <1>6. req'[q] = [req[q] EXCEPT !.pc = c] BY <1>3
  <1>7. req[q] \in Request BY <1>1
  <1>8. /\ req'[q].pc = c /\ req'[q].stop = req[q].stop /\ req'[q].next = req[q].next
        /\ req'[q].marks = req[q].marks /\ req'[q].alone = req[q].alone
    BY <1>6, <1>7 DEF Request
  <1> QED BY <1>4, <1>5, <1>8

LEMMA EndsFields ==
    ASSUME TypeOK, NEW q \in Reqs, req' = [req EXCEPT ![q] = Idle]
    PROVE  /\ req' \in [Reqs -> Request]
           /\ req'[q].pc = "idle" /\ req'[q].next = 0 /\ req'[q].stop = 1
           /\ \A p \in Reqs : p # q => req'[p] = req[p]
  <1>1. req \in [Reqs -> Request] BY DEF TypeOK
  <1>2. req' = [p \in Reqs |-> IF p = q THEN Idle ELSE req[p]] BY <1>1
  <1> QED BY <1>1, <1>2, IdleRequest

LEMMA InitIInv == Init => IInv
  BY StopAssumption
  DEF Init, IInv, TypeOK, Idle, Request, SeededTogether, PastSeed, Picked, OnItsOwn,
      NextStopOffered

(* What EnsureRowsExist and the seeding step of markComplete do to the rows *)
LEMMA SeedRows ==
    ASSUME IInv, row' = Seeded
    PROVE  /\ row' \in [Stops -> {"pending", "current", "completed"}]
           /\ NextStopOffered'
           /\ SeededTogether'
           /\ \A s \in Stops : row[s] # "none" => row'[s] = row[s]
  <1>1. \A s \in Stops : row[s] # "none" => row'[s] = row[s]
    BY SeededType DEF IInv
  <1>2. row' \in [Stops -> {"pending", "current", "completed"}]
    BY SeededType DEF IInv
  <1>3. NextStopOffered'
    <2>1. CASE \A s \in Stops : row[s] # "none"
      BY <2>1, <1>1 DEF IInv, NextStopOffered
    <2>2. CASE ~ \A s \in Stops : row[s] # "none"
      BY <2>2, SeededType, StopAssumption DEF IInv, NextStopOffered
    <2> QED BY <2>1, <2>2
  <1> QED BY <1>1, <1>2, <1>3 DEF SeededTogether

LEMMA NextIInv == IInv /\ [Next]_vars => IInv'
  <1> SUFFICES ASSUME IInv, [Next]_vars PROVE IInv'
    OBVIOUS
  <1> USE DEF IInv
  <1>1. CASE EnsureRowsExist
    <2>1. UNCHANGED <<lock, req>> BY <1>1 DEF EnsureRowsExist
    <2>2. row' = Seeded BY <1>1 DEF EnsureRowsExist
    <2>3. TypeOK' BY <2>1, <2>2, SeedRows DEF TypeOK
    <2>4. PastSeed' BY <2>1, <2>2, SeedRows DEF PastSeed
    <2>5. Picked' /\ OnItsOwn'
      BY <2>1, <2>2, SeedRows DEF Picked, OnItsOwn, PastSeed, TypeOK, Request
    <2> QED BY <2>3, <2>4, <2>5, <2>2, SeedRows
  <1>2. ASSUME NEW q \in Reqs, NEW s \in Stops, Begin(q, s) PROVE IInv'
    <2>1. req' = [p \in Reqs |->
                   IF p = q THEN [Idle EXCEPT !.pc = "begin", !.stop = s,
                                    !.alone = \A o \in Reqs \ {q} : At(o, "idle")]
                   ELSE IF At(p, "idle") THEN Idle ELSE [req[p] EXCEPT !.alone = FALSE]]
      BY <1>2 DEF Begin
    <2>2. UNCHANGED <<row, lock>> BY <1>2 DEF Begin
    <2> DEFINE others == \A o \in Reqs \ {q} : At(o, "idle")
    <2>3. /\ req'[q] \in Request /\ req'[q].pc = "begin" /\ req'[q].next = 0
          /\ req'[q].stop = s /\ req'[q].alone = others
      <3>1. others \in BOOLEAN OBVIOUS
      <3> HIDE DEF others
      <3>2. req'[q] = [Idle EXCEPT !.pc = "begin", !.stop = s, !.alone = others]
        BY <2>1 DEF others
      <3>3. req'[q] = [pc |-> "begin", stop |-> s, marks |-> FALSE, next |-> 0,
                       alone |-> others]
        BY <3>2 DEF Idle
      <3>4. s \in Stops /\ 0 \in 0..N BY StopAssumption
      <3>5. req'[q] \in Request BY <3>1, <3>3, <3>4 DEF Request
      <3> QED BY <3>3, <3>5
    <2>4. ASSUME NEW p \in Reqs, p # q
          PROVE  /\ req'[p] \in Request
                 /\ \/ req'[p] = Idle /\ req[p].pc = "idle"
                    \/ /\ req[p].pc # "idle" /\ req'[p].pc = req[p].pc
                       /\ req'[p].next = req[p].next /\ req'[p].stop = req[p].stop
                       /\ req'[p].marks = req[p].marks /\ ~req'[p].alone
      <3>1. req[p] \in Request BY DEF TypeOK
      <3>2. CASE req[p].pc = "idle"
        <4>1. req'[p] = Idle BY <3>2, <2>1, <2>4
        <4> QED BY <4>1, <3>2, IdleRequest
      <3>3. CASE req[p].pc # "idle"
        <4>1. req'[p] = [req[p] EXCEPT !.alone = FALSE] BY <3>3, <2>1, <2>4
        <4> QED BY <4>1, <3>1, <3>3 DEF Request
      <3> QED BY <3>2, <3>3
    <2>5. TypeOK'
      <3>1. \A p \in Reqs : req'[p] \in Request BY <2>3, <2>4
      <3>2. DOMAIN req' = Reqs /\ req' = [p \in Reqs |-> req'[p]] BY <2>1
      <3>3. req' \in [Reqs -> Request] BY <3>1, <3>2
      <3> QED BY <3>3, <2>2 DEF TypeOK
    <2>6. SeededTogether' /\ NextStopOffered'
      BY <2>2 DEF SeededTogether, NextStopOffered
    <2>7. \A p \in Reqs : p # q =>
             /\ req'[p].pc = req[p].pc
             /\ req'[p].pc # "idle" => /\ req'[p].next = req[p].next
                                       /\ req'[p].stop = req[p].stop
                                       /\ req'[p].marks = req[p].marks
                                       /\ ~req'[p].alone
             /\ req'[p].pc = "idle" => req'[p] = Idle
      BY <2>4, IdleRequest
    <2>8. PastSeed' BY <2>2, <2>3, <2>7 DEF PastSeed
    <2>9. Picked' BY <2>2, <2>3, <2>7, IdleRequest DEF Picked
    <2>10. OnItsOwn' BY <2>2, <2>3, <2>7, ZenonT(60) DEF OnItsOwn
    <2> QED BY <2>5, <2>6, <2>8, <2>9, <2>10
  <1>3. ASSUME NEW q \in Reqs, Seed(q) PROVE IInv'
    <2>1. req' = [req EXCEPT ![q].pc = "find"] /\ req[q].pc = "seed" /\ UNCHANGED lock
      BY <1>3 DEF Seed, Goto
    <2>2. row' = Seeded BY <1>3 DEF Seed
    <2>3. TypeOK'
      <3>1. req' \in [Reqs -> Request] BY <2>1, GotoFields
      <3> QED BY <3>1, <2>1, <2>2, SeedRows DEF TypeOK
    <2>4. PastSeed'
      BY <2>1, <2>2, SeedRows, GotoFields DEF PastSeed, TypeOK, NextStopOffered
    <2>5. Picked'
      BY <2>1, <2>2, SeedRows DEF Picked, PastSeed, TypeOK, Request
    <2>6. OnItsOwn'
      BY <2>1, <2>2, SeedRows DEF OnItsOwn, Picked, PastSeed, TypeOK, Request
    <2> QED BY <2>3, <2>4, <2>5, <2>6, <2>2, SeedRows
  <1>4. ASSUME NEW q \in Reqs,
               \/ OpenTransaction(q) \/ FindProgress(q) \/ SetLocation(q)
               \/ SaveCompleted(q) \/ AdvanceNext(q) \/ Abort(q)
        PROVE IInv'
    <2>1. UNCHANGED row
      BY <1>4
      DEF OpenTransaction, FindProgress, SetLocation, SaveCompleted, AdvanceNext, Abort
    <2>2. lock' \in [Stops -> Reqs \cup {None}]
      BY <1>4
      DEF OpenTransaction, FindProgress, SetLocation, SaveCompleted, AdvanceNext, Abort,
          Unlock, TypeOK, Request
    <2>3. SeededTogether' /\ NextStopOffered'
      BY <2>1 DEF SeededTogether, NextStopOffered
    <2>4. \/ req' = [req EXCEPT ![q] = Idle]
          \/ \E c \in {"seed", "locate", "reload", "pick", "commit"} :
                /\ req' = [req EXCEPT ![q].pc = c]
                /\ c = "seed" => req[q].pc = "begin"
                /\ c \in {"locate", "reload"} => req[q].pc \in {"find", "locate"}
                /\ c = "pick" => req[q].pc = "save"
                /\ c = "commit" => req[q].pc = "advance"
      BY <1>4
      DEF OpenTransaction, FindProgress, SetLocation, SaveCompleted, AdvanceNext, Abort,
          Goto, Ends
    <2>5. CASE req' = [req EXCEPT ![q] = Idle]
      <3>1. TypeOK' BY <2>1, <2>2, <2>5, EndsFields DEF TypeOK
      <3>2. PastSeed' BY <2>1, <2>5, EndsFields DEF PastSeed
      <3>3. Picked'
        <4> SUFFICES ASSUME NEW p \in Reqs
                     PROVE  /\ req'[p].next # req'[p].stop
                            /\ req'[p].next # 0 => req'[p].pc \in {"advance", "commit"}
                            /\ req'[p].pc = "advance" => req'[p].next # 0
                            /\ req'[p].pc = "commit" /\ req'[p].next = 0
                                 => \A s \in Stops : row'[s] = "pending" => s = req'[p].stop
                            /\ req'[p].pc \in {"save", "pick", "advance", "commit"}
                                 /\ ~req'[p].marks => row'[req'[p].stop] # "pending"
          BY DEF Picked
        <4>1. CASE p = q
          <5>1. /\ req'[q].pc = "idle" /\ req'[q].next = 0 /\ req'[q].stop = 1
            BY <2>5, EndsFields
          <5> QED BY <4>1, <5>1
        <4>2. CASE p # q
          <5>1. req'[p] = req[p] BY <4>2, <2>5, EndsFields
          <5> QED BY <5>1, <2>1 DEF Picked
        <4> QED BY <4>1, <4>2
      <3>4. OnItsOwn'
        <4> SUFFICES ASSUME NEW p \in Reqs, req'[p].alone, req'[p].pc # "idle"
                     PROVE  /\ \A o \in Reqs : o # p => req'[o].pc = "idle"
                            /\ req'[p].next # 0 => row'[req'[p].next] = "pending"
          BY DEF OnItsOwn
        <4>1. p # q /\ req'[p] = req[p] BY <2>1, <2>5, EndsFields
        <4>2. ASSUME NEW o \in Reqs, o # p PROVE req'[o].pc = "idle"
          <5>1. CASE o = q BY <2>5, <5>1, EndsFields
          <5>2. CASE o # q
            <6>1. req'[o] = req[o] BY <2>1, <2>5, <5>2, EndsFields
            <6> QED BY <2>1, <4>1, <4>2, <6>1 DEF OnItsOwn
          <5> QED BY <5>1, <5>2
        <4>3. req'[p].next # 0 => row'[req'[p].next] = "pending"
          BY <2>1, <4>1 DEF OnItsOwn
        <4> QED BY <4>2, <4>3
      <3> QED BY <2>3, <3>1, <3>2, <3>3, <3>4
    <2>6. ASSUME NEW c \in {"seed", "locate", "reload", "pick", "commit"},
                 req' = [req EXCEPT ![q].pc = c],
                 c = "seed" => req[q].pc = "begin",
                 c \in {"locate", "reload"} => req[q].pc \in {"find", "locate"},
                 c = "pick" => req[q].pc = "save",
                 c = "commit" => req[q].pc = "advance"
          PROVE  IInv'
      <3>1. TypeOK' BY <2>1, <2>2, <2>6, GotoFields DEF TypeOK
      <3>2. PastSeed' BY <2>1, <2>6, GotoFields DEF PastSeed
      <3>3. Picked' BY <2>1, <2>6, GotoFields DEF Picked
      <3>4. OnItsOwn' BY <2>1, <2>6, GotoFields DEF OnItsOwn
      <3> QED BY <2>3, <3>1, <3>2, <3>3, <3>4
    <2> QED BY <2>4, <2>5, <2>6
  <1>5. ASSUME NEW q \in Reqs, PickNext(q) PROVE IInv'
    <2>1. UNCHANGED <<row, lock>> /\ req[q].pc = "pick" BY <1>5 DEF PickNext
    <2>2. SeededTogether' /\ NextStopOffered'
      BY <2>1 DEF SeededTogether, NextStopOffered
    <2>3. CASE PendingFor(q) = {} /\ req' = [req EXCEPT ![q].pc = "commit"]
      <3>1. TypeOK' BY <2>1, <2>3, GotoFields DEF TypeOK
      <3>2. PastSeed' BY <2>1, <2>3, GotoFields DEF PastSeed
      <3>3. Picked' BY <2>1, <2>3, GotoFields DEF Picked, PendingFor
      <3>4. OnItsOwn' BY <2>1, <2>3, GotoFields DEF OnItsOwn
      <3> QED BY <2>2, <3>1, <3>2, <3>3, <3>4
    <2>4. ASSUME NEW s \in PendingFor(q),
                 req' = [req EXCEPT ![q].next = s, ![q].pc = "advance"]
          PROVE  IInv'
      <3>1. s \in Stops /\ row[s] = "pending" /\ s # req[q].stop /\ s # 0
        BY <2>4, StopAssumption DEF PendingFor
      <3>2. req \in [Reqs -> Request] /\ req[q] \in Request BY DEF TypeOK
      <3>3. req' = [p \in Reqs |-> IF p = q
                                   THEN [req[q] EXCEPT !.next = s, !.pc = "advance"]
                                   ELSE req[p]]
        BY <2>4, <3>2
      <3>4. req'[q] = [req[q] EXCEPT !.next = s, !.pc = "advance"] BY <3>3
      <3>5. /\ req'[q] \in Request
            /\ req'[q].pc = "advance" /\ req'[q].next = s
            /\ req'[q].stop = req[q].stop /\ req'[q].alone = req[q].alone
            /\ req'[q].marks = req[q].marks
        <4>1. s \in 0..N BY <3>1
        <4>2. req[q] = [pc |-> req[q].pc, stop |-> req[q].stop, marks |-> req[q].marks,
                        next |-> req[q].next, alone |-> req[q].alone]
          BY <3>2 DEF Request
        <4>3. req'[q] = [pc |-> "advance", stop |-> req[q].stop, marks |-> req[q].marks,
                         next |-> s, alone |-> req[q].alone]
          BY <3>4, <4>2
        <4>4. req'[q] \in Request BY <4>1, <4>3, <3>2 DEF Request
        <4> QED BY <4>3, <4>4
      <3>6. \A p \in Reqs : p # q => req'[p] = req[p] BY <3>3
      <3>7. TypeOK'
        <4>1. req' \in [Reqs -> Request] BY <3>2, <3>3, <3>5, <3>4
        <4> QED BY <4>1, <2>1 DEF TypeOK
      <3>8. PastSeed' BY <2>1, <3>5, <3>6 DEF PastSeed
      <3>9. Picked' BY <2>1, <3>1, <3>5, <3>6 DEF Picked
      <3>10. OnItsOwn' BY <2>1, <3>1, <3>5, <3>6 DEF OnItsOwn
      <3> QED BY <2>2, <3>7, <3>8, <3>9, <3>10
    <2> QED BY <1>5, <2>3, <2>4 DEF PickNext, Goto
  <1>6. ASSUME NEW q \in Reqs, Commit(q) PROVE IInv'
    <2>1. req' = [req EXCEPT ![q] = Idle] /\ req[q].pc = "commit"
      BY <1>6 DEF Commit, Ends
    <2>2. row' = [s \in Stops |-> IF s = req[q].stop /\ req[q].marks THEN "completed"
                                    ELSE IF s = req[q].next THEN "current" ELSE row[s]]
      BY <1>6 DEF Commit
    <2>3. /\ \A s \in Stops : s = req[q].stop /\ req[q].marks => row'[s] = "completed"
          /\ \A s \in Stops : s = req[q].next => row'[s] = "current"
          /\ \A s \in Stops : s = req[q].stop /\ ~req[q].marks => row'[s] = row[s]
          /\ \A s \in Stops : s # req[q].stop /\ s # req[q].next => row'[s] = row[s]
      <3>1. req[q].next # req[q].stop BY DEF Picked
      <3> QED BY <2>2, <3>1
    <2>4. \A s \in Stops : row[s] # "none" /\ row'[s] # "none"
      BY <2>1, <2>3 DEF PastSeed
    <2>5. TypeOK'
      <3>1. lock' \in [Stops -> Reqs \cup {None}]
        BY <1>6 DEF Commit, Unlock, TypeOK
      <3>2. row' \in [Stops -> {"none", "pending", "current", "completed"}]
        BY <2>2 DEF TypeOK
      <3> QED BY <3>1, <3>2, <2>1, EndsFields DEF TypeOK
    <2>6. SeededTogether' /\ PastSeed' BY <2>4 DEF SeededTogether, PastSeed
    <2>7. Picked'
      <3> SUFFICES ASSUME NEW p \in Reqs
                   PROVE  /\ req'[p].next # req'[p].stop
                          /\ req'[p].next # 0 => req'[p].pc \in {"advance", "commit"}
                          /\ req'[p].pc = "advance" => req'[p].next # 0
                          /\ req'[p].pc = "commit" /\ req'[p].next = 0
                               => \A s \in Stops : row'[s] = "pending" => s = req'[p].stop
                          /\ req'[p].pc \in {"save", "pick", "advance", "commit"}
                               /\ ~req'[p].marks => row'[req'[p].stop] # "pending"
        BY DEF Picked
      <3>1. CASE p = q
        <4>1. /\ req'[q].pc = "idle" /\ req'[q].next = 0 /\ req'[q].stop = 1
          BY <2>1, EndsFields
        <4> QED BY <3>1, <4>1
      <3>2. CASE p # q
        <4>1. req'[p] = req[p] BY <3>2, <2>1, EndsFields
        <4>2. \A s \in Stops : row'[s] = "pending" => row[s] = "pending"
          <5>1. ASSUME NEW s \in Stops, row'[s] = "pending" PROVE row[s] = "pending"
            <6>1. CASE s = req[q].stop BY <5>1, <6>1, <2>3
            <6>2. CASE s # req[q].stop BY <5>1, <6>2, <2>3
            <6> QED BY <6>1, <6>2
          <5> QED BY <5>1
        <4>3. req[p].stop \in Stops BY DEF TypeOK, Request
        <4> QED BY <4>1, <4>2, <4>3 DEF Picked
      <3> QED BY <3>1, <3>2
    <2>8. OnItsOwn' BY <2>1, EndsFields DEF OnItsOwn
    <2>9. req[q].stop \in Stops /\ req[q].next \in 0..N BY DEF TypeOK, Request
    <2>10. NextStopOffered'
      <3>1. CASE req[q].next = 0
        <4>1. \A s \in Stops : s # req[q].stop
                => row'[s] = row[s] /\ row[s] \in {"current", "completed"}
          BY <3>1, <2>1, <2>3, <2>4, StopAssumption DEF Picked, TypeOK
        <4>2. row'[req[q].stop] \in {"current", "completed"}
          BY <2>1, <2>3, <2>4, <2>9 DEF Picked, TypeOK
        <4> QED BY <4>1, <4>2, <2>9 DEF NextStopOffered
      <3>2. CASE req[q].next # 0
        BY <3>2, <2>3, <2>9, StopAssumption DEF NextStopOffered, Picked
      <3> QED BY <3>1, <3>2
    <2> QED BY <2>5, <2>6, <2>7, <2>8, <2>10
  <1>7. ASSUME NEW q \in Reqs, ReloadProgress(q) PROVE IInv'
    <2> DEFINE m == (row[req[q].stop] # "completed")
    <2>1. UNCHANGED <<row, lock>> /\ req[q].pc = "reload" BY <1>7 DEF ReloadProgress
    <2>2. req' = [req EXCEPT ![q].marks = m, ![q].pc = "save"]
      BY <1>7 DEF ReloadProgress
    <2>3. m \in BOOLEAN /\ (~m => row[req[q].stop] # "pending") OBVIOUS
    <2> HIDE DEF m
    <2>4. req \in [Reqs -> Request] /\ req[q] \in Request BY DEF TypeOK
    <2>5. req' = [p \in Reqs |-> IF p = q THEN [req[q] EXCEPT !.marks = m, !.pc = "save"]
                                 ELSE req[p]]
      BY <2>2, <2>4
    <2>6. /\ req'[q] \in Request
          /\ req'[q].pc = "save" /\ req'[q].marks = m
          /\ req'[q].stop = req[q].stop /\ req'[q].next = req[q].next
          /\ req'[q].alone = req[q].alone
      <3>1. req[q] = [pc |-> req[q].pc, stop |-> req[q].stop, marks |-> req[q].marks,
                      next |-> req[q].next, alone |-> req[q].alone]
        BY <2>4 DEF Request
      <3>2. req'[q] = [req[q] EXCEPT !.marks = m, !.pc = "save"] BY <2>5
      <3>3. req'[q] = [pc |-> "save", stop |-> req[q].stop, marks |-> m,
                       next |-> req[q].next, alone |-> req[q].alone]
        BY <3>1, <3>2
      <3>4. req'[q] \in Request BY <3>3, <2>3, <2>4 DEF Request
      <3> QED BY <3>3, <3>4
    <2>7. \A p \in Reqs : p # q => req'[p] = req[p] BY <2>5
    <2>8. TypeOK'
      <3>1. \A p \in Reqs : req'[p] \in Request BY <2>4, <2>6, <2>7
      <3>2. req' \in [Reqs -> Request] BY <3>1, <2>5
      <3> QED BY <3>2, <2>1 DEF TypeOK
    <2>9. SeededTogether' /\ NextStopOffered'
      BY <2>1 DEF SeededTogether, NextStopOffered
    <2>10. PastSeed' BY <2>1, <2>6, <2>7 DEF PastSeed
    <2>11. Picked' BY <2>1, <2>3, <2>6, <2>7 DEF Picked
    <2>12. OnItsOwn' BY <2>1, <2>6, <2>7 DEF OnItsOwn
    <2> QED BY <2>8, <2>9, <2>10, <2>11, <2>12
  <1>8. CASE UNCHANGED vars
    BY <1>8
    DEF vars, TypeOK, SeededTogether, PastSeed, Picked, OnItsOwn, NextStopOffered
  <1> QED
    BY <1>1, <1>2, <1>3, <1>4, <1>5, <1>6, <1>7, <1>8 DEF Next, HandlerStep

(* The rows, locks and requests keep their types, for any number of stops and  *)
(* of completions at once.                                                     *)
THEOREM TypeCorrect == Spec => []TypeOK
  <1>1. IInv => TypeOK BY DEF IInv
  <1> QED BY <1>1, InitIInv, NextIInv, PTL DEF Spec

(* While a user has stops left one of them is current, for any number of stops *)
(* and of completions that overlap, are rolled back or come in any order.      *)
THEOREM Offered == Spec => []NextStopOffered
  <1>1. IInv => NextStopOffered BY DEF IInv
  <1> QED BY <1>1, InitIInv, NextIInv, PTL DEF Spec

(* A completed stop is taken back by overlapping completions only *)
THEOREM UndoneByRace == Spec => UndoneOnlyByRace
  <1>1. IInv /\ [Next]_vars
          => [(\E s \in Stops : row[s] = "completed" /\ row'[s] # "completed")
                => \E q \in Reqs : ~req[q].alone]_vars
    <2> SUFFICES ASSUME IInv, Next,
                        NEW s \in Stops, row[s] = "completed", row'[s] # "completed"
                 PROVE  \E q \in Reqs : ~req[q].alone
      OBVIOUS
    <2>1. row' # Seeded
      BY SeededType DEF IInv
    <2>2. PICK q \in Reqs : Commit(q)
      BY <2>1
      DEF Next, EnsureRowsExist, Begin, HandlerStep, OpenTransaction, Seed, FindProgress,
          SetLocation, ReloadProgress, SaveCompleted, PickNext, AdvanceNext, Abort
    <2>3. s = req[q].next /\ req[q].pc = "commit"
      BY <2>2 DEF Commit
    <2>4. s # 0 BY StopAssumption
    <2> QED BY <2>3, <2>4 DEF IInv, OnItsOwn
  <1> QED BY <1>1, InitIInv, NextIInv, PTL DEF Spec, UndoneOnlyByRace
=============================================================================
