---------------------------- MODULE ChatReactions ----------------------------
(***************************************************************************)
(* chat:react on one message with one emoji.  The rows of                  *)
(* message_reactions for this emoji are the set of users who have one      *)
(* (uq_message_reactions_user_emoji); the message never changes its room   *)
(* and no code deletes it.  The rate limit that comes first is ChatLimits, *)
(* the access check before the toggle RoomAccess.                          *)
(***************************************************************************)
EXTENDS Integers, FiniteSets

CONSTANTS
    Users,      \* who reacts
    Reqs,       \* the slots in which handlers run at once
    MaxDeaths   \* bound: handlers that die with their process

VARIABLES
    stored,     \* the message has its row in chat_messages
    cached,     \* chat:msg:room has the room of the message
    rows,       \* the users with a reaction row
    told,       \* the reactions the members on one server were told last
    handler,    \* handler[q]: the handler in slot q
    odd,        \* (history) the users who have toggled an odd number of times
    contended,  \* (history) the users two of whose toggles found the reaction there at once
    outdated,   \* (history) the last broadcast was overtaken, or one was not sent
    deaths      \* handlers that have died

reactionVars == <<stored, cached, rows, told, handler, odd, contended, outdated, deaths>>

(* overtaken (history): rows has changed since the handler loaded it *)
NoHandler == [u |-> CHOOSE u \in Users : TRUE, pc |-> "idle", loaded |-> {}, overtaken |-> FALSE]

Init ==
    /\ stored = FALSE
    /\ cached = FALSE
    /\ rows = {}
    /\ told = {}
    /\ handler = [q \in Reqs |-> NoHandler]
    /\ odd = {}
    /\ contended = {}
    /\ outdated = FALSE
    /\ deaths = 0

-----------------------------------------------------------------------------
At(q, step) == handler[q].pc = step
Goto(q, step) == handler' = [handler EXCEPT ![q].pc = step]
Ends(q) == handler' = [handler EXCEPT ![q] = NoHandler]
toggle == <<rows, told, odd, contended, outdated>>

(* The flush worker inserts the message, see ChatFlush *)
Flush ==
    /\ ~stored
    /\ stored' = TRUE
    /\ UNCHANGED <<cached, handler, toggle, deaths>>

(* handleReact, past the rate limit *)
Begin(q, u) ==
    /\ At(q, "idle")
    /\ handler' = [handler EXCEPT ![q] = [NoHandler EXCEPT !.u = u, !.pc = "room"]]
    /\ UNCHANGED <<stored, cached, toggle, deaths>>

-----------------------------------------------------------------------------
(* getMessageRoom, from the cache or from Postgres: a message that is only in the *)
(* stream is not found                                                            *)
FindRoom(q) ==
    /\ At(q, "room")
    /\ \/ cached /\ Goto(q, "access")
       \/ ~cached /\ stored /\ Goto(q, "cache")
       \/ ~cached /\ ~stored /\ Ends(q)
    /\ UNCHANGED <<stored, cached, toggle, deaths>>

CacheRoom(q) ==
    /\ At(q, "cache")
    /\ cached' = TRUE
    /\ Goto(q, "access")
    /\ UNCHANGED <<stored, toggle, deaths>>

(* The key chat:msg:room expires after an hour *)
RoomExpires ==
    /\ cached
    /\ cached' = FALSE
    /\ UNCHANGED <<stored, handler, toggle, deaths>>

(* checkRoomAccess grants or refuses; toggleReaction's getMessageRoom finds what the *)
(* first one found                                                                   *)
CheckAccess(q, granted) ==
    /\ At(q, "access")
    /\ IF granted THEN Goto(q, "insert") ELSE Ends(q)
    /\ UNCHANGED <<stored, cached, toggle, deaths>>

-----------------------------------------------------------------------------
(* toggleReaction *)

(* The handlers after handler q, now at step, has written the rows *)
AfterWrite(q, step) ==
    handler' = [p \in Reqs |->
        IF p = q THEN [handler[p] EXCEPT !.pc = step]
        ELSE [handler[p] EXCEPT !.overtaken = @ \/ At(p, "emit")]]

(* A toggle of u is done *)
Counts(u) == odd' = IF u \in odd THEN odd \ {u} ELSE odd \cup {u}

(* INSERT ... ON CONFLICT DO NOTHING RETURNING id *)
InsertReaction(q) ==
    LET u == handler[q].u IN
    /\ At(q, "insert")
    /\ IF u \in rows
         THEN Goto(q, "delete") /\ UNCHANGED <<rows, odd>>
         ELSE /\ rows' = rows \cup {u}
              /\ Counts(u)
              /\ AfterWrite(q, "load")
    /\ UNCHANGED <<stored, cached, told, contended, outdated, deaths>>

(* Mutant: the DELETE forgets whose reaction it is *)
DeletesAll(u) == {}

(* What the DELETE leaves *)
DeletesOwn(u) == rows \ {u}

DeleteReaction(q) ==
    LET u == handler[q].u IN
    /\ At(q, "delete")
    /\ rows' = DeletesOwn(u)
    /\ Counts(u)
    /\ contended' = IF \E p \in Reqs \ {q} : At(p, "delete") /\ handler[p].u = u
                    THEN contended \cup {u} ELSE contended
    /\ AfterWrite(q, "load")
    /\ UNCHANGED <<stored, cached, told, outdated, deaths>>

(* Mutant: the answer has the reaction of the caller in any case *)
OptimisticReactions(u) == rows \cup {u}

(* groupReactions of all the rows of the message *)
AllReactions(u) == rows

LoadReactions(q) ==
    /\ At(q, "load")
    /\ handler' = [handler EXCEPT ![q].pc = "emit", ![q].loaded = AllReactions(handler[q].u)]
    /\ UNCHANGED <<stored, cached, toggle, deaths>>

(* chat:reaction_update reaches the members on one server, through the Redis adapter *)
(* and later when the handler runs on another: until then its slot stays taken       *)
Broadcast(q) ==
    /\ At(q, "emit")
    /\ told' = handler[q].loaded
    /\ outdated' = handler[q].overtaken
    /\ Ends(q)
    /\ UNCHANGED <<stored, cached, rows, odd, contended, deaths>>

-----------------------------------------------------------------------------
(* The process of the handler in slot q ends *)
Die(q) ==
    /\ ~At(q, "idle")
    /\ deaths < MaxDeaths
    /\ deaths' = deaths + 1
    /\ outdated' = (outdated \/ handler[q].pc \in {"load", "emit"})
    /\ Ends(q)
    /\ UNCHANGED <<stored, cached, rows, told, odd, contended>>

-----------------------------------------------------------------------------
HandlerStep(q) ==
    \/ FindRoom(q)
    \/ CacheRoom(q)
    \/ \E granted \in BOOLEAN : CheckAccess(q, granted)
    \/ InsertReaction(q)
    \/ DeleteReaction(q)
    \/ LoadReactions(q)
    \/ Broadcast(q)

Next ==
    \/ Flush
    \/ \E q \in Reqs :
          \/ \E u \in Users : Begin(q, u)
          \/ HandlerStep(q)
          \/ Die(q)
    \/ RoomExpires

Spec == Init /\ [][Next]_reactionVars

-----------------------------------------------------------------------------
(* Properties *)

TypeOK ==
    /\ stored \in BOOLEAN /\ cached \in BOOLEAN
    /\ rows \subseteq Users /\ told \subseteq Users
    /\ handler \in [Reqs -> [u : Users, loaded : SUBSET Users, overtaken : BOOLEAN,
                             pc : {"idle", "room", "cache", "access", "insert", "delete",
                                   "load", "emit"}]]
    /\ odd \subseteq Users /\ contended \subseteq Users
    /\ outdated \in BOOLEAN
    /\ deaths \in 0..MaxDeaths

(* "Atomic toggle": a user has the reaction if and only if they have toggled it an odd *)
(* number of times, however toggles overlap, unless two of their own found it there    *)
(* and both delete it.                                                                 *)
ToggleKeepsParity ==
    \A u \in Users : u \notin contended => (u \in rows <=> u \in odd)

(* "Atomic toggle": after every toggle, of whoever and however they overlap, a user  *)
(* has the reaction if and only if they have toggled it an odd number of times.      *)
AtomicToggle == \A u \in Users : u \in rows <=> u \in odd

(* With no handler running, the room was told the reactions that are stored, unless   *)
(* another toggle was stored between the load and the arrival of the broadcast, or a   *)
(* process died.                                                                       *)
ToldIsStored == ((\A q \in Reqs : At(q, "idle")) /\ ~outdated) => told = rows
=============================================================================
