# MyRide API: specifications, model checking and proofs

`myride-api` is the NestJS backend of a group-ride application. Clients use it over REST and Socket.IO; it
keeps its data in Postgres (through TypeORM) and its caches, counters, streams and pub/sub channels in Redis.
It runs as several server processes behind a load balancer. Nothing in it is hard for one request at a time;
what is hard is that requests of several users, of one user twice, background workers and other server
processes touch the same rows and keys between any two `await`s, and that a process may die between two
statements.

This directory holds TLA+ modules of the parts where that matters, TLC configurations that check them on small
instances, and TLAPS proofs that hold for every instance. `PROJECT.json` lists the runs, the source lines
behind every definition, the known disagreements between code and documents, and the hazards.

## 1. Inventory

| Component | Source (`src/src/modules/`) | State | Operations | Talks to | What makes it correct |
|---|---|---|---|---|---|
| Chat write path | `chat/chat.service.ts`, `chat/chat-flush.worker.ts`, `chat/chat.gateway.ts` | a Redis stream per room with a consumer group, the set `chat:active_streams`, `chat_messages` | `queueMessage`, `registerStream`, `ensureConsumerGroup`, `tick`, `flushStream`, `recoverPendingEntries` | gateway registers, worker drains | no message acknowledged without a row, none written by two workers, every message eventually stored |
| Trip membership | `trips/trips.service.ts`, `share-links/share-links.service.ts` (`joinViaLink`) | `trips` (status, `current_participants`, `max_participants`), `trip_participants` | `create`, `update`, `cancel`, `requestJoin`, `approveJoin`, `rejectJoin`, `leaveTrip`, `joinViaLink` | chat access, stop progress, notifications | counter equals approved members, capacity respected, cancel and withdrawal are final, requests end (what of this holds, and what overlaps break, is in sections 3 and 4) |
| Chat room access | `chat/chat.service.ts`, `chat/chat.gateway.ts`, the callers that change memberships | keys `chat:access:…` with TTL, Socket.IO rooms, channel `chat:kick` | `checkRoomAccess`, `chat:join`, `chat:send`, `chat:leave`, `invalidateRoomAccessCache`, `evictUserFromRoom` | trips, links, communities | non-members stay out, stale answers end, who leaves is evicted |
| Stop progress | `trips/stop-progress.service.ts` | `user_stop_progress` | `ensureRowsExist`, `markComplete`, reads | called by `approveJoin` | a next stop is always offered, completed stays completed |
| Communities | `community/community.service.ts` | `communities` (`join_type`, `is_active`, `member_count`), `community_member`, `community_invite` | `create`, `update`, `remove`, `join`, `leave`, `kickMember`, `invite`, `respondToInvite` | chat access reads membership | counter matches, accepted invites make members |
| Reactions, flood and rate limits | `chat/chat.service.ts`, `chat/chat.gateway.ts` | `message_reactions`, `chat:msg:room`, `chat:rl:react`, `chat:flood` | `chat:react`, `toggleReaction`, `checkFloodControl`, `checkRateLimit` | room access, write path | limits hold and end, a toggle toggles, the room sees what is stored |
| Chat history and replies | `chat/chat.service.ts`, `chat/chat.controller.ts` | reads the stream and `chat_messages` | `getHistory`, `resolveReplySnapshot` | write path | pages neither skip nor repeat, a reply finds its target |
| SOS alerts | `sos/sos.service.ts` | `sos_alerts` | `create`, `cancel`, `acknowledge` | notifications, `sos:*` channels | a closed alert stays closed, acknowledgements are kept |
| Share links | `share-links/share-links.service.ts` | `trip_shareable_links` | `upsert`, `update`, `disable`, `regenerate`, `resolveByToken`, `joinViaLink` | trip membership | a disabled link stays disabled, counts and password stay |
| Authentication | `auth/`, `users/users.service.ts` | OTP, attempt, lock and cooldown keys; the `users` row with the hash of the refresh token | `requestOtp`, `login`, `loginWithFirebase`, `refreshToken`, `updateProfile`, `logout`, `updateMe` | users | few guesses, an OTP works once, clients that refresh stay in, edits stay |
| Live location | `location/` | `loc:pos`, `loc:rl` with TTLs, Socket.IO rooms | `location:join`, `update`, `leave`, connect, disconnect, REST update | chat access | maps show what is stored, positions of who left disappear, limits end |
| Notifications | `notifications/`, callers in `sos/` and `trips/` | push tokens; promises nobody awaits | `sendPush`, `sendPushMany`, the chains of an SOS and of an approval | users | everyone found is tried, only riders are alerted |
| Users and vehicles | `users/` | `users`, `vehicles` | edits of one's own rows | authentication | an edit is not undone (with Authentication) |
| Voice, version, shell | `voice-call/`, `version/`, `app*.ts`, `main.ts` | none | token issue, comparison, bootstrap | room membership | |

How the parts interact. `approveJoin` and `leaveTrip` call into the chat (cache invalidation, and `chat:kick`,
which every gateway process receives through Redis) from inside their transactions, and `approveJoin` seeds
the stop progress and starts a push notification from inside its own. `joinViaLink` and the community handlers
change memberships without telling the chat. `chat:join` checks the access, joins the socket and registers the
stream; `chat:send` passes the flood control, checks the access and appends to the stream; the worker of every
process drains all registered streams; the history reads what it stored, and a reply looks at both. Live
location reuses the chat's access cache. An SOS starts a chain of queries and pushes. Every login, refresh and
profile edit saves the same `users` row.

Hard behaviours, in the order of their weight: read–check–write over entities held in memory with TypeORM's
`save`, which writes every column in which the entity differs from the reloaded row; Redis side effects before
the commit; crashes and failed calls between delivery, INSERT and acknowledgement; concurrent row locks,
deadlocks, and connections that one request needs twice; counters whose expiry is set by a second call;
broadcasts that overtake each other; TTLs that end stale answers. The hazards of `PROJECT.json` name each of
them at its line.

## 2. Modules

| Module | Models | Reads as |
|---|---|---|
| `MessageLog` | what the write path promises | accept, keep, settle |
| `TripRoster` | what a trip promises its users | ask, join, admit, refuse, leave, cancel, resize |
| `ChatFlush` | stream, group, PEL, rows, server incarnations | one action per Redis or Postgres call of a flush |
| `ChatLimits` | the two limits of one user | one action per Redis call of a check |
| `ChatReactions` | one message, one emoji | one action per call of `chat:react` |
| `ChatHistory` | one room: stream, rows, a walk through the pages, replies | one action per query |
| `TripMembership` | one trip, its participants, its handlers, the pool | one action per statement of a handler |
| `RoomAccess` | one user, one room: row, cache, sockets, kick | one action per call of a check or a change |
| `StopProgress` | the rows of one user and trip | one action per statement of `markComplete` |
| `CommunityMembership` | one community, its members, its invites | one action per statement of a handler |
| `ShareLinks` | the link row of one trip | one action per statement of a handler |
| `SosAlerts` | one alert | one action per load, change, reload and UPDATE |
| `AuthSessions` | one phone number: its keys, its user row | one action per call of a handler |
| `LocationPresence` | one rider and the map of one member | one action per Redis call or broadcast |
| `PushFanout` | the promises of one SOS and one approval | one action per query or send |
| `TripRaces` | `TripMembership` with the history `missed`, `drifted` | what a request has missed since it loaded the rows, and whether the counter may be wrong |
| `ChatService`, `Requests` | several components side by side | see below |
| `…Proofs` | theorems | see section 5 |
| `MC…` | the module of that name for TLC | constants are in the `.cfg` files |

`ChatService`, `Requests`, `MCAdmission` and `MCRideDay` put components side by side that ask the same
question. In the models they share no variable, so a product of their behaviours would check nothing more: the
variable `focus` is chosen in the initial state and never changes, and each behaviour follows one component
while the others keep their initial states. `ChatService` has the write path and the limits; `Requests` the
handlers that read a row, go on and write it; `MCAdmission` the trip under concurrent requests (`TripRaces`)
and the OTPs; `MCRideDay` what has to make progress during a ride: the requests about the trip, its stops, and
the live position. A component that is not in focus has none of its fair actions enabled, so that fairness
asks nothing of it (`ChatService` says so for `Bootstrap`, which is enabled at once). The first two take the
constants of all their components as their own, so that what is proved of them holds for every value;
`MCChatService` and `MCRequests` add nothing but a symmetry, and their `.cfg` files the small values of
section 3.

Conventions. A handler runs in a slot of `Reqs`; its local variables are a record with the program counter
`pc`, and `Idle` (or `NoHandler`) is a slot without a request. A step is the code between two `await`s. Under
READ COMMITTED a SELECT sees the committed row, so variables hold committed rows; what an open transaction has
written is in its record and becomes visible in `Commit`, and the row locks it holds are in a lock variable.
`Abort`, `Crash`, `Die` or `FlushFails` is a process that dies or a call that fails. TypeORM's `save` is two
steps: the row is read again, and the columns in which the entity differs are written. Definitions whose
comment starts with *Mutant* are not part of any specification; they are plausible bugs of the definition that
follows, and each is the reason why some property of a run is not vacuous. Variables marked *(history)* are
read by properties only.

What data is abstracted. Message contents, names, titles, coordinates and times are left out. A stream is its
length where only the order of its entries matters (`ChatFlush`) and the sequence of their `<<created_at,
id>>` where those do (`ChatHistory`); OTPs, tokens and edits are numbered in the order they are made, so that
a guess is right if it is the number. Clocks are nondeterminism: an entry of the PEL may or may not have been
idle for 5 s, a key may expire and a window may end at any time. A request that a check refuses without any
effect is left out or ends at once. The role checks compare with the creator's id, which never changes.

Correspondence, module by module:

* `ChatFlush`. `len`, `active`, `group`, `lastDel` and `owner` are the Redis side (XLEN, the set of active
  streams, the consumer group, its last-delivered id, the PEL); `stored` is `chat_messages`; `pc` and `batch`
  are the running `flushStream` of each process and room. `Servers` are incarnations: the worker id contains
  pid and start time, so a restart is a new consumer. `RecoverPendingEntries` drops the reply of XCLAIM, as
  the code does.
* `ChatLimits`. `window` is the size of the sorted set `chat:rl:react`, `flood` the counter `chat:flood` and
  `floodTtl` whether it has an expiry. The count and the new entry are two pipelines, INCR and EXPIRE two
  calls, and `Die` may come between them. `sent` (history) counts what was let through since the counter was
  absent.
* `ChatReactions`. `FindRoom` looks in `chat:msg:room`, then in `chat_messages`; `InsertReaction` is the
  INSERT that does nothing on a conflict and `DeleteReaction` the DELETE that follows then; `LoadReactions`
  and `Broadcast` are what the room is told, where `Broadcast` is the arrival at one server: the Redis adapter
  brings it to the others later, in any order, and the slot stays taken until then. `contended` and `outdated`
  (history) name the overlaps.
* `ChatHistory`. `FindCursor` resolves `before`, which may have no row, and `ReadPage` reads a page below the
  compound cursor (`created_at`, then `id`). `ScanStream` and `FindParent` are `resolveReplySnapshot`, around
  which the worker stores entries (`Flush`).
* `TripMembership`. `trip` and `part` are rows, `lockT` and `lockP` row locks. `Plans` is what a handler
  decides from the two entities it has read; `ReloadParticipant`/`WriteParticipant` and
  `ReloadTrip`/`WriteTrip` are TypeORM's `save`; `Increment` is the atomic increment of a link join. `Seed` is
  the call of `ensureRowsExist` in `approveJoin`, which runs on the repository and therefore on a second
  connection. `HoldsConnection` is who has a connection of the pool: an open transaction, a save between its
  read and its commit, an UPDATE that was sent (`SendIncrement`); every other statement needs a free one of
  `PoolSize`. `Roster` maps the committed rows to `TripRoster`: a participant's status, whether the trip is
  pending, and `max_participants`.
* `RoomAccess`. `cache` is the key of the user and room, `inRoom` the user's sockets, `kick` a message on the
  channel. An approval of somebody already approved returns from `FindMembership` without telling the chat,
  and an eviction that fails may have reached some of the sockets (`EvictUser`). `ever` (history) remembers a
  membership, `serial` that no requests have overlapped and none came through a path that does not tell the
  chat.
* `StopProgress`. `row` and `lock` are the progress rows. `OpenTransaction` takes a connection and `Seed` a
  second one; `SetLocation` is the UPDATE of the location, `ReloadProgress` and `SaveCompleted` are TypeORM's
  `save`. `PickNext` is the subquery of the UPDATE that advances the next stop and `AdvanceNext` the UPDATE,
  which after a lock wait checks the id of the row again but not its status. `Waits` and `Deadlocked` describe
  Postgres' deadlock detection.
* `CommunityMembership`. `member` and `pending` are rows; a new member and a departure are transactions that
  lock the member row, then the community row; a rejoin is a save on its own;
  `ReloadCommunity`/`SaveCommunity` are the `save` of `update` and `remove`. `staleCount` (history) is a
  counter that such a save has written back.
* `ShareLinks`. `link` is the row. Who sets the password writes it, nobody loads it (`select: false`). The
  counters and `disable` are single UPDATEs; everything else is a `save`. A password may come with any mode.
  What a join does to the trip is in `TripMembership`.
* `SosAlerts`. `alert` is the row; `cancel` and `acknowledge` load it, read trip or membership, change the
  entity and save it. `early` is the self-cancel window of 30 s.
* `AuthSessions`. `otp` holds the four keys and what their TTLs do; a login is GET, compare, INCR, lock or
  DEL, then the row. A refresh compares the hash that it has selected (`Matches`; bcrypt looks at 72 bytes,
  which the tokens of a user share), signs new tokens, and writes the new hash. A `save` of the entity writes
  `name` and `push` back if they differ. A query or save of a refresh that fails answers as a wrong token does
  (`RefreshFails`). The expiry of the attempts counter is the OTP's TTL in rounded seconds: `NearEnd` is an
  OTP's last half second, from when on its counter may end (`TriesEnd`), before or after the OTP itself
  (`Elapse`). `past` is history: wrong guesses and losses of the counter under a live OTP, why a token was
  refused. Left out: the expiry of a refresh token and the account status, which refuse without an effect.
* `LocationPresence`. `pos`, `count` and `countTtl` are `loc:pos` and `loc:rl`; `socket` is the rider's own
  connection and whether it is in the room; `view` is the map of a member who joins the room, is sent a
  snapshot and then the broadcasts. A disconnect removes nothing (section 4).
* `PushFanout`. `push[k]` is the promise of an SOS or of an approval, from its first query to the last token.
  FCM and Expo are external: a token is tried, and what they answer changes nothing.

## 3. Runs

| Run | Module | Properties | Instance | Shows |
|---|---|---|---|---|
| `flush_writes` | `MCChatService` | `TypeOK`, `AckedIsStored`, `ExclusiveDelivery`, `ImplementsMessageLog`, `EventuallyDelivered`, `StoredUnlessFault` | 1 room, 2 servers, 3 messages, batches of 2, 1 fault | with a crash or failed call anywhere, nothing is acknowledged without a row or handed out twice, and no message is passed over |
| | | `LimitsHold`, `FloodLifts` | 3 handlers, limits of 2, 1 death | sends are paced, reactions overshoot by fewer than run at once, the flood control lifts |
| `flush_retry` (violation) | `MCChatFlush` | `EventuallyStored` | 2 messages, batches of 1, 1 fault | a message whose INSERT failed once is reclaimed for ever and never written |
| `shared_rows` | `MCRequests` | `TypeOK`, `ImplementsRoster` | 4 users, capacities 2 and 3, one request at a time, all seven kinds, crashes | handlers that do not overlap implement `TripRoster` |
| | | `LinkStands` | 2 requests at once, 2 tokens, 1 save, 1 hit, 1 fault | counters never fall, a disabled link stays so, a password stays asked for, but for a save that was overtaken |
| | | `AnswersStand` | 2 requests at once, 2 closings, 2 riders | closings and acknowledgements of an alert are final, but for the same |
| | | `RefreshAccepted`, `EditsKept` | 2 requests at once, 1 OTP, 3 tokens, 1 edit, 1 crash or failed query | refreshes at once or repeated throw no client out, no edit is undone |
| | | `ToggleKeepsParity`, `ToldIsStored` | 2 users, 2 toggles at once, 1 death | an odd number of toggles is a reaction; the last broadcast is right unless overtaken |
| | | `EveryMessageOnce`, `ReplyResolves` | 3 ids, 2 times, pages of 1, 2 writers, a scan of 1, 1 fault | pages neither skip nor repeat while messages arrive out of order; a reply finds its target |
| | | `MapShowsStored` | 2 places, 2 handlers | a map agrees with what is stored unless a change was overtaken |
| | | `AlertReachesRiders`, `PartsTypeOK` | 3 riders, 1 applicant | everyone found is tried, riders only; the types of these components |
| `reactions_toggle` (violation) | `MCChatReactions` | `AtomicToggle` | 2 users, 2 toggles at once | two toggles of one user both delete |
| `admission` | `MCAdmission` | `CountHolds`, `RosterUnlessRaced`, `CancelIsFinal`, `WithdrawalStands` | 3 users, 2 requests at once of all seven kinds, a crash within a link join | counter, capacity, order of statuses, cancel and withdrawal hold until a request saves over a change it has missed |
| | | `OtpIsGuarded` | 2 requests at once, 2 OTPs, 1 crash | few guesses at a code, one login per code, also when a new OTP is requested in between |
| `trip_overbook` (violation) | `MCTripMembership` | `AdmitsOnlyBelowMax` | 3 users, 2 approvals at once | the capacity check races |
| `trip_pool` (violation) | `MCTripMembership` | `EveryRequestEnds` | 2 approvals, 2 connections | approvals that hold all connections wait for one more, for ever |
| `ride_day` | `MCRideDay` | `TypeOK`, `NextStopOffered`, `UndoneOnlyByRace`, `EveryCompletionEnds` | 3 stops, 2 completions at once, 3 connections, rollbacks | a next stop is always offered, only an overlap takes a completed one back, crossing locks are resolved and every completion ends |
| | | `EveryRequestEnds` | 2 users, 2 requests at once of four kinds, 3 connections | lock order and connections let every request end |
| | | `LimitLifts` | 2 places, 1 handler, 1 death | a limited rider can update again, unless a process died |
| `stop_undone` (violation) | `MCRideDay` | `StaysCompleted` | 2 completions at once | a completed stop becomes current again |
| `access_faults` | `MCRoomAccess` | `TypeOK`, `NeverMemberNeverIn`, `StaleAnswersExpire`, `CoherentAtRest`, `OnlyMembersInRoom` | 2 sockets, 2 requests of all seven kinds, 1 fault | strangers stay out, stale answers end; while nothing overlaps or fails, cache and rooms agree with the membership |
| `access_evict` (violation) | `MCRoomAccess` | `EventuallyEvicted` | 1 socket, a join and a departure | a socket that joins after the kick stays |
| `community_races` | `MCCommunityMembership` | `TypeOK`, `CountNeverOverstates`, `EveryRequestEnds` | 1 user besides the creator, 2 requests, 1 invite, failures | the counter promises too many only after a stale save |

Why these bounds are enough. The races in this code are between two handlers on the same row; a third actor
adds something where a fault has to be observed by somebody else (the other server), where a third user fills
the capacity, or where a limit of two is overshot, and there it is present. Three entries with batches of two
give full and partial batches and one entry behind the cursor; three messages over two times give a tie, its
order by id, and a page on either side. `MAX_OTP_ATTEMPTS` is the code's, and two OTPs are the one guessed and
one requested anew in between. The bounds of `MCRequests` let each handler meet every other once: one save and
one counted hit at a time on a link, two closings of an alert (so that one can undo the other), three tokens
(a login, its refresh, and another). `MinCount` keeps departures from being requested at a `member_count` of
zero, which stops the counter of a rejoining member from falling for ever.

`shared_rows` leaves the death of the process within a link join out (`CrashOps`): the approval and the
increment are separate statements there, and a crash in between does leave a member uncounted, which
`admission` has. `admission` has three users, so that the capacity of two is reached, and does not go on from
where the counter has drifted (`Counting`), of which `CountHolds` and `RosterUnlessRaced` say nothing;
`CancelIsFinal` and `WithdrawalStands` hold beyond, as their theorems show. Its crashes are those that can
leave the counter wrong: in every other handler a crash is the end of a request between two commits, which
`shared_rows` has. In `ride_day` the trip has the four kinds of requests that together wait for every lock and
connection there is: approvals (participant, trip, a second connection), departures (the same without it),
cancels (the trip alone) and link joins (either row, one after the other); requests, rejections and updates
take one lock in one statement as a link join or a cancel does. Two completions can wait for each other's
rows, and the pool has one connection more, which the seeding of one of them needs. The properties with
theorems (section 5) do not depend on these bounds.

Many properties say *unless*: the overlap that does break the promise is named by a history variable (a save
that was overtaken, toggles of one user that met, a broadcast out of order). Such a property says that nothing
else breaks the promise; it does not catch the overlap. Where a document or comment promises that the overlap
does no harm, a run of its own can refute that, and these come in pairs: `RosterUnlessRaced` and
`AdmitsOnlyBelowMax`, `ToggleKeepsParity` and `AtomicToggle`, `UndoneOnlyByRace` and `StaysCompleted`,
`OnlyMembersInRoom` and `EventuallyEvicted`. For the others the hazard in `PROJECT.json` says why there is no
such run: mostly that nothing is promised (the counter of a community, an alert that two riders acknowledge at
once, the order of two broadcasts).

Deadlock checking is on everywhere except in `trip_pool`, whose subject is that the process stops.

Fairness. A statement or call that was issued returns, and Postgres serves the waiters of a row lock in turn,
so a handler step that is possible again and again happens (strong fairness of a handler step; weak where no
lock or connection is involved, in `ChatLimits` and `LocationPresence`). The environment is never obliged to
send a request, to crash or to fail. Postgres resolves a deadlock by aborting one of its transactions. The
worker's timer re-arms itself in the `finally` of `tick`, the orchestrator restarts the process (`restart:
unless-stopped`), and an entry that stays in the PEL is found idle for more than 5 s again and again. Redis
expires keys that have a TTL (`SecondEnds`, `WindowEnds`, `Expire`) and delivers what was published to a
connected gateway.

## 4. What the code does not do as documented

`PROJECT.json` quotes the document or comment for each.

1. A message whose INSERT failed is never stored (`flush_retry`): the contents XCLAIM returns are dropped and
   the reads ask for new entries only.
2. Concurrent approvals overbook a trip (`trip_overbook`).
3. As many concurrent approvals as the pool has connections stop the service (`trip_pool`).
4. A socket that joins its room just after the kick stays (`access_evict`).
5. Two toggles of one user at once may both delete the reaction (`reactions_toggle`).
6. A stop completed while another completion advances it is current again (`stop_undone`).

Met while modelling, reachable in the modules or visible in what they leave out, and not the subject of a run:

* trips: two approvals at once lose one increment of `current_participants`; an approval that read the trip
  before `cancel` saves its stale status, and the trip is pending again; an approval overwrites a withdrawal;
  `create` loads the full trip outside its transaction; the push of an approval is sent before the COMMIT, and
  also if that fails;
* stops: as many completions at once as the pool has connections wait for one more each, to seed the rows, for
  ever;
* chat: a check that runs between invalidation and commit caches the old grant for its TTL; link joins and
  community changes never invalidate; a message to a room nobody has joined is in a stream no worker drains;
  the depth alert counts acknowledged entries; concurrent reactions pass their limit; broadcasts of reactions
  may come in the other order; a `before` that has no row yet restarts the walk at the newest page;
* authentication: a logout does not invalidate the refresh token, since TypeORM leaves an `undefined` column
  out (`TESTING_COMPLETE.md:110` says it does); the attempts counter can end up to half a second before its
  OTP, since its expiry is a TTL in rounded seconds (`auth.service.ts:173` means to align them);
* counters: a process that dies between INCR and EXPIRE leaves a counter without TTL, for the flood control,
  the rate limit of the live location (whose rider is silenced for good, against the "EX 2s" of
  `location.gateway.ts:43`) and the OTP attempts, where also an OTP that ends between GET and TTL does so;
* communities: a rejoin is not counted, so `member_count` can become negative; an accepted invite to an
  invite-only community is used up and makes nobody a member, since `join` refuses such a community;
* links: an update of a password-protected link always asks for the password anew, since the hash is never
  loaded; a join through such a link does not ask for it; a view or join that is counted while an
  administrator saves the link is lost (`share-links.service.ts:39` speaks of atomic increments);
* location: a disconnect leaves the rider's position for its TTL of an hour, since `handleDisconnect` finds no
  rooms any more to clean up (`location.service.ts:104` says the position is removed); the REST fallback
  stores every position under the user `undefined`, since `JwtStrategy` returns the entity, which has no
  `sub`;
* notifications: a push token is not unique to a user.

## 5. Proofs

All proofs are checked by TLAPS with Z3, Zenon and, for the temporal steps, LS4. Every safety invariant and
every safety action property of the passing runs is a theorem, for any users, requests and bounds, but for the
refinement `ImplementsRoster`.

* `ChatServiceProofs`: of the write path, `TypeCorrect`, `AcknowledgedHaveRows` (`AckedIsStored`),
  `HandedOutOnce` (`ExclusiveDelivery`) and `Refinement` (`Spec => ImplementsMessageLog`), for any rooms,
  servers, batch size, number of messages and faults. The inductive invariant adds that delivered entries are
  in the stream (`lastDel <= len`), that a batch holds delivered entries only, that batches of different
  flushes are disjoint, and that a flush about to acknowledge has its whole batch stored. `AckedIsStored`
  alone is not inductive: an acknowledgement has to know what was stored two steps earlier. Of the limits,
  `LimitsAreKept` (`LimitsHold`): an entry takes the place of a handler that is about to add it (`WindowInv`),
  and every send let through was counted (`FloodInv`). `ServiceIsSafe` is both for `ServiceSpec`.
* `TripMembershipProofs`, for any users, capacities and number of requests at once, and any crashes:
  `TypeCorrect`, `CountKept` (`CountHolds`), `RosterKept` (`RosterUnlessRaced`), `CancelStands`
  (`CancelIsFinal`) and `WithdrawalsStand` (`WithdrawalStands`). The inductive invariant `RacesInv` is
  `TypeOK`, `RaceInv` and `CountHolds`. `CountHolds` alone is not inductive: a save of the counter keeps it
  only if what it is going to write is the row's counter and the request's own change. `RaceInv` says that of
  each request, by what it knows of the rows: where it has missed no change of a column, it holds that column
  as the row has it, but for what its handler has set; where it has missed no change of the participant, what
  it decided from the rows is what `Plans` decides of those there are; and what its save has found to differ
  (`DirtyInv`) is what differs. So if it remembers the trip as pending and the trip is cancelled, or approves
  a request that is over, then it has missed that, which is `CancelStands` and `WithdrawalsStand`.
  `RosterKept` then goes through the steps: the saves of requests that have missed nothing are the steps of
  `TripRoster` (the counter being the number of approved participants, its check is the capacity's), the
  others change none of its variables. Without the exception both are false (section 4).
* `RoomAccessProofs`, for any sockets, any number of requests and failures: `TypeCorrect`; `StrangersStayOut`,
  whose invariant follows the membership through `seen` and `cache` into the room; `CacheCoheres`
  (`CoherentAtRest`) and `LeaversAreOut` (`OnlyMembersInRoom`), whose invariant (`SerialInv`) holds as long as
  nothing was disturbed: `Coherent` at any time, and `AloneInv` for what the single request that runs knows.
  From the invalidation to the commit the cache is empty, and from the kick to the commit nobody comes in:
  that order in `leaveTrip` is what the proof rests on.
* `StopProgressProofs`: `TypeCorrect`, `Offered` (`NextStopOffered`) and `UndoneByRace`, for any number of
  stops and completions. The argument: no stop becomes pending again, so a completion that found none pending
  may commit without advancing any; a completion on its own still finds pending what it picked.
* `CommunityMembershipProofs`: `TypeCorrect` and `CountHolds` (`CountNeverOverstates`), for any users,
  invites, requests at once and failures. The invariant bounds the counter by the rows there are, also in what
  a handler has loaded (`CountsBounded`), and says what an open transaction holds (`Holds`): from the counting
  to the commit the community row is its own, and the member row it is about to write is locked and still
  unused.
* `SessionProofs`: the login and the sessions of a user, for any number of requests at once, codes, tokens,
  edits and crashes. `RefreshWorks` (`RefreshAccepted`: a refusal has a logout or a failed query for its
  cause) and `EditsStay` (`EditsKept`) rest on `AuthSession`: a token that a client holds was saved with a
  hash, whoever goes on with the row has found it, and until some save is overtaken every entity in memory
  agrees with the row in the columns its handler has not set, so that the save writes those and no others.
  `OtpsAreGuarded` (`OtpIsGuarded`) rests on `AuthOtpInv`. Wrong guesses are counted by the Redis counter,
  went with a counter that was lost under the live OTP, or belong to a request about to lock or to a crash
  (`AuthCounted`); for requests one after the other a counter is lost in its OTP's last half second only; and
  each use of a code took the place of a request that had read it before it was deleted (`AuthSpendings`).
  Numbers of codes, tokens and edits are in their bounds because a request that may still make one is counted
  (`AuthCaps`).
* `FeedProofs`, what members of a trip are shown. `PagesShowAll` (`EveryMessageOnce`) and `RepliesResolve`
  (`ReplyResolves`), for any messages, clocks, page size and writers: `<<created_at, id>>` is a total order
  (`HistOlderOrder`), a finite set has a first and an oldest message in it (`HistHasFirst`, from the library's
  theorem that the subsets of a finite set are well-founded), and a page below the cursor that is not empty
  moves the walk on to its oldest message (`HistOldestOfPage`), so that what is not shown yet is older than
  where the walk stands (`HistReached`). A reply that goes on without a snapshot has scanned as far as the
  scan goes (`HistScanned`). `MapIsCurrent` (`MapShowsStored`): before any race, snapshot and map show the
  stored position or a handler is about to tell it (`MapShows`, `MapUntold`). `AlertsArrive`
  (`AlertReachesRiders`): who is due was tried or is on the list still to be tried (`PushDueInv`), and that
  list holds riders but not the sender (`PushGoesToRiders`).
* `RequestsProofs`: `PromisesOfALink` (`LinkStands`) and `AnswersOfAnAlert` (`AnswersStand`), action
  properties, share one argument: a request that nobody has overtaken still agrees with the row in what it
  does not mean to change (`LinkFresh`, `SosFresh`), and so does what its save is going to write.
  `TogglesKeepParity` (`ToggleKeepsParity`): a delete finds the reaction, unless the user's toggles have met
  (`ReactDeletesPresent`). `RoomsAreTold` (`ToldIsStored`): what was loaded and not overtaken is what is
  stored, and until the room is told somebody is going to tell it (`ReactToldInv`). `StepsOfParts` and
  `SpecsOfParts` show that a behaviour of `RequestsSpec` is one of each component; with the theorems of the
  other two modules, `TypesOfParts` (`PartsTypeOK`) and `RequestsHold` give all the promises for
  `RequestsSpec` itself. The trip's own are those of `TripMembershipProofs`.

Assumptions: the `ASSUME`s of the modules (non-empty or finite sets, naturals, a `None` outside the slots, a
page of at least one message, ids and times that are integers), which TLC evaluates in the runs. No theorem of
these modules assumes fairness; where a component's specification states it, the proof does not use it.

Only model-checked: everything under fairness, which is out of the prover's reach (`EventuallyDelivered`,
`StoredUnlessFault`, `FloodLifts`, the two `EveryRequestEnds`, `StaleAnswersExpire`, `EveryCompletionEnds`,
`LimitLifts`), the refinement `ImplementsRoster` of requests that do not overlap (what is proved instead,
`RosterKept`, is for requests at once), and the violations of section 4, which are counterexamples.

## 6. Not modelled, and what is left

Not modelled: voice calls (issues tokens after one membership read, keeps nothing), the version comparison (a
pure function of constants), the application shell, vehicles (rows that only their owner edits), listings and
searches (reads of committed rows without a later write), the verification of a Firebase token and the push
services (external; modelled by their use). Interactions across modules are cut at the call: `checkRoomAccess`
is a nondeterministic answer in `ChatReactions` and `LocationPresence`, the membership a set that may shrink
in `SosAlerts`.

Left, in this order:

1. A bound on how far `current_participants` and the approved rows may drift apart, in terms of the saves that
   were overtaken.
2. An abstract specification of the room access (a grant lasts no longer than its TTL after the membership
   ends) with a refinement, so that the presence and the reactions can use it instead of a nondeterministic
   answer.
3. The hazards of `PROJECT.json` that no property covers.
