# ocean.chat: TLA+ models, checks and proofs

ocean.chat is a set of NestJS services (gateway, auth, user, and scaffolding
for others) that share MongoDB, one Redis and NATS JetStream.  This directory
holds TLA+ modules for the parts of it where several pods, callbacks or
messages interleave, TLC configurations that check them on small instances,
and TLAPS proofs of what matters most for every instance.

All paths below are relative to the repository.

## 1. Inventory

| Part | State | Operations | What is hard | Correct when |
|---|---|---|---|---|
| **Auth sessions** `apps/oceanchat-auth/src/oceanchat-auth.service.ts` | per user a Redis hash device -> token pair (with a TTL on the whole hash); per device a Redis lock of 10 s; revocation events sent | `login`, `logout`, `refreshToken`, each several awaits long | logout takes no lock, the lock may expire under its holder, every Redis command may fail after taking effect, replayed tokens wipe the family | a refresh token is exchanged once; the replaced access token is revoked, a live one never; removed sessions stay removed; locks are released by their owner and never stay |
| **Id generator** `libs/id-generator`, `sequence.repository.ts` | a counter per key in MongoDB, the current segment and a 5 s lock in Redis | `generateSyncSeqId`: Lua fast path, lock, allocate, sync, second try | two pods allocating at once, lost replies, Redis losing the segment | ids unique, below the durable counter, increasing |
| **Bounded publisher** `nats-jetstream-publisher.ts` | a queue, a slot counter, a promise per call | `publishSafe`, the promise chain of each task, `processNext` | counting slots over callbacks, quotas at their limit, DLQ fallback | limit kept, no task beside a free slot, reserve kept, critical callers answered truthfully |
| **JetStream subscriber** `base-nats-subscriber.ts` | consumer state in NATS (delivery counts, acks) | the consume loop, `handleError` | redelivery, last delivery, crash in the middle | every event is handled or in the DLQ |
| **User service events** `apps/oceanchat-user/src/modules/nats-events`, `addDevice` | idempotency keys in Redis (120 s), devices in MongoDB | `onEvent` | duplicates against crashes: the key is set before the work | each login recorded; no two pods at it together |
| **Gateway blacklist** `apps/oceanchat-api-gateway/src/modules/nats-events`, `token-blacklist.service.ts`, `jwt-auth.guard.ts` | a blacklist in each gateway's memory | `onEvent`, the guard | each gateway must hear each revocation | a revoked token is refused by all |
| **User accounts** `apps/oceanchat-user/src/oceanchat-user.service.ts`, `local-auth.guard.ts` | the users collection with its unique index | `create`, `validatePassword`, `addDevice` | eight settings read while they change, two registrations of a name, events in any order and twice | names exclusive; no account breaks the rules; a device once in the list |
| **JetStream provisioner** `nats-jetstream-provisioner.service.ts` | the client, the streams | `onModuleInit` | readers may start before the stream exists | readers come to listen; the publisher refuses while it is down |
| **Redis `getOrSet`** `libs/redis` | cached value and a lock per key | cache-aside read | stampede, waiting for a lock in vain | one fetch at a time; every read ends |
| **Role cache** `libs/authorization/src/services/role-cache.service.ts` | L1 map with LRU and 10 s TTL, L2 in Redis for 1 h | reads, `invalidate...` | an invalidation between a read of the source and the write of the cache | outdated roles have one cause |
| **Settings** `libs/settings` | cached settings, with or without TTL | `getSettingValue`, `setSettingValue`, seeding and pre-warming | un-awaited invalidation; TTL set after the values; null after a wait in vain | an outdated value has a cause and goes; null only if the source has none |
| **Idempotency interceptor** `libs/cores/src/interceptors` | one Redis key per request id: processing or completed | `intercept` | the marker's 60 s, failures after success | one owner per key; a second execution only around an error; keys are freed |
| **Circuit breaker** `libs/cores/src/modules/circuit-breaker` | a breaker per route in each gateway | `fire` | which errors count; one trial when half open | only failing services open it |
| **Gateway controllers, RPC clients, filters** | none | forwarding, classifying errors | late replies | (part of the two above) |
| **Authorization rules** `libs/authorization/src/logic`, `guards` | none | permission and room access checks | many reads of changing facts, parents of rooms, recursion | the answer is that of the rules; what was never due is not granted |
| **Monkey codec** `libs/monkey/src` | none | JSON, encode, frame, unframe, decode | versions, torn frames, defaults, 24-bit ids | a message means the same to its reader |
| i18n, tracing, watcher, async queue, scaffolding applications | none, or a library's | formatting, logging | - | - |

How they interact.  A client reaches the gateway over HTTP; the gateway checks
the access token against its own memory, without I/O, and calls auth and user
over NATS request/reply.  Auth keeps sessions in Redis and publishes through the
bounded publisher: `auth.event.user.loggedIn` (read by the user service through
one durable consumer) and `auth.jwt.revoke` (read by each gateway through an
ephemeral consumer).  Redis is shared by all of them: sessions, refresh locks,
segments, caches and idempotency keys.  Every Redis call goes through a client
with a 2 s timeout, so a failed call may have taken effect.

## 2. Modules

| Module | Models | Checked by | Proved in |
|---|---|---|---|
| `RefreshTokenRegistry` | abstract: tokens are issued, each is exchanged at most once | (refined) | `AuthSessionProofs` |
| `AuthSession` | auth sessions | `MCAuthSession` | `AuthSessionProofs` |
| `SegmentIdGenerator` | id generator | `MCSegmentIdGenerator` | `SegmentIdGeneratorProofs` |
| `BoundedPublisher` | bounded publisher | `MCBoundedPublisher` | `EventProofs` |
| `EventDelivery` | the consume loop, user events, gateway events, idempotency keys | `MCEventDelivery` | `EventProofs` |
| `EventSubscription` | `EventDelivery` from the start of the pods and of the stream | `MCEventDelivery` | `EventProofs` |
| `GetOrSet` | `RedisService.getOrSet` on one key | (extended) | |
| `RoleCache` | role cache over `GetOrSet` | `MCRoleCache` | `GetOrSetProofs` |
| `SettingsCache` | settings and their seeder over `GetOrSet` | `MCSettingsCache` | `GetOrSetProofs` |
| `GatewayRequests` | guard, idempotency interceptor, breaker, RPC, answer | `MCGatewayRequests` | `GatewayRequestsProofs` |
| `Authorization` | permission guard, permission checks, room access | `MCAuthorization` | `AuthorizationProofs` |
| `MonkeyMessages` | the wire protocol's messages and frames | `MCMonkeyMessages` | `MonkeyMessagesProofs` |
| `Accounts` | registration, password check, recorded devices | `MCAccounts` | `AccountsProofs` |

Two proof modules each prove two components: `GetOrSetProofs` the two users of
`getOrSet`, whose variables they share, and `EventProofs` the two ends of an event's
way.  Each component stays a specification of its own; so that one module can
extend both, `RoleCache` and `BoundedPublisher` name theirs `RolesSpec` and
`PublisherSpec`, and the like.

In every module a step is what runs between two awaits.  A remote call that
may throw is a step with three outcomes: done, done with the reply lost, not
done.  Definitions named beside a model's helper and called its mutant in the
comment (`SetOverwrites` beside `SetIfAbsent`) are the faults a property is
tried against; the specification does not use them.

### AuthSession

One user; no operation touches the keys of two.  A token pair is named by the
request that made it (its uuids are fresh), so "the hash holds the pair this
request presented" is `session[d] = presented[r]`.  `session` is the hash,
`lock` the refresh locks, `pc`/`dev`/`presented` the requests, `revoked` the
revocations handed to the publisher; `stored` and `gone` are history.

- `Login`, `LoginStore`; `Logout` (the gateway takes the device from a token it
  has verified, so only devices that got one), `LogoutRead` (failure to read or
  publish is ignored, as in the code), `LogoutRemove`.
- `Refresh` (verification of the token, which may fail), `RefreshLock`,
  `RefreshRead` and its three ways on: no session, a match, a replay;
  `RefreshSweep` and `RefreshWipe` for the replay; `RefreshFindUser`,
  `RefreshStore`, `RefreshRevoke`, and `RefreshRelease` for the finally block.
- `ExpireLock`, `ExpireSessions`, `Crash`.

`SlowHolders` says whether a refresh may outlive the 10 s of its lock.  The
timeouts of the code allow it (2 s for each of three Redis commands and 5 s for
the user lookup), so the TRUE instance is what the code can do and the FALSE
one is what it does while calls are quick.

### SegmentIdGenerator

One key.  `dbMax` is the document in MongoDB, `segment` the Redis hash, `lock`
the Redis lock; `consumed`, `last` and `intact` are history.  The Lua scripts
are single steps and compare decimal strings the way numbers compare (length
first), which the model uses directly.  The control is that of
`generateSyncSeqId` and `allocateSegmentAndGenerate`: `FastPath`, `TryLock` (the
head of the loop), `Retry`, `Allocate`, `Sync`, `Second` (the segment was
discarded), `Release` (the finally block, whose failure fails the call even with
an id in hand).  The lock is not what makes ids unique: `ExpireLock` is always
possible.

### BoundedPublisher

One pod.  `publishSafe` has no await, so a call is one step, `PublishSafe` or
`Refuse`.  Each task then moves through `PublishReply`, `DlqPublishReply`, `Settle` (the
then/catch handlers) and `Finally` (slot returned, next task started), a step
per callback: other calls run in between.  `kept` says which messages are in
their stream or in the DLQ; a publication whose acknowledgement was lost may be.

### EventDelivery

The base class and both services that extend it.  A consumer is shared by the
user pods (`ConsumerOf` constant) or owned by one gateway (`Ephemeral`, whose
state dies with its pod).  `Deliver` covers decoding and validation, `Claim`,
`Duplicate` and `ClaimError` the set-if-absent of the key, `Apply` the work with
its ack, `ApplyError` and `Unclaim` the catch branch, `HandleError` the choice
between nak and DLQ, `DlqReply` the background publication.  NATS is
`AckTimeout` and the delivery count; `MaxDeliver` is the 3 of the base class.
Which faults may occur is picked by the initial state (`faults`), so that one run
covers all combinations and a property says under which faults it holds.

### GetOrSet and RoleCache

`GetOrSet` is a part, without Init or Spec: the steps of `getOrSet` for one key
(`Get`, `TryLock`, `Fetch`, `Store`, `Release`, `Poll`, `GiveUp`) and what Redis does
by itself (`ExpireLock`, `ExpireCached`), for any module that reads through it.  A
value is the version of the source it was read at, so staleness is comparison.
`RoleCache` adds the memory cache of each pod (`LookUp`, `Finish`, `DropL1`) and a
change of the roles followed by its invalidation (`Change`, `ClearLocal`,
`ClearShared`, one await each).  At this commit no caller of `invalidateUserRoles`
exists; its comment says who is to call it and when, and `Change` is that caller.
The roles of a user and the roles of a permission are cached by twin functions, equal
but for the key and the TTL (`getUserGlobalRoles`, `getRolesForPermission`): the module
stands for either, so the map names both.
`overtaken` is history: what readers had fetched and not yet stored at a DEL.
The loop of a waiting reader lasts 80% of the lock's TTL.  Time being left out,
`WaitOver` says that with quick calls the holder is done by then, and that
otherwise the loop may end at any moment.

### EventSubscription

Extends `EventDelivery` by what comes before it: `Provision` (oceanchat-auth creates
the stream), and per reader `Connect`, `Create` (which takes the stream to exist),
`CreateFails` with the twelve tries of the code (`MaxRetries`, 2 in the runs), `Open`.
`LastAttempt` leads to "deaf": `onModuleInit` throws there "Fail-Fast: Let the
application crash" and catches that itself a few lines later, so the pod runs on
without reading.  `Hear`, `PublishTo` and `Restart` are the delivery's steps guarded
by that state.  `StartSpec` implements `Spec` of `EventDelivery`.

### SettingsCache

One setting; versions as in `RoleCache`, with `Missing` = 0 for no setting at all.
`Begin`, `Ask` (a step of `getOrSet`) and `Answer` are `getSettingValue`: null from
`getOrSet` is tried again up to `MaxTries`, while a null read from Redis is the text
"null", parsed and returned at once (`hit` tells the two apart).  `Upsert` and
`Invalidate` are `setSettingValue` and the DEL it does not wait for.  A `Seeder` is the
start of an auth pod: `CreateIfNotExists`, `Find`, `Mset`, `Expire`, `SeedingFails`;
`eternal` says that the cached value has no TTL, which MSET leaves so.  Whatever writes
to the source may throw before or after it has written, and then nothing is deleted.
A correction is the DEL of an update or the MSET of a seeder.  `raced`, `left` and
`blank` are history: old values that were read and not yet written when a correction
came (`OnTheWay`), old values in Redis whose correction failed, and the readers that the
source has told that there is no setting and that went on to another try.

### GatewayRequests

A request is a record of route, idempotency key and pod.  `Arrive` is the throttler
and `JwtAuthGuard`; `Claim`, `Look`, `Record`, `Drop` are the interceptor, one Redis
command each; `Fire`, `Settle`, `HalfOpen` the breaker of the route in that pod, with
`NotInfrastructure` for `errorFilter`; `Serve` the service's whole handling of the
message, which may come after `Timeout`; `Reply` the answer, `Fail` and `AnswerTo`
what the filters make of an exception.  `marker` and `record` are the two kinds of
content of one Redis key, and `lapsed` remembers keys that Redis forgot in use.
Opossum's rolling window is a choice: a failure may open a closed breaker.  Which
controller a request is for matters only to the guard, the interceptor (GET is not
guarded) and the 400 that public routes answer before the breaker, to a body that does
not validate or a refresh without token.

### Authorization

One user.  `world` holds every fact the code asks for; `Change` changes one, and
`seen` remembers the worlds there were during a call.  `canAccess` is a walk: `path`
holds the rooms it is in, `NextValidator` the order of the chain, and `Discussion`,
`Team`, `Teammate`, `Public`, `Member`, `ByType`, `AskRoles`, `AskRules` are its awaits, one each;
a discussion pushes its parent room.  A guard reads roles and rules in parallel
(`unread`), then `Decide`.  The reference (`Accessible`, `Permitted`) reads everything off
one world without any order.  The data providers (`IScopeDataProvider`, `ITeamDataProvider`,
`IRoomDataProvider`, abstract classes) are optional in the code, and at this commit no
module provides them; `provided` has instances with and without them.  `NoUser` is the
guard's refusal of a request without a user, and `extractContext` that throws.  A room has one of the four types of `IRoomContext`; a livechat has no
permission of its own, so `ByType` gives up there without asking.

### MonkeyMessages

A message type is the sequence of the kinds of its fields; the seven of the protocol
are there.  `Build` makes the object from JSON or by code, `WriteField` encodes field
after field, `Frame` and `Unframe` are the header and the length check, `ReadItem` and
`Show` decode and give JSON.  Values are the classes that the code tells apart: the
default, set, a number its format cannot hold, another numeral of zero, an enumeration
member that is foreign or unrecognized.  The peers may have different versions of the
type (a field more, a field of another wire type).  What arrives (`Arriving`) may be the
payload, its beginning, torn between two items or within one, or all of it with an item
more; any of them may come without a header or with another magic number.

### Accounts

`Create`, `ReadSetting` (one for each rule, in any order, as `Promise.all` lets them),
`Validate`, `Insert` are a registration; `Authenticate`, `LogIn` and `NoTokens` (Redis does not
keep the session, so there is no event) a login, where
`ValidatePassword` is the user service's part, `Validated` the RPC's and `HandleRequest`
the guard's; `AddDevice` the handling of a login event, once or again, in any order.
A rule of the settings is judged by a table (`Breaks`), as lengths and expressions are
data here; what matters is that a number or an expression must not be null whereas a
switch that is null is off (`Refuses`).  Hashing is left out.

## 3. Runs

| Run | Instance | Shows |
|---|---|---|
| `auth_session` | 2 devices, 5 requests, quick holders | single use of refresh tokens, rotation revokes only dead pairs, a rotated pair is not overwritten, a replayed device stays out, refinement of the registry |
| `auth_session_slow` | 1 device, 3 requests, slow holders, fairness | a lock goes only by its owner's release or by its TTL, and it does go |
| `id_generator` | 4 calls, segments of 2, 1 retry | unique ids, increasing until Redis loses the segment |
| `publisher` | 5 messages (3 critical), 2 slots, queue of 1 + 1 reserved, fairness | limits, no lost wake-up, quotas, truthful and certain answers |
| `event_delivery` | the stream, 2 pods on 1 durable consumer with 2 tries each, 1 good and 1 malformed event, faults of handling and of starting, fairness | exclusive handling; what is acked was handled; every event is handled |
| `event_fanout` | 2 gateways with a consumer each | **violation**: see findings |
| `role_cache` | 3 readers in 2 pods, 1 change; no faults, all but slow holders, or slow holders with a failing Redis; fairness | one fetch at a time, the one cause of outdated roles in Redis, every read ends |
| `settings` | 2 readers, 1 update, 1 seeder; no faults, a failing source, or all but slow holders; fairness | which outdated settings there can be in Redis and that they go, how many deletions a null needs |
| `requests` | 3 requests in 2 pods: one refresh three times, or twice with a profile read beside it; 3 fault sets; fairness | one owner per key, executions only around errors, keys freed, breakers only by services |
| `authorization` | 2 rooms (one a discussion in the other), 1 team, 4 permissions, 1 call, 1 change; fairness | exact answers, no grant that was never due, checks end |
| `messages` | all 7 types, equal and different versions, every pair of fields with every class of value, torn and overlong frames, request ids at the limit | the reader is shown what was given |
| `accounts` | 2 registrations, 3 logins, 3 rules, 1 change, 4 fault sets | exclusive names, kept rules, one entry per device that logged in |

Each run takes at most two and a half minutes; `accounts` is the largest (2.9 million
states), then `settings` (1.8 million) and `event_delivery` (0.7 million).

Bounds.  A double exchange needs a login, two refreshes and, through a replay,
a third; the logout and the second device make five requests on two devices,
enough for every pair of operations to race and for a third to find the result.
Four id calls with segments of two run through allocation, exhaustion, a
second segment, and a discarded one; one retry lets the loop go round and end.  The
publisher's instance fills both slots, the normal quota and the reserve.  Two
pods and three deliveries make every order of a redelivery and a failing first
handler; two tries instead of twelve reach the last one and the one before.  No run
cuts a counter short: ids are bounded by the calls, deliveries
by `MaxDeliver`.  In the role cache one reader holds the lock while two wait, one
beside it in its pod and one elsewhere, and the change falls between any two of
their steps; each reader's answer carries its version, so one change is enough
to tell old from new.  In the settings the seeder's creation is a second change, so
that a value can be overtaken by two.  Three requests are a first one, its repetition
elsewhere, and one that finds what they left; the profile is a route that no key
guards.  In `authorization` the discussion's room may be in the team, public, direct,
gone or, wrongly, inside the discussion: `MaxDepth` 4 lets the cycle go round twice, and
a call at that depth may only throw.  `MaxChanges` 1: what is said of grants is said of one
change (see findings).  A message has independent fields, so
two that differ from the rest show whatever one does to another.  In `accounts` a
name and a password break one rule of each kind, and two of three logins are of one
device.

Symmetry is used for devices, requests and calls in runs without liveness
properties.  Deadlock is checked except in `EventDelivery`, which comes to rest
when all events are done with; the others have an explicit final step (`Served`,
`Done`, `AllDone`, `Finished`) and any other halt is reported.

Fairness.  `AuthSession`: a request that does not crash goes on (its awaits
time out) and Redis expires keys; crashes are not fair, so they need not
happen.  `BoundedPublisher`: each task's callbacks run, since `js.publish` is
answered or times out; callers need not call.  `EventSubscription`: oceanchat-auth
comes up at last, subscribing and handling go on, NATS delivers what is ready and
times out what is not acked; nothing is assumed of publications, restarts and keys.
`RoleCache`: a reader whose pod lives goes on; expiry and changes are not assumed.
`SettingsCache`: reads, invalidations and seeding go on, as each command is answered
or times out, and a value with a TTL expires when nobody is in the middle of reading.
`GatewayRequests`: a pod handles the requests it has, a service the messages it has,
and Redis expires a marker; crashes and the expiry of responses are not assumed.
`Authorization`: what is awaited comes or throws.  `MonkeyMessages` and `Accounts` have
no liveness property.  Nothing assumes that a call succeeds.

Further configurations, one property each, that TLC finds violated in seconds and
whose traces are explained in the next section: `MCAuthSessionDoubleRedeem.cfg`,
`MCAuthSessionRemoval.cfg`, `MCAuthSessionLostLogin.cfg`, `MCSegmentIdOrder.cfg`, `MCEventRestart.cfg`,
`MCRoleCacheStale.cfg`, `MCSettingsCacheStale.cfg`, `MCGatewayRequestsRetry.cfg`, `MCAccountsLastLogin.cfg`.  Run them by
hand: `tlc -config MCEventRestart.cfg MCEventDelivery`.

## 4. Findings

- **Fan-out** (`event_fanout`).  All gateways claim the same idempotency key, so
  one of them records a revocation and the others discard it as a duplicate.
- **Double rotation** (`MCAuthSessionDoubleRedeem.cfg`).  When the 10 s run out between a
  refresh's read and its store, a second refresh with the same token also finds
  it current, and both store a pair.  The e2e test promises "Ensures Redis locks
  prevent double rotation".
- **Removal is not final** (`MCAuthSessionRemoval.cfg`).  A refresh that read the
  session before a logout, or before the family wipe on another device, stores
  it again afterwards.  For the device on which the replay happened this cannot
  happen (`ReplayedDeviceStaysOut`): the wiping request holds its lock.
- **A login lost to a refresh** (`MCAuthSessionLostLogin.cfg`).  A login, which takes no
  lock, may store its pair between a refresh's read and its store on the same device;
  the refresh stores over it.  The client that has just logged in holds a token that is
  not the one in the hash: its first refresh is taken for a replay, and every device is
  logged out.  The pair of a refresh is safe from this (`RotationKept`).
- **Ids may go back** (`MCSegmentIdOrder.cfg`).  After Redis lost the newest
  segment an older allocation still under way is installed.  Ids stay unique.
- **Restart** (`MCEventRestart.cfg`).  A crash between claiming the key and acting
  makes the redelivery a duplicate that is acked: the login is not recorded.
- **An hour, not ten seconds** (`MCRoleCacheStale.cfg`).  A reader that fetched before
  a change stores after its invalidation; the old roles stay in Redis until that
  cache's hour is over.  `StaleOnlyByRace` says that nothing else leads there.
- **Stale settings stay in the cache** (`MCSettingsCacheStale.cfg`).  `libs/settings/README.md:37`
  says of an update followed by a DEL: "It guarantees that stale data is removed from
  the cache. The next read request for this setting will be a cache miss, which triggers
  a fetch of the fresh data from the database, ensuring the application always gets the
  most up-to-date value."  Without any fault TLC refutes that (`StaleIsRemoved`) in eight
  states: a reader misses, takes the lock and fetches; an update is made and its DEL is
  done; the reader stores what it had fetched, and every read gets the old value until
  its TTL is over.  The DEL is not awaited either (`settings.service.ts:167`), its
  failure is only logged, and a pod may die before it.  What does hold is weaker, and it is all that
  `OutdatedHasCause` says: an outdated value is one of those, or the correction is still
  to come, and it has a TTL unless a pre-warming has stopped between its MSET and its
  EXPIRE (`settings.service.ts:202`), in which case it stays until the next update or pre-warming.
- **Processed twice** (`MCGatewayRequestsRetry.cfg`).  An RPC that the gateway gave up
  after 5 s is still at the service; the error frees the key, and the client's
  repetition with that key is processed as well.  The e2e test
  (`gateway-idempotency.e2e-spec.ts`) says that "identical requests with the same
  idempotency key are only processed once by the backend microservices".
- **The last login need not be the last** (`MCAccountsLastLogin.cfg`).  Two login events
  of one device handled in the other order leave the earlier time in what
  `user.entity.ts` calls "The last time this device logged in": the update does not
  compare.

Met on the way, in the models but not properties of a run:

- A reader that starts more than 60 s before oceanchat-auth stays deaf for good
  (`EventSubscription`): the exception meant to crash it is caught.
- A registration whose answer is lost has been made; the repetition is told of a
  conflict with itself.  A setnx whose reply is lost leaves a marker, so repetitions
  are conflicts for up to 60 s.  The key is not tied to a route.
- A response given again from the idempotency key has the body but not the cookie.
- `LocalAuthGuard` turns every failure behind it, a broken user service included,
  into a 401: the client is told that the password is wrong, and the breaker of
  `auth.login`, which ignores 4xx, does not see those failures.
- With changes of two facts during one check, reads of three worlds can grant what was
  due in none; changes of one fact cannot (`OneFactDoesNotGrant`).  A room inside itself is a recursion
  without end.  No route uses `RequirePermission` yet.
- Three tries are not three deletions for every null (`NullIsFromSource`): a first try that
  the source itself answers with null, before the setting was created, counts among the
  three, and two deletions do for the rest.
- The settings' README describes a circuit breaker around Redis that falls back to the
  database; the service has none, and a read throws when Redis does.
- `user.entity.ts` says "A disabled user cannot log in."; nothing reads `active`.
- Equal messages may differ in bytes: a 64-bit zero written as "0" is left out, as ""
  or "00" it is encoded.  The request id that the websocket filter takes from a
  message is not checked, so that framing the exception may itself throw.

## 5. Proofs

Each proof module extends its component, or its two, and proves, for all values of the
constants that meet the module's assumptions (disjoint "none" values, positive
sizes, critical messages among the messages, ephemeral consumers unshared, facts of
the types the code gives them):

- `AuthSessionProofs`.  Two invariants.  `StoreInv` needs no lock: a pair not yet
  stored is fresh, the session of a device was stored for that device, and *an
  exchanged pair is no longer in the hash* (`ExchangedDead`), because storing a
  pair replaces the one presented and no request stores twice.  From it:
  `TypeCorrect`, `RotationSafe`, `LockOwnership`, with slow holders or without.
  `LockInv`, under `~SlowHolders`: a refresh in its critical part holds the lock
  of its device, so what it matched is unspent until it stores, only a removal or a
  login has taken it out of the hash (`MatchedIsCurrent`), and on a device closed by a
  replay no refresh is about to store.  From it: `RotationIsKept`, `ReplayedStaysOut`
  and the refinement `RotationImplementsRegistry`.  `RegistryIsSingleUse` is proved of
  the registry alone, and `SingleUse` is a corollary of the two.  The
  assumption is needed: `MCAuthSessionDoubleRedeem.cfg` shows what happens without it.
- `SegmentIdGeneratorProofs`.  Segments allocated by MongoDB are disjoint; those on
  their way to Redis contain no id given out, and of the one in Redis exactly the
  ids up to `cur` are used.  That is inductive whatever the lock does, which
  shows that the lock is an optimisation.  `IdsUnique`, `IdsDurable`,
  `IdsIncrease`.
- `EventProofs`, the publisher.  The queue holds waiting tasks once each, the counter
  equals the cardinality of the tasks in flight (this takes the library's facts on
  finite sets), and `ProcessNext` keeps both from any intermediate queue, count
  and stages (`ProcessNextInv`), which serves `publishSafe` and `finally` alike.
  `ConcurrencyIsBounded`, `NoLostWakeup`, `QuotaIsIsolated`.
- `EventProofs`, the readers.  A pod that is acting on an event has its key, and no
  other pod is acting on it: `KeyIsExclusive`, whatever crashes or is delivered
  again, unless a handler outlives the key.  `AckedMeansHandled`, for one consumer with
  any number of pods and only the DLQ failing, needs three more facts: an event is in
  at most one pair of hands (`OneHand`), those hold what the consumer has out
  (`HandsOut`), and a key is that of an event handled or in hand (`KeyMeans`), without
  which the ack of a duplicate would lose it.  That it is one consumer is needed:
  `event_fanout` is the case of two.  `StartImplementsDelivery`: every step of
  `EventSubscription` is one of `EventDelivery` or leaves its variables alone, so
  `KeyIsExclusiveFromTheStart` is a corollary; `StartTypeCorrect` adds the variables of
  the start and that only a listening pod handles anything.
- `GetOrSetProofs`, the role cache.  `LockHeld`: whoever is under the lock is the one
  the key names, as long as the lock outlasts its holder.  That `getOrSet` keeps this is a
  lemma about its steps alone (`ReadHeld`), from which `OneFlight` follows for the roles
  and `OneFlightOfSettings` for the settings.
  `RolesAccounted`: the value in Redis *and the values on their way to it* are the
  source's or older ones that a pending change or a race explains; without the second
  half a store would break it.  Hence `OnlyRaceIsStale`.
- `GetOrSetProofs`, the settings.  `Accounted` as in the role cache, with three ways to be
  outdated in Redis and two on the way there (`Explained`, `Late`).  A correction, done or
  failed, of either kind of writer is one lemma (`Correction`): what it finds on the way
  is overtaken from then on, what it leaves in Redis is left, and what is under way for
  later ones stays so.  `Prewarmed`: a value without a TTL is a pre-warming's.  Hence
  `OutdatedIsExplained`.
  `NullsComeFromSource` says why three tries are enough, and how long: every null that
  `getOrSet` makes up takes a deletion of its own.  The invariant (`Calm`, without faults)
  is a tally against the number of deletions.  A waiting reader gives up after the
  holder has stored, so the value it misses was there and has been deleted since
  (`Paid`: the nulls so far, and one more for a reader about to get one while the value
  is gone, are at most the deletions); a null of the source's own is counted apart and
  comes once (`ToldOnce`), because it is cached or the setting has been made by then.
- `AccountsProofs`.  `NameIsExclusive` is not inductive without saying whose account is
  whose: `Registered` has each account carry the wish of a call that was answered, so
  that the answer `ok` finds it and no other.  `PolicyIsKept` needs `Judging`, the state
  between the reads: a rule read as off, or off now, is one that was not on throughout,
  so what passes the judgement breaks no rule that was (`Kept`), and nothing changes that
  while the password is hashed.  `DevicesAreFromLogins` needs `Listed`: nobody has logged
  in to an account that is only now inserted, and an update puts exactly one entry on
  the list or replaces one (`UpdatedList`, over sequences and cardinalities).
- `AuthorizationProofs`.  A check reads fact after fact while they change.  `Evidence` (for
  `canAccess`) and `GuardFits` (for the guard) say that *all it has read holds together in
  one of the worlds it has seen*, as long as these differ in one fact (`Steady`).  A read
  keeps that: if the world of now disagrees with that one, it does so in the fact just
  read, and therefore agrees with everything read before (`Switch`).  What is granted is
  then due in that world: `GrantsWereDue`, and `OneFactDoesNotGrant`, however often the
  one fact changes.  `Refused` is the other half, for a check that has seen one world:
  the path leads from parent to parent, and each validator it has passed said no
  (`Said`).  The reference, `Lineage`, is the least set closed under parents, so that the
  proof needs no induction along the path.  `AnswersAreExact`.
- `GatewayRequestsProofs`.  `Calls` ties how far an RPC is to how far its request is:
  what was answered with a client's error had no effect, and what may still have one
  belongs to a request that waits, is freeing its key after an error, or is gone.  With
  `KeyHeld` and `Recorded` (a request that succeeded has its response under the key, or
  Redis forgot it) it is inductive: `OwnersHoldTheirKey`, `SecondActNeedsError`.
  `BreakersBlameServices` is a separate invariant.
- `MonkeyMessagesProofs`.  The invariant follows the message: what `Build` made, that the
  wire holds exactly the fields passed that are no defaults, and that the reader has
  the value of each field whose item is behind it.  Two versions that agree on the
  wire type of a field number agree on its kind (an assumption, `ExchangesFit`).  Hence
  `MeaningIsKept`, for any types and versions, not only the seven.

Only model-checked: every liveness property (`LockFreed`, `CriticalIsAnswered`,
`EveryEventIsHandled`, `EveryReadEnds`, `OutdatedGoes`, `KeyFreed`, `ChecksEnd`), which is
out of the prover's reach.  Every invariant and every action property that a passing
run checks is proved.

## 6. Not modelled, and why

Password hashing, JWT signing and validation of inputs are functions without
shared state, abstracted to their outcome.  The contents of messages are left out
but for `MonkeyMessages`, which has the classes of values that the codec tells apart.
Time is left out: a timer is an action that may happen while what it
limits is still under way.  NATS, Redis, MongoDB and opossum's rolling window are
external and appear as the outcomes of calls.  The blacklist's entries expire with
their tokens, so an expired entry changes no answer.  The queries of the user
service and its profile route only read.  Updating the configuration of a stream or
a consumer that exists changes nothing that the models speak of.   The
counters of the id generator are 64 bits wide, the model's integers unbounded.

No state at all: i18n, tracing, logging, validation of environments, module wiring,
the database watcher.  Nothing calls the Monkey processor, its flag helpers,
`AsyncQueue` or the unused commands of `RedisService` at this commit; the group, message,
router and websocket applications are scaffolding.

## 7. Plan

Done: every component that keeps state or decides something.  What would add most
from here:

1. The blacklist in composition: login, revocation and guard across two gateways, once
   the shared key of `event_fanout` is resolved.
2. The Monkey processor and the websocket gateway when they get callers.
