# Formal models of the Tlon apps

TLA+ specifications of the parts of this repository whose correctness depends on the order of
things: the channel between client and ship and the session it runs in, the start-up of the
client's sync and the queue of its reads, the way of a message from the composer to its channel,
and, on the ship, the negotiation of versions between agents and the copy of a channel that a
subscriber keeps. TLC checks the models on small instances, TLAPS proves the most important
properties for every instance.

All paths below are relative to the repository.

## 1. The system

Tlon is an app (mobile, web, desktop) on top of a personal server, the *ship*. The ship runs
agents written in Hoon (`desk/app`), which hold groups, channels and messages and talk to the
agents of other ships. The client is TypeScript: it talks to its ship over HTTP, keeps a copy of
everything it shows in SQLite, and writes optimistically.

| Component | State | Operations | Interacts with |
|---|---|---|---|
| **Eyre channel client** `packages/api/src/http-api/Urbit.ts`, `fetch-event-source/` | channel id `uid`, request counter, last heard/acked event, outstanding pokes and subscriptions, the event source | `poke`, `subscribe`, `subscribeOnce`, `unsubscribe`, `eventSource` with its retries, `onmessage`, `ack`, `seamlessReset` | PUTs and one GET to the ship's channel server; calls its callers' handlers; announces the connection's status |
| **Session and reauthentication** `packages/api/src/client/urbit.ts` | the current session, its generation, the login in flight, `authEpoch` | `poke`, `scry`, `subscribe`, `unsubscribe` with a retry after a 403; `reauth` (single flight), `rotateChannel`, logout and account switch | wraps the channel client |
| **Sync queue** `packages/shared/src/store/syncQueue.ts` | pending and queued operations, number of threads | `add`, abort, `clear`, `flushPending`, `syncNext` | all background reads go through it |
| **Session action queue** `packages/shared/src/store/SessionActionQueue.ts` | queued actions, `isProcessing` | `add`, `flushPending`, session listener | runs the post actions, one at a time, while connected |
| **Post delivery** `store/postActions/`, parts of `store/sync/sync.ts` | status and draft of each row, polls per channel, verifications | send, retry, delete and edit, verify, poll, fail at the end of a sync, `markPostSent`, `addPost` | writes rows, pokes the ship, hears its events |
| **Start-up sync** `store/sync/sync.ts` | sync lock and its generation, session phase, `changesSyncedAt` | `syncStart`, `handleDiscontinuity`, `syncLatestChanges`, `handleChannelStatusChange` | reads through the sync queue, subscribes, writes the database |
| **Local database** `packages/shared/src/db/queries.ts` | about 60 tables | queries; `insertPosts` replaces optimistic rows | everybody |
| **API layer** `packages/api/src/client/*Api.ts` | none | translations of JSON | agents and stores |
| **Uploads, notes, presence** `store/storage/`, `store/notesActions.ts` | upload states; the note being edited | upload, save, publish | post delivery waits for uploads |
| **User interface** `packages/app`, `packages/ui`, `apps/*` | view state | – | the stores |
| **Bot gateway** `packages/openclaw`, `packages/hermes-tlon-adapter`, `packages/tlon-bot-e2e` | its own event source, replay cursor, pending approvals | monitor, replay after a restart, approvals | a second client of the ship |
| **Channels agents** `desk/app/channels.hoon`, `channels-server.hoon` | per channel: posts, sequence numbers, update log, pending posts, checkpoints | host: take a command, append to the log, tell subscribers; subscriber: proxy a command, apply the log, re-watch | client, and each other across ships |
| **Groups agent** `desk/app/groups.hoon` | groups, members, invites, tokens, the log | join, invite, kick, admin updates, log replication | as above |
| **Version negotiation** `desk/lib/negotiate.hoon` | own versions, heard versions, wanted watches | opens and closes watches as versions match and clash | wraps an agent |
| **Other agents** `desk/app/{chat,activity,steward,notes,buckets,verifier,contacts,presence}.hoon` | each its own | – | one event at a time |

### What is hard, and what would be correct

* *Eyre channel client.* Ids are only unique within a channel, and a reset starts them over while
  PUTs of the old channel are in flight; responses get lost; events are repeated after a
  reconnect; a `subscribe` waits for an event source that a reset may abort. Correct means: every
  answer and fact reaches whom it is for; events are handled in order and once; what callers were
  told, the registry and the ship agree; every call returns; the status tells the truth.
* *Sync queue.* Three ways for an operation to end (result, abort, clear) meet a counter of
  threads. Correct: no slot is leaked or shared, nothing waits with nobody to run it, urgent work
  goes first, every caller is answered.
* *Post delivery.* Eight writers of one row, most of which read something, wait, and then write.
  The queue dies with the app and the row does not. Correct: no message disappears or becomes
  unretryable, none that is known to be delivered is offered for another send, messages keep their
  order, and no row waits for nothing.
* *Session and reauthentication.* Requests fail with 403 together; a logout lands in the middle of
  the login they share; a repeated poke may run twice; a login that is not needed closes the
  session of those who have already logged in; an event source may outlive its account. Correct:
  one login at a time and none needless, no request under another account's session, one rotation
  of a refused channel.
* *Start-up sync.* A lock across logins; starts, probes, subscriptions and fetches that outlive
  theirs; a reset of a client that was removed starts a sync between two logins; a discontinuity
  is ignored while a sync runs; the cursor of changes is read and written by different functions. Correct: one sync at a time, each login subscribes once, no window of
  changes is skipped.
* *Channels, groups.* Posts replicated by snapshots and updates, which come in separate flows, between
  ships that upgrade, take permissions away and re-watch. Correct: a copy only goes forward and ends
  up the same as the host's.
* *Negotiation.* Both ends are upgraded, watches are kicked and refused, retry timers overlap.
  Correct: a wanted watch is open exactly while versions match; the library never goes deaf.
* *Bot gateway.* Correct: a message is handled once across restarts.

The hazards, each with its line and the properties that cover it, are listed in `PROJECT.json`.

## 2. The modules

| Module | What it is |
|---|---|
| `EyreChannel` | the channel client and the ship's channel server |
| `EventFeed` | abstract: what the channel promises the reader of its events |
| `MCEyreChannel`, `Eyre*.cfg` | its instances |
| `EyreChannel_proofs` | type correctness, the status, nothing lost, refinement of `EventFeed` |
| `EyreIds_proofs` | its other safety properties: what an id names, who is answered, the registry and the ship |
| `SyncQueue` | the sync queue |
| `MCSyncQueue` | its instance |
| `SyncQueue_proofs` | type correctness and the safety properties |
| `PostDelivery` | action queue, rows and everything that writes them |
| `MCPostDelivery`, `Post*.cfg` | its instances |
| `PostDelivery_proofs` | type correctness and the safety properties of rows |
| `Session` | the session layer: requests, logins, rotations, changes of account, and the ship's sessions |
| `MCSession` | its instance |
| `Session_proofs` | type correctness and all its safety and action properties |
| `SyncStart` | `syncStart`, the desk probe, subscriptions, discontinuities and the cursor of changes |
| `MCSyncStart` | its instance |
| `SyncStart_proofs` | type correctness and all its safety properties |
| `Negotiate` | the version negotiation library of the agents |
| `MCNegotiate`, `Negotiate*.cfg` | its instances |
| `Negotiate_proofs` | type correctness and both its safety properties |
| `ChannelLog` | a channel's host and a subscriber, the agents `channels-server` and `channels` |
| `Replica` | abstract: what a copy of a channel promises |
| `MCChannelLog` | its instance |
| `ChannelLog_proofs` | type correctness, what is pending, the refinement of `Replica` |

In all of them one action is one JavaScript handler or one stretch of an async function between
two awaits: JavaScript runs these to completion, and between them anything may happen. Operators
named "Mutant of ..." in comments are wrong variants of a definition; they are used by nothing but
the check that each property notices a plausible bug (`PROJECT.json`, "mutants").

### EyreChannel

| Model | Code |
|---|---|
| `uid`, `lastEventId`, `lastHeard`, `lastAcked`, `outPokes`, `outSubs` | the fields of `Urbit` |
| `stream` | the event source: which channel its GET is for, the `last-event-id` it will send (`resume`), the next event it will read |
| `puts`, `wire`, `taken` | a PUT whose promise is pending; the request on its way; accepted, with the response on its way. Independent, so requests are reordered and responses are lost |
| `replaced`, `fibers`, `held`, `caller`, `silent` | `subscribe` returns the id of its last replay: the PUTs its promise waits for, the id it resolved to, what the caller believes, and failures told to nobody |
| `chan`, `answer` | (external) the ship: per channel its unacknowledged events and its watches; what it did with each poke |
| `DoPoke`, `Subscribe`, `Unsubscribe` | `poke`, `subscribe`, `unsubscribe` up to the await of the PUT |
| `PutOk`, `PutOpensStream`, `PutSaysHi`, `PutFail`, `PokeTimeout` | the continuations of `sendJSONtoChannel`, its opening of the event source, the helm-hi poke, the timer of a poke |
| `StreamOpen`, `StreamBreak`, `StreamTear`, `StreamReaped`, `Rotate` | `onopen`, `onerror` and retry, a break inside an event, a 404, a reset asked for by the session |
| `SeamlessReset` | `seamlessReset`, with everything it rejects and replays |
| `Hear...` | `onmessage`, one action per kind of event |

A stream's events are numbered as in the code and `Flushed` drops what the client acknowledges,
so deduplication, resumption and acks are real. The content of a fact is the watch it belongs to.
Not modelled: `reset` and `delete` (a deliberate shutdown), `scry` and `thread` (plain requests),
`pokeNoun`.

Four constants open behaviours of the environment: `Torn` (a connection may break between the id
line and the end of an event), `LatePuts` (a PUT may re-create a channel that the ship has
reaped), `EarlyKicks` (a watch may end before the response to its PUT is in), `StaleUnsubs` (a
caller may use an id of an older channel: then `unsubscribe` drops whichever subscription has that
id by now, a risk the code's comment explains for a retry). A late PUT, an ack for instance, that re-creates a
reaped channel spares the client the 404: its event source resumes on a channel whose events are
numbered from 0 again, and the client drops them as old (`HearOld`). `EyrePokes` allows the first
three; the runs about
subscriptions close them, so what those show holds for a ship that answers a PUT before it kicks
the watch, and for callers that check their id as `subscribeOnce` does. `Torn` leads to a finding below.
`silent` is history: the calls whose replay failed after a reset, which nobody is told. The
registry then lacks what the caller believes to have; `RegistryAsTold` names this case and shows
that it is the only one.

### SyncQueue

`pending`, `queue`, `activeThreads` and the promises are the module's variables of the same names.
The queue is kept sorted by the code, so it is a set with the order `Before` (priority, clock,
batch of the flush, position in the batch – the sort is stable and `pending` is filled from the
front). `FlushPending` makes all the `syncNext` calls of a flush: `Started` is the longest prefix
of the queue that the thread limits allow. A finished operation either takes the next one or ends
its thread.

### PostDelivery

| Model | Code |
|---|---|
| `row` | deliveryStatus, draft and isDeleted (`gone`) of the optimistic row; "absent" is no row, "null" the status of a server copy |
| `copied` | the posts whose server copy is in the database |
| `queue`, `running`, `woken` | `SessionActionQueue`: pending operations, the awaited one, whether a `flushPending` is due |
| `settling` | an action's promise has settled and `_sendPost` has not continued yet |
| `verifying`, `failing`, `poll` | calls of `verifyPostDelivery`, the rows `failEnqueuedPosts` has read, the polls of `syncChannelMessageDelivery` |
| `tapped` | posts whose rendering, which `retrySendPost` tests, still says failed; `Rendered` brings it up to date |
| `removals` | calls of `deletePost` that await their action, with the row each has read |
| `restored` | (history) rows whose delivery state the rollback of a failed delete has set back |
| `Send`, `Retry`, `ClearUnsent` | `sendPost`, `retrySendPost`, `deletePost`/`deleteFailedPost` of an unsent row |
| `Remove`, `HideFailed` | `deletePost` of any other row; `deleteFailedPost` of a row the ship has numbered |
| `RemovalAcked`, `RemovalFails`, `RollBack` | the end of a delete's action and what `deletePost` writes then |
| `FlushPending`, `SendPoke`, `FinalizeFails`, `PokeAcked`, `PokeFails`, `PokeInDoubt`, `Settle` | the action from the queue to the write of its outcome |
| `Take`, `Lose`, `HostSequences` | (external) the user's ship and the host |
| `HearFact` | `markPostSent` and `handleAddPost` |
| `Poll`, `VerifyAnswered`, `VerifyWrites`, `SyncEnds`, `FailEnqueued` | the background writers; read and write are separate steps where the code awaits between them |
| `GoActive`, `GoReconnected`, `Drop`, `Restart` | the session's status, and the app being killed: all but the database is lost |

A group post comes back from its host under another id, so the copy is another row and
`deleteReplacedCachedPosts` deletes the optimistic one (`sentAt` links them and is unique on a
client). A direct message keeps its id. `Inserted` is both. The user interface offers retry for
failed rows only (`ChannelScreen.handleRetrySend`), though `retrySendPost` would take an `enqueued`
one too. It tests the row as its caller has rendered it: a second tap, before the screen is drawn
anew, queues the message once more whatever the row has become. A delete is offered for any row
that is not deleted yet, and `deletePost` reads the row afresh, so that `Remove` and `ClearUnsent`
are guarded by the row alone. When the poke of a delete fails, `RollBack` writes every column of
the row as it was read before, those of the delivery too: a message that was delivered meanwhile
may then say enqueued with no action to send it, and once a sync ends it says failed and offers a
retry. The properties hold of all other rows, and name these (`restored`); without the
exception TLC refutes `FailedIsRetryable` and `EnqueuedHasSender`. What the ship does with a delete
is not modelled, nor is the row of a group post's server copy being deleted, as no delivery state
hangs on either. `FailedIsRetryable` is precise about what "failed" means: a failed row
that has no draft any more was taken by the ship, although `isUnsentOptimisticRow` takes every
failed row for unsent. The database's writes do not fail: a
throw after `backendDeliveryCompleted` would leave the draft on a row that was sent. Taken in one
step are the row's write and the `add` of its action (`Send`), the write of "pending" and the poke
(`SendPoke`), and the read, the mark and the `add` of a delete (`Remove`); the `sequenceNum` a
rollback of a direct message writes back is not modelled. Left out so
far: edits, pins and their order, reactions and forwards. `EverySendSettles` counts a
row in doubt as settled, although on a connection that stays up nothing verifies it (the code does
so only when the channel becomes active anew) and `retrySendPost` refuses it; a comment in
`queries.ts:6303` expects a dedicated flow.

### Session

| Model | Code |
|---|---|
| `config`, `last` | `config.session`; accounts are numbered as they are configured |
| `sess` | per session: `authEpoch`, the cookie, `loggingOut`, `pendingAuth` is set; its client's channel (counted, not named), `channelOpened`, `sse` (`sseClientInitialized`), and whether an event source is open or retried (`stream`) |
| `logins` | calls of `performReauth`, each with its step and attempts |
| `req` | a call of `poke`, `pokeNoun`, `subscribe`, `subscribeOnce` or `scry` with its captured send context, where it stands, and whether it has been repeated (`again`) |
| `...Arrives`, `Grant`, `Expire`, `Reap`; `live`, `bound`, `issued`, `expiries`, `late` | (external) the ship: open sessions, channels and who created them, cookies given out, what it ended by itself; login requests that still travel after their timeout |
| `Configure`, `Reconfigure`, `RemoveClient` | `internalConfigureClient` for another account and for the same one, `internalRemoveClient` |
| `Call`, `Answered`, `Named`, `Lost` | a verb up to its send; the response and the question who we are (`getOurName`); the catch block of each verb (`Retry`), with `reauthOnce` and `rotateChannelOnce` |
| `StreamReaped`, `StreamFails`, `RotateOnce` | `seamlessReset`, as far as requests notice: after a 404 or a 500 of the event source, or a refusal |
| `CodeFetched`, `CodeFails`, `LoginAnswered`, `BackoffEnds`, `Settle` | `performReauth`: the code, the login request's answer, its retries, and its end, which releases whoever awaits it |

The ship knows a request by its cookie. A cookie it does not know makes a guest of the sender; a
channel belongs to the identity that created it and is closed with its session; a login closes the
session it arrives with. That is why a needless login is harmful (`NoNeedlessLogin`) and why a
repeated poke does not run twice (`RunsOnce`): what the first one reached is gone when the second
is sent.

The event source asks nobody which account is configured. `delete` aborts it and the PUTs of a
removed client, but not `getOurName`: a request that waits there opens an event source afterwards
(with the abort signal that `delete` has renewed), which finds the channel gone and resets it, and so
replays the subscriptions of the account that is no longer configured, once for every 404 or 500.
`AccountsStayApart` names this and shows that it is all that goes on under a replaced account:
its credentials stay, no poke, scry or new subscription is sent. `RotatesOnlyRefused` allows a
rotation after a 500, which, as `urbit.ts:763-764` says, authenticates nothing.
Not modelled: the web client without `getCode`, a login answered without a cookie,
tracked pokes, `requestJson` and `thread`, and clients injected by a resolver.

### SyncStart

| Model | Code |
|---|---|
| `client`, `gen`, `due` | whether a client is configured, the generation of the login (`session.ts`), and whether the shell's own start after it is still to come |
| `desk` | the compatibility state; `of` (history) the login that wrote it |
| `isSyncing`, `syncLockGeneration`, `subscribedGeneration` | the module variables of `sync.ts` |
| `starts` | calls of `syncStart`: the step, the generation captured, `warm` (`alreadySubscribed`), how far the two sets of subscriptions are |
| `fetches`, `cursor` | calls of `syncSince`, the `changesSyncedAt` setting |
| `forestalled` | history: logins (or times between two) in which a reset started a sync, or a sync of before the login held the lock, before the shell's own start |
| `gaps`, `missed`, `early`, `excused` | history: gaps in the event stream, those whose facts the database lacks, those that came before there was a cursor, and those that nothing under way will make good |
| `Login`, `Logout`, `ShellStart`, `RetryDeskCompatibility`, `HandleDiscontinuity`, `Foreground` | `configureClient`, `useHandleLogout`, the callers of `syncStart` and `syncSince` |
| `ProbeOk`, `ProbeGated`, `ProbeAbandoned` | `checkDeskCompatibility` after its request |
| `HighEnds`, `LowEnds`, `HighSettles`, `LowSettles` | the two phases of a start, which the subscriptions outlast |
| `FetchArrives`, `InsertChanges`, `SetChangesSyncedAt`, `FetchFails` | `syncLatestChanges` and its caller |

Time is counted in gaps: a cursor or an answer stands for all gaps before it. What the model says
about starts that outlive their login is as the code has it, and some of it is worth knowing:
after the probe nothing checks the generation, so an outlived start subscribes with the next
login's client and overwrites `subscribedGeneration` (the exception in `SubscribedOnce`); a set of
subscriptions that failed is not tried again by a recovery start, which counts as subscribed; with
no cursor a start fetches nothing, and a gap then is left to the initial sync (`early`); a gap
during a running sync is made good only if a fetch is still to be answered (`excused`).

`handleDiscontinuity` asks neither whether there is a client nor whether the shell has started: its
hook on `seamless-reset` outlives `internalRemoveClient`, so that an event source left behind
(see `Session`) may call it at any time after a first login (`HandleDiscontinuity(FALSE)`, which
loses nothing). Between two logins such a reset writes a session, takes the lock under the
generation of that time, probes nobody and writes "ok". A login that comes before this start ends finds
the lock taken: its shell's start is `busy`, and as the shell asks only once, that login does not
subscribe (unlike the comment in `sync.ts:2632-2634`, that a new login subscribes again) until
another screen starts a sync; a later discontinuity does start one, but believes that the login
has subscribed. `LockIsOwned`, `DeskIsOwn` and `SubscribedOnce` name these cases and show that they
are the only ones. The notice is shown only while the lock is free (`DeskIsOwn`), so that
`retryDeskCompatibility` never finds it taken and its `restoreNotice` for `busy` is not needed.
Not modelled: the late subscription of buckets, the desktop shell's new client in place (it does
not clear the lock), `init` and latest posts (they write the database but neither cursor nor
lock), and the session's phases.

### Negotiate

| Model | Code |
|---|---|
| `know`, `heed`, `want` | the state of the library, for one other agent (the code treats each by itself) |
| `boat` | the inner agent's open subscriptions, from `wex.bowl` |
| `sub`, `down` | (external) the watch on each version and what the other agent has sent on it |
| `InnerWatch`, `InnerLeave`, `InnerKick`, `Initiate` | `+play-card` for the inner agent's cards, `+initiate` |
| `Fact`, `FactUnrequested`, `Nack`, `Kick`, `Wake` | `on-agent` on a heed wire and `on-arvo` |
| `OnLoad`, `ResetHeed` | `on-load` with other versions expected, `%negotiate-reset` |
| `WatchArrives`, `Upgrade`, `Clog` | the same library at the other end (`on-watch`, `+ours-changed`), and gall |

`Play` and `Inflate` are pure: what is wanted, open and heard before, and after. An event is
atomic, as in gall; the inner agent may watch in the same event. Pokes are not modelled: the code
lets a poke through while versions are merely unknown, where the comment at the top says it
crashes, so there is nothing to hold. After `%negotiate-reset` the guarantees are suspended
(`resets = 0` in the properties): it forgets the versions, and neither notifies nor closes.

`told` and `forgot` are history: the last notice the inner agent was given, and that it may be out
of date. A refusal of a version that is no longer expected deletes it from `heed`
(`negotiate.hoon:716`). If it was the last one heard of that agent, `+inflate`, which notes only
agents with a key in `heed` (line 210), says nothing when a later upgrade expects the protocol
again: the inner agent was told that versions match, they do not any more, and no notice follows,
although the comment at the top promises one "whenever we start to match or stop matching".
`OpenExactlyWhileMatched` excludes this case by name and shows that it is the only one.

### ChannelLog

| Model | Code |
|---|---|
| `log`, `posts`, `total` | the host's `log`, `posts` and `count`. A time is a position in the log; a post's id is the time of its creation |
| `allowed`, `news` | what the group says of the subscriber's permission, and its telling the subscriber's agent |
| `copy`, `count`, `load`, `pending`, `debounce` | the subscriber's `posts`, `count`, `load.net`, `pending` and `debounce` |
| `flow` | per wire: the watch (`wex.bowl`), the retry timer of `lib/subscriber`, and what is on its way |
| `rolling` | the rest of the log that `+ca-apply-logs` is rolling through, in one event (`Idle` keeps the others out) |
| `HostPosts`, `HostRevises`, `HostTakes` | `+ca-c-post`, `+ca-c-reply`, `+ca-update`; a command is taken, refused, or blocked by a hook after it was given its number |
| `WatchArrives`, `Revoke`, `Restore`, `Clog` | `+ca-watch-updates`, `+ca-watch-checkpoint(-page)`, `+ca-recheck` of both agents, gall's kick |
| `Join`, `Leave`, `OnLoad`, `Recheck`, `Wake`, `Send` | `+ca-join`, `+ca-leave`, `+inflate-io`, `+ca-recheck`, the timer, `+ca-a-channel` with `+ca-send-command` |
| `TakeLogs`, `Roll`, `TakeCheckpoint`, `TakeBacklog`, `TakeKick`, `TakeNack` | `+ca-take-update`, `+ca-take-checkpoint`, `+ca-take-backlog` and what they call |
| `snap`, `heard`, `lost`, `refused`, `stalled` | history: how far the checkpoint and the updates went, the posts that may differ, refused commands, a watch given up |

The host keeps one log for all; a subscriber fetches the newest page of posts (the checkpoint), and
then, at the same time, watches the updates after its newest post and fetches the older posts (the
backlog). It keeps no position in the log: after a kick it watches again from its newest post, hears
updates twice, and merges by revision. `Replica` is what it promises all the same: no post goes back,
and none is ahead of the host's. It ends up the same as the host's (`SameWhenQuiet`) but for
what the histories name, each read off the code:

* an update of an older post that overtakes the backlog is ignored: `window`, for which it would be
  kept (`sur/channels.hoon:49-57`), is never filled. The copy of that post stays behind until it is
  updated again, though `sur/channels.hoon:37` says "should be identical between ships"; and the
  backlog's count may be older than the copy's, which it replaces (`channels.hoon:2385`);
* an older reply that the backlog brings replaces a newer one: `+ca-apply-reply` takes what arrives later
  (`channels.hoon:2698-2709`), and the update that brought the newer one does not come again;
* a fetch of the backlog that is kicked is begun again from the oldest post there is by then
  (`+ca-sync-backlog`, `channels.hoon:2400-2410`). If an update brought an edited older post
  meanwhile, the posts between it and where the fetch was to end are not fetched (`Skipped`);
* an upgrade gives up a fetch of the checkpoint or the backlog. That of the backlog is not asked for
  again. That of the checkpoint is meant to be kept, but the pattern (`channels.hoon:855`) does not
  match a path that has its end, and `safe-watch` then finds the watch it has just left in the bowl:
  the subscriber has no posts and watches nothing, until it is made to join again;
* a refused watch is only logged. If the permission's return is heard while the watch that will be
  refused is still out, `+ca-recheck` finds it there, and nothing watches after the refusal;
* a blocked command has taken a number of the host's count (`channels-server.hoon:1093`).

Replies are merged by order of arrival, not by revision, and so they are left out of `Replica`;
`SameWhenQuiet` includes them: heard twice or late, an old one is followed by the newest, unless it
came with the backlog.
Not modelled: the channel's registers (order, view, sort, permissions, meta), the host's own copy,
creation, several replies of a post, the repair of sequence numbers and tombstones, and a hook
that changes a post or blocks another ship's.

## 3. The runs

| Run | Instance | Distinct states | Shows |
|---|---|---|---|
| `eyre_subs` | two subscribers, one of them one-shot; two channels, two requests on each; a fact, a quit, a failed PUT | 1,381,000 | types; facts go to their handler; the registry is what callers were told, one entry per subscription; registry and ship agree |
| `eyre_pokes` | two pokes, three channels; every event acked, a torn connection, PUTs to reaped channels | 2,856,000 | no poke gets another's answer; the status is true |
| `eyre_live` | one subscriber through three channels, fairness | 102,000 | `EventFeed` is implemented; nothing unheard is dropped; subscribe returns and the stream catches up |
| `sync_queue` | four operations of three priorities, two threads, fairness | 553,000 | all properties of the queue |
| `post_safety` | a group post and a direct message, two actions, or three for one post on a steady connection; a drop, a restart | 4,153,000 | all safety properties of rows |
| `post_live` | one post, two actions, a drop, a restart, a second sync, fairness | 641,000 | no row stays in flight for ever |
| `session` | two requests of any of the five kinds, two accounts one after the other, two login attempts, one session, channel or event source ended by the ship | 1,811,000 | one login at a time, none needless; pokes run once; accounts stay apart; one rotation of a refused channel |
| `sync_start` | three starts, two logins, a gap, resets of a removed client at any time, one fetch at a time | 6,178,000 | the lock, the desk's verdict, one subscription per login, the cursor, gaps are fetched |
| `negotiate` | two protocols of two versions, one wire; an upgrade of the other end, two upgrades or resets of this one, a kick; fairness | 649,000 | open exactly while matched; the inner agent notified; never deaf; the versions are heard in the end |
| `channel_log` | three updates, pages of one post, a message sent twice, one fault: a kick, a revocation, an upgrade or a leave; fairness | 800,000 | the copy goes forward (`Replica`), ends up the same, catches up; what is pending is |
| `torn_event`, `wanted_opens` | as small as the case allows | – | the findings of section 5 |

**Bounds.** `MaxUid`, `MaxId`, `MaxSends`, `MaxNow`, `PollTries`, the fields of `Budget`, and the
`Max...` constants of `Session`, `SyncStart`, `Negotiate` and `ChannelLog` bound counters that the code does not
bound (or, for the polls, bounds at 20; `MaxAttempts` is `MAX_LOGIN_ATTEMPTS`, 3). Why these are
enough:

* A stale id needs two channels. A third one (`eyre_pokes`, `eyre_live`) lets a request outlive
  two resets. Two subscribers are needed for an id to change hands, two pokes for an answer to.
* One failed PUT (and, in `eyre_pokes`, any number that fail because their channel is gone), one quit and one broken connection each meet every other step; a second of each
  repeats a step from a state that is already reached.
* Two threads are the smallest number for which a low priority leaves one free; with four
  operations the queue is non-empty while both are taken. Two operations of equal priority make
  the sort's stability matter.
* Two actions are two messages (order), a message and its retry (an older and a newer attempt at
  one row), or a message and its delete. Three (`LastForOnePost`) are a message and both taps of a
  retry, or a retry that a delete reads and rolls back. Three actions for both posts pass as well,
  without a lost connection (25,700,000 states). The run's two posts cover both kinds of channel. A single poll is the last
  one and the only one that may strand a row; earlier ones differ only in being followed by more.
* Two requests are what fails together, or joins another's login; two accounts what a change
  needs. One expiry is enough for a 403, a 404 or 500 of the event source, a guest, or a login that finds its session gone, since a
  login also ends the session it arrives with. Two attempts make a second login request overlap
  the first one's late arrival.
* Three starts are one that outlives its login and, in the next login, one that subscribes and one
  that recovers. One gap can fall in every step of them and of a fetch. With two starts
  and two fetches it passes too, with two gaps in one login (5,300,000 states) or one gap in two
  (7,000,000).
* Two protocols are needed for versions to be heard in different orders, and two upgrades of this
  end for a protocol to be dropped and expected again. One wire suffices, as the
  library treats those of one agent alike.
* Three updates are a post of the backlog, one of the checkpoint, and one that overtakes the
  backlog, or a post, its revision and its deletion. What the proof of `SameWhenQuiet` brought to
  light needs four or five: a reply and its edit around a backlog, and a backlog begun again too
  low. With four updates and one fault (1,150,000 states), or also pages of two posts and a message
  (10,600,000 states), its invariants `IInv` and `SInv` were checked and hold.

The proofs below hold for any number of each.

`CHECK_DEADLOCK FALSE` is set everywhere: when the bounds are used up and everything has settled
the system may stop.

**Fairness.** `EyreChannel`: requests arrive or fail, fetches end, timers fire, `fetchEventSource`
is retried until it gets an answer, and the bytes that came are read. Nothing is assumed of
agents or callers. `SyncQueue`: microtasks run, and operations end – they are fetches with timeouts and
bounded retries. `PostDelivery`: due calls run, uploads and pokes end (both have timeouts), polls
go on, the connection is retried (`WF(GoUp)`), and the *first* sync after a start ends. Nothing is
assumed of the ships, the user, or later syncs. `Negotiate`: the network delivers, the other ship
answers, timers fire. `ChannelLog`: the same, and commands and news are handled. All fairness is weak. `Session` and `SyncStart` have safety properties only.

## 4. What is proved

`ConstantsAssumption` (and the three assumptions of `SyncQueue`) type the constants. Nothing else
is assumed: the theorems hold for any sets of posts, subscribers, pokes and operations and for all
bounds, none of which need be finite except `Sub` and `Op`.

* **`SyncQueue_proofs`**: `[]TypeOK`, `[]SlotsAreThreads`, `[][StartsAreDue]`: what starts is
  awaited, and nothing more urgent waits. `SlotsAreThreads` is about a cardinality and needs that an operation is in at
  most one of pending, queue and running (`OnePlace`); `StartsAreDue` needs that what waits in
  the queue is awaited (`AwaitedUntilStarted`), since abort and clear settle and remove in one step.
* **`EyreChannel_proofs`**: `[]TypeOK`; `[]StatusIsTrue`, from `Current`: an event source is always
  that of the current channel, because `SeamlessReset` aborts it; `[]NothingLostUnheard`, under
  `Torn = FALSE`, and `FeedSpec`, under `LatePuts = FALSE` as well, since a channel that is created
  anew reuses its event ids. The invariant `FeedInv` says where knowledge of events is
  allowed to be: acks on the wire carry ids that were handled, the stream's `last-event-id` was
  handled, and a channel not yet used has no events. So whatever the ship drops was handled, which
  makes the next event the one the feed expects: `FeedCorrect` maps every step of the channel to
  a step of `EventFeed` or to none.
* **`EyreIds_proofs`**: the other four invariants of `EyreChannel`, along one line. `NumberInv`: ids
  are given out in order on each channel (`IdsInOrder`), each to one request (`OneRequestPerId`),
  wherever that request may be: on the wire, at the ship, in an event, registered or pending; the
  client registers nothing of an older channel (`OnCurrent`), and a channel holds and hears of its
  own requests only (`AtHome`). It is kept by any step that is a `Sends` of requests with `NextIds`,
  and every action is shown to be one (`StepSends`) but `SeamlessReset`, which numbers the replays
  by their rank. So the entry that an event's id finds is the request the event is about
  (`ListenerIsMine`, `PokeAnsweredIsMine`), and `[]FactsReachTheirHandler` follows, with nothing
  assumed of the network, the ship or the callers. `[]AnswersAreMine` needs in addition that a poke
  is sent once, and that every answer in a log is what the ship did (`PokeInv`); again nothing is
  assumed.
  `[]RegistryAsTold` rests on `Entries`: the entry of a subscriber belongs to the subscribe call
  that still waits for it, or to one that has returned its id; all other PUTs of that call have
  been replaced, and what they end with is ignored. It assumes `EarlyKicks` and `StaleUnsubs` to
  be FALSE. `[]ShipAgrees` rests on `EntriesWatched` (an entry's request is on the wire, watched, or
  its end is logged where the client has yet to hear it), `OnItsWay` (while it is on the wire its
  PUT is pending) and `UnsubsGone` (an unsubscribe under way names no entry, now or later). It assumes `Torn`,
  `LatePuts` and `StaleUnsubs` to be FALSE. None of these five assumptions can be dropped: with any
  one of them reversed TLC refutes the property.
* **`PostDelivery_proofs`**: `[]TypeOK`, `[]NothingVanishes`, `[]FailedIsRetryable`,
  `[]EnqueuedHasSender`, `[]AckedInOrder`. None is inductive alone. `Evidence` says that
  what the app knows about the ship is true of it and stays true: an acknowledged attempt was
  taken, an answered verification and a received post were sequenced. `DraftGoneForGood`: a row
  without draft is a message the ship has. `AckedHasNoDraft`: after an acknowledgement the draft
  is gone, and no write but the first ever sets one, so late writes of "failed" are harmless.
  `EnqueuedIsUnderway` sharpens `EnqueuedHasSender`: the action of an enqueued row has not poked
  yet, or has failed and will write so; otherwise the row is a retry that waits in the queue. Each
  of the last three excepts `restored` rows; what a `deletePost` holds to roll back to is in the
  invariant with the rows. The order has an invariant of its own, `OrderInv`: the action at work is
  older than all that wait (`OldestFirst`), an attempt is taken at most once (`TakenOnce`), and
  what is acknowledged or may still be is in order in the log (`LogOrdered`).

* **`Session_proofs`**: `[]TypeOK`, `[]OneLogin`, `[]NoNeedlessLogin`, `[]RunsOnce`,
  `[][AccountsStayApart]`, `[][RotatesOnlyRefused]`. The invariant `IInv` is about what a request
  or a login carries: it was true when it was sent, and it has only aged since. `Aged`: its epoch
  and channel are at most the session's. `Owned`: its cookie was given out, to its session.
  `Evidence`: a request that was refused, or found to be a guest's, while the epoch has not moved,
  proves that its cookie is dead, and dead cookies stay dead; this makes the login needed. `Spent`:
  what a poke that is to be repeated reached is closed. `LoginOK` says the same of logins and
  `ShipOK` of cookies and channels.

* **`Negotiate_proofs`**: `[]TypeOK`, `[]NeverStopsListening`, `[]OpenExactlyWhileMatched`. The
  first needs `EndsAreSaid`: a version subscription that has ended was ended by a kick or a refusal, and
  that message is still to come, so that it sets the timer. The second rests on `AskingKeepsMatch`: to ask
  for a version of which nothing is known does not change whether versions match, and so what
  `+inflate` and `+play-card` open and close, by the versions before they ask, is right after. The
  notices need that an agent with nothing in `heed` was told of no match (`NoticeOK`).
* **`SyncStart_proofs`**: `[]TypeOK`, `[]LockIsOwned`, `[]DeskIsOwn`, `[]SubscribedOnce`,
  `[]CursorIsSound`, `[]GapsAreFetched`. Half of the invariant (`StartsInv`) is about what a start has
  established: one that skips the subscriptions and the marker imply that a start of the same login
  has tried to subscribe (`Tried`), which stays true since a start's generation does not change, or
  that a late reset has forestalled it (`Had`); a login whose shell has called has had one of
  these, is shown the notice, or has a start that will subscribe and still probes (`Cold`); a set that is up without the marker means that an outlived start
  overwrote it (`Overwritten`). The other half (`FetchesInv`) says of each fetch that what was missed
  when it began, it will bring if it belongs to the login (`FetchOK`); hence it may set the
  cursor to its own beginning when it is done. The halves meet in `Probing`: a gap that no fetch
  brings is owed to a start that has not fetched yet.
* **`ChannelLog_proofs`**: `[]TypeOK`, `[]PendingIsTrue`, `ReplicaSpec`, `[]SameWhenQuiet`. One half of the invariant
  (`LogOK`, `CopyOK`, `Grounded`) says that the log, the copy and whatever is on its way are not
  ahead of the host's posts; the host goes forward, so that it stays true of a fact however
  late it arrives, and merging two versions that are not ahead of a third gives one that is not
  either. The other half (`Ordered`) is about what is skipped: up to `Reach`, the latest update or
  snapshot the subscriber has come to, it may hold any post, beyond it none; it asks for nothing later (`Bounded`);
  of the updates on their way each continues what it has or follows the one before it
  (`RollOK`, `StreamOK`), and while it watches the last one of the log is among them
  (`TipOK`). Hence the update that creates a post finds it absent, and clears its message.

  `[]SameWhenQuiet` needs a second invariant, `SInv`, which says what the copy lacks and where it
  will come from. `Told`: where a version falls short of the host's, in its revision, reactions,
  reply, or not being deleted yet, an update still to come says it. This holds of every entry of
  the log, with the entries after it; of every snapshot, with the entries made since; and of every
  post of the copy, with the updates that are on their way or beyond `Reach` (`Coming`), unless it
  is in `lost`. `Whole` says that the updates on their way leave nothing out once they have begun,
  so that an old one heard again is followed by all that came after it. `Covered`: a post of the
  host that the copy does not have is one the backlog's fetch will bring (`Fetches`), and `PageOK`
  is why: a checkpoint holds the newest posts. `Counted` says the same of the count. `Phased` and `Shapely` order the fetches:
  nothing else is open while the checkpoint is. When all is quiet, nothing is to come and nothing
  is fetched, and what is left is equality.

  Two of the ways in which a post is lost came out of this proof: the overwritten reply and the
  skipped posts (`ChannelLog` in section 2) need four or five updates, more than the run has.

Every safety property a passing run checks is proved. Only model-checked are the liveness properties,
`NeverStuck`, `EveryAddSettles`, `EverySendSettles`, `HearsInTheEnd` and `CatchesUp`: fairness and
`ENABLED` are out of the prover's reach.

## 5. Where code and comments disagree

Each is a run that TLC must find violated; the quotations are in `PROJECT.json`.

1. `torn_event`: an event's id is recorded at its id line. If the connection breaks before the empty
   line, the retry claims to have received an event that was never handled.
2. `wanted_opens`: a watch is wanted and waits for its versions; an upgrade adds a protocol to those
   expected, and nothing asks for its version (`+inflate` asks only if something was open). The
   watch never opens, though both ends agree. Comments say that changing the library's arguments
   suffices.

## 6. Not modelled, and why

The API layer, the queries outside delivery, and the user interface have no protocol. Crypto, media
and push notifications are libraries or services. The other Hoon agents and the bot gateway are of
interest and are planned below.

## 7. Plan

In this order, the most consequential first; an asterisk marks what exists.

1. `EyreChannel`* with `EventFeed`*, `SyncQueue`*, `PostDelivery`*, and their proofs*.
2. `Session`* and its proofs*.
3. `SyncStart`*, with the cursor of changes*. `Negotiate`*. Their proofs*.
4. `PostDelivery`: the delete path, with its rollback against writes in between*, and a retry from
   a stale rendering*. The edit path, whose rollback is alike.
5. `ChannelLog`* with `Replica`*, and its proofs*; `GroupLog`, for groups.
6. `BotCatchup`: handled-once across restarts.
7. Proofs: the id invariant of `EyreChannel`, from which its other safety properties follow*;
   `SameWhenQuiet`*.

Runs are kept few: a new module gets one run for safety and liveness together, or takes the place
of a smaller one.
