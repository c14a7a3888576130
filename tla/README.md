# Homl, verified

Homl is a self-hosted journal: a Go REST API on MySQL and Redis
(`homl-web/src`) and a Flutter client (`homl-ui/lib`) that goes on working
while the server is out of reach. Three things in it are hard. On the device,
writes wait in an outbox, refer to one another by temporary ids, and are
merged with what other devices wrote meanwhile. In Redis, a session is nine
kinds of key that requests read and write in separate commands, while answers
get lost. In MySQL, a write is validated against rows nobody locks. This
directory models the three.

## The system

| Component | State | Operations | Talks to |
| --- | --- | --- | --- |
| Outbox (`data/sync/outbox.dart`) | the waiting ops, the next temporary id, two id mappings, the op being sent | create, update, delete (events, tags, categories, groups), nextToSend, complete, park, abortSend, retryParked, discard, forget | repositories (writes), sync engine, local store (persisted after each change), session (forget) |
| Sync engine (`data/sync/sync_engine.dart`) | the sync under way and the server as it read it | read the server, check stamps, send, merge, settle, reload, save | outbox, API, saved copies |
| Repositories (`data/repositories`) | none | writes: straight to the server or into the outbox; reads | API, outbox, saved copies |
| Projection (`data/sync/projection.dart`) | none | the saved copy with the outbox applied | screens |
| Local store, conditional reads (`data/store`) | sealed entries: events, categories, settings, outbox, ETags | save, load, wipe | repositories, engine |
| Api session, reachability (`data/repositories/api.dart`) | access token, refresh in flight, online/offline, probe | refresh, end of session, probe, unlock offline | server, engine (online starts a sync) |
| Offline PIN (`helpers/pin_verifier.dart`) | salted check, failures | verify, wipe | session |
| Events service and store (Go) | Events, EventsTags | create by clientId, update, delete, search | MySQL |
| Tags, groups, categories (Go) | Tags, TagGroups, Categories | create, move, link, delete, hand over | MySQL |
| Sessions (Go) | Redis: access, refresh, rotation and predecessor keys, the user's index, device sessions | login, refresh, logout, list, revoke one, revoke the others, change of password, deletion | Redis, the device's answer |
| PIN, challenge, reset codes (Go) | the factor in the user's row; code, attempts, cooldown in Redis | check, count, consume, redeem, delete | MySQL, Redis, mail |
| Encryption (Go) | the flag, the generation, how every row is stored | migrate, purge | MySQL, the flag read by each request |
| Mail, HTTP layer, crypto, configuration | queue, limits | — | — |

What makes each of them correct:

* **Outbox**: nothing is sent before what it needs, no temporary id names two
  things, no change is lost by folding, by an answer that comes late, by a
  restart, or left pointing at an id that no longer is.
* **Sync engine with the events store**: an event is never there twice, a
  user's edit arrives, another device's survives where it does not contend,
  a deletion removes only what was seen, and everything settles.
* **Sessions**: a token is exchanged by one request at a time and dies for
  good; who is signed out stays out; who is not keeps a token that refreshes,
  whatever answer was lost; the list shows every device.
* **PIN and codes**: no more guesses than the limit, a challenge and a code
  that were spent pass nothing that reads them afterwards, a mailed code works,
  nothing is left of a deleted account.
* **Tags, events**: a synonym has a main tag of its category that is no
  synonym, a group only main tags of its category; an event is found by every
  name its tags go by and by its dates; racing replays answer with one row.
* **Encryption**: every row is stored the way the flag says, and a migration
  changes the whole dataset or refuses.
* **Local store**: a 304 is never answered with a copy of another read.
* **Reachability**: while offline in the foreground, a probe is always coming.

## Modules

| Module | Models | Role |
| --- | --- | --- |
| `Outbox` | `outbox.dart`, with the guards of `_send`/`_onRefusal`, the ids and bodies the repositories give, `endSession`/`purge`/`changeServer` | the queue alone: the server is any answer |
| `OutboxProofs` | | theorems on `Outbox`: types, order, the op being sent, temporary ids, cascades, targets and bases |
| `EventSync` | `sync_engine.dart` for events, `events.repository.dart` offline, `application/event.go` and `persistence/event.go`, the saved copy, another device | composes with `Outbox` (it EXTENDS it and conjoins its actions), and implements it |
| `EventSyncProofs` | | `EventSync` is typed, every step of it is one of `Outbox`, and what it leaves to other devices |
| `EventCopiesProofs` | | theorems on `EventSync`: every event on the server once, every edit arrives |
| `TokenLife` | the promise about one refresh token (`docs/auth-flows.md`) | abstract specification, implemented by `Sessions` |
| `Sessions` | `persistence/user.go` and `device_session.go` with the service and handlers above them, and the device's side of the answers | Redis, command by command |
| `SessionsProofs` | | theorems on `Sessions`, the refinement of `TokenLife` among them |
| `SessionsDevicesProofs` | | theorems on `Sessions` as the devices know them |
| `Credentials` | `application/user.go` over `persistence/user.go`: PIN, challenge, factor, reset code | one action per statement or command |
| `CredentialsProofs` | | theorems on `Credentials`: every property its run checks |
| `Library` | `application/{tag,tag_group,category,event,e2ee}.go` over `persistence/`, the flag middleware | validation and transaction apart |
| `LibraryProofs` | | theorems on `Library`: references, one row per creation, one mode |
| `LibraryTagsProofs` | | theorems on `Library`: synonyms, groups, date tags |
| `MCOutbox`, `MCEventSync`, `MCSessions`, `MCCredentials`, `MCLibrary` | | values of the constants for TLC |

The definitions under a comment that begins with "Variant" are slips the code
could have had; each breaks a property.

### Outbox

`ops` is the list of the code as a function from tickets to ops: the list is
appended to, filtered and edited in place, so the order of tickets is its
order; the ticket stands for the op's id too. A body keeps what the outbox
reads of it: temporary or server ids in `tags` (`tagsId`, `members`,
`idParentTag`) and `category`, and `write`, the number of the write whose text
it carries. `held` is the engine's copy of the op between `nextToSend` and
`complete`/`park`; `sending` is the mark of the outbox, which `forget` clears
without stopping the engine. `shown` is what screens hold: they keep an id
across completions, and after a restart show what the saved copy has, without
what a waiting deletion is about (`Hidden`).
`_locked` serialises the outbox's own operations, so each is one action.

| Action | Code |
| --- | --- |
| `Create` | `createTag/Event/Category/Group`: a temporary id, `_add` |
| `Update` | `_update`: fold into the first op that may carry it, or `_add` |
| `Delete` | `deleteEvent` (drops everything waiting of the event), `_delete` (drops its waiting edits) |
| `Take` | `nextToSend` |
| `Completes`, `CompleteUnsaved` | `complete` with `_rewrite`; the store refusing |
| `HoldBack`, `ParkStale` | `park` for a refusal or the engine's check; for the stamps |
| `Abort`, `RetryParked`, `Discard` | `abortSend`, `retryParked`, `discard` |
| `Restart`, `EndSession` | the process killed; `forget` with the store kept or wiped |

`park` and `discard` walk the list with a set of ids that grows; the model
states the set of tickets they reach (`GoesWith`), which the walk computes.
`parkAll` and `discardAll` have no caller and are left out. `ParkStale` parks
any waiting op: stamps are not modelled.

### EventSync

An event is a value per merged field. `text` has what each write carries,
`server` the rows with their clientId, `origin` which event an id stands for,
`saved` the copy on the device, `form` the edit form open, as it was filled,
`fresh` the engine's view, `wire` the one request and its answer. A form takes
the event's fields once, when it opens, and `UpdateEvent` takes the base when it
is saved: `HeldForms` says whether a sync may come in between. `SyncsAsOutbox`
is the refinement: the engine drives the outbox only as `Outbox` allows, so what
is proved of `Outbox` holds here. `wanted` and `unwanted` record what the user
asked for, and are read by properties, never by the code's actions (but for what
a screen shows of an event sent and not yet saved).

| Action | Code |
| --- | --- |
| `OpenForm` | `EditEventPage` and `InsertCubit` filled with the event |
| `CreateEvent`, `UpdateEvent`, `DeleteEvent` | the repository's queued writes, with `_serverCopy` as base; a creation possibly after a direct POST without answer |
| `ReadServer`, `TakeNext`, `EndSync` | `_cycle`, `_readServer`, `_saveSnapshot` |
| `SendWrite`, `SendDeletion`, `SettleDeletion` | `_createEvent`, `_updateEvent`, `_deleteEvent` up to the request |
| `ServePost`, `ServeChange` | the server's handlers, each one transaction |
| `TakeAnswer`, `CreateAgain` | the rest of the three: `fresh` and `complete`; 404 on an edit |
| `GiveUp`, `Killed` | no answer; the app killed |
| `OtherEdit`, `OtherDelete` | another device, online |

Not in it: refusals, parks, discards, sessions (in `Outbox`), tags of events,
direct writes that succeed, pulls outside a sync (a form open across one is
stale in the same way), the conflict counts. A
request the engine gave up on is served before the device's next one, or
never.

### Sessions

The two uuids of a pair are minted together and know each other, so a pair is
a number; a device session is named by the pair it was opened with. `at`,
`rt`, `rot`, `prev`, `sid`, `dev`, `devs` are the keys; `accIdx` and `refIdx`
the two kinds of member of `auth:user:<id>`. `h` is what each request is at
and has read: a command sees Redis as it is, and a request what it read
earlier. `hold` is the token a device keeps. The last seven variables record
what happened and are read by properties only, but for `line`, by which
`Touched` tells whether two requests meet.

| Action | Code |
| --- | --- |
| `Login`, `Refresh`, `Logout`, ... | the request arrives; `Admitted` is the token middleware |
| `Look`, `Claim`, `Replay`, `Unlink`, `Record` | `retireRefresh`, `RotateSession` |
| `CreateAuth`, `CarrySession`, `WriteSession` | `CreateAuth`, `carrySession`, `writeSession` |
| `GetPair`, `DelPair`, `DropLink`, `DropPredecessor`, `EndSession` | `revokeSession`, `dropPredecessor`, `endSession` |
| `Who`, `Val` | `SessionOfAccess`, `RevokeSessionByAccess` |
| `Ids`, `Visit`, `Exists`, `Forget`, `Current`, `Pick`, `OthersDone` | `ListSessions`, `RevokeOtherSessions`, `RevokeSession` |
| `Members`, `Devices`, `RevokeAllSessions`, `Erase` | `RevokeAllSessions`, `Delete` |
| `Abandon`, `Fail` | the answer lost or timed out; the request stopped after a command |

`Life == INSTANCE TokenLife` maps each pair to its stage: `issued`, `rt` and
`rot` give fresh, live and pending, and a request between taking the token and
naming its successor makes it claimed. `TokensLiveOnce` is the refinement:
every step of `Sessions` is a step of `TokenLife` or a stutter.

### Credentials

`row` is the account in `Users`, `code`, `attempts` and `cooldown` the keys
`pwdreset:*`, `ttl` whose time to live the attempts have: those of the stored
code, of an older one (its successor's store stopped half way), or none (an
`INCR` made the key). `Expire` lets the attempts of the stored code go after the
code, and older ones at any time. Secrets are numbers, compared. A request goes
from one statement to the next (`w[r].pc`), and `Stop` ends it anywhere. `used`
and `redeemed` record what was consumed, at the statement that consumes it, and
`born` what had been when a request read its challenge or compared its code.
`Mixes` keeps the factor and the reset code in separate behaviours: they share
no state but the account's deletion, which both mixes have. The refresh that
passes goes on as `Sessions!Refresh`.

### Library

A name is every spelling with one title case, a row's `mode` how its text is
stored. `AskX` is the request up to its transaction: the flag the middleware
read, the validation against the rows of that moment, the date tags looked up.
The transaction (`CreateTag`, `UpdateEventWithTags`, `Migrate`, ...) runs on
the rows as they are when it commits, with the unique and foreign keys as its
guards; where they refuse, `Abort`. A migration is three steps: it arrives, its
transaction compares the ids in its snapshot (`CheckIds`), and `Migrate`
rewrites the rows as they are by then. In between it holds the user's row alone
(`UserLocked`), for which new categories and events, purges and other
migrations wait, and new tags and groups do not. The deletions validate inside one
transaction, so each is one step. `Replay`, `Duplicate` and `FindAgain` are
the three ways a create meets its `clientId`. `GetEvents`, `GetTagUsage` and
`GetCategoryUsage` are the reads, as functions of the state. A deletion tied
to `deleteEvents` deletes every event tagged, as the SQL does. What goes with a
deleted tag (`CascadeTags`) is stated as the least set closed under synonyms,
which the cascading foreign key computes. `stale` are the workers whose
request was validated before tags or groups were rearranged; one that commits
nonetheless sets `crossed`. `overlooked` says that a migration committed past a
tag or a group it did not know of.

Days are numbers, `DaysPerMonth`, `MonthsPerYear` and `MaxPeriodYears` shrink
the calendar; the arithmetic is the code's.

## Runs

A `violation` run shows a statement of the code's comments or docs that the
code does not keep; the statement is quoted in `PROJECT.json`.

| Run | Question | Bounds |
| --- | --- | --- |
| `Outbox_queue` | the queue's invariants for all four kinds of thing, their chains and cascades | 3 writes, 1 restart/end/retry |
| `Outbox_live` | every waiting op is settled | 2 writes, storage fails, sessions end mid-send |
| `EventSync_others` | what a sync may delete; that it drives the outbox as `Outbox` allows | 2 writes, 2 elsewhere between syncs, 1 restart, lost answers, forms held |
| `EventSync_merge` | what a sync may change; one event, one row | 3 writes to an event the server had, 2 elsewhere between syncs, 1 restart, lost answers |
| `EventSync_drain` | the queue empties | 2 writes, 2 elsewhere at any time, lost answers, forms held |
| `EventSync_policy` | every edit arrives, merges included | 3 writes, 2 elsewhere between syncs, no lost answer |
| `EventSync_replay` | violated: an edit folded into a creation already made is lost | 2 writes, lost answers |
| `Sessions_devices` | safety of the sessions, and the refinement of `TokenLife` | 2 devices, 2 requests at a time, 3 pairs, 1 fault |
| `Sessions_live` | a device that goes on trying is served | 1 device, 2 requests at a time, 5 pairs, 1 fault |
| `Credentials_factors` | the limits, and what a spent challenge or code still passes | 2 requests at a time, 2 tries, 3 challenges, 3 codes |
| `Library_races` | the rows' invariants under racing writes | 3 requests, 2 at a time, 3 starting libraries, 8 mixes of requests |
| `Library_groups` | violated: no user with a tag group can turn encryption on or off | one migration |

**Outbox, EventSync.** Three writes are what the hard cases take: a creation,
something that needs it, and a change that may fold past it; a creation, its
request in flight and a change of it; a chain of three things. The queue has no
other counter: a longer one repeats these with more ops in between, and order,
the invariant most sensitive to length, is proved for every length. One event
and two fields meet every case of the merge (mine only, theirs only, both,
neither). `FirstFree` and `Recreations` keep the ids the server gives finite
and apart from those it starts with. Three writes to one event are one sent,
one waiting behind it and one that creates the event again; `OneCopy` is
checked in settings in which `EventsOnce` proves it. The bases of
`Outbox_queue` are symmetric: they are compared and never looked into. Deadlock
is not checked anywhere: with the writes, pairs or requests of the bound used
up the system rests.

**Sessions.** Three pairs are a session, its rotation, and the replay of that
rotation or a second device; one fault is the answer lost or the request
stopped half way. `Alone` lets one at a time of the requests that mint
nothing or end sessions meet any number of logins and refreshes: two of them
together only delete, and the theorems hold for all. Devices and slots are
symmetric, in the run without liveness.

**Credentials.** Two tries and two requests are one try that is counted and
one that passed the check meanwhile; three codes are one replaced, one used
and one more. The theorems hold for all.

**Library.** Three requests are two that race and one that arranges or
follows; each mix is the kinds that touch the same rows, and each starting
library has what they can break: a synonym, a group, a dated event, an
encrypted account.

Some properties leave out, by name, what makes them fail, and "Also seen" says
what happens there. `EventSync_policy` has no lost answers
(`EventSync_replay`), no field put back and no form held across a sync;
`EventSync_merge` has no form held either, no event created here and, as
`EventSync_others`, no write elsewhere during a sync. What the user saw of an
event when deleting it (`DeletesWhatWasSeen`) is the copy saved by then.
`SpentChallengeRefused` and `CodeRedeemedOnce` leave out requests that read the
challenge or compared the code before it was spent, and `GuessesBounded` allows
a code whose store stopped half way a second budget. `OneMode` leaves out the
tags and groups of an account one of whose migrations committed past one made
meanwhile (`overlooked`). `Sessions` excludes device sessions two minting
requests met on (`stirred`), that a failure left half written (`torn`) or
without a token (`lost`); `Library` excludes writes validated against tags that
moved before the commit (`crossed`) and writes that kept the flag past a
migration (`mixed`).

### Also seen

Other instances of the same modules, without a run of their own, show:

On the device:

* `WritesInOrder` fails in `Outbox_queue`, for one event and three writes:
  `_update` (`outbox.dart:397`) folds into the first waiting op that can carry
  the change, although a later op of the same event waits behind it with an
  older full state. `offline-sync.md:40-41` and `:79-82` say otherwise. In
  `EventSync_replay` with three writes the newest edit is folded ahead and then
  written over by the one sent after it, and `EditsArrive` fails.
* `TempRefsResolved` fails there with two writes: `createEvent` and
  `updateEvent` (`events.repository.dart:175`) pass on a tag id as the screen
  holds it, though the tag was sent since; the engine parks the event as
  `missingTag`. `offline-sync.md:66-67` keeps the mapping "for a screen still
  holding the temporary one".
* `EditsArrive` fails in `EventSync_policy` with `Reverts`: an edit behind one
  being sent takes that one's base (`outbox.dart:416`), and a field put back
  as it first was is not sent. `sync_engine.dart:132-135` has no such case.
* `DeletionsArrive` fails with no other device and two writes: a deletion
  behind one's own edit is given up as edited elsewhere (`outbox.dart:464`,
  `sync_engine.dart:495-499`). It also fails with `CanCreate` and
  `LostAnswers`: deleting a creation whose answer was lost sends nothing
  (`outbox.dart:470`), and the event stays.
* `LateReplies` with a session that ends during a request: the answer is
  completed on the next session's queue. `TempIdsNameOneCreation` fails (a new
  creation with the same temporary id is pointed at the old server id, 2
  writes) and so does `SentIsQueued` (an edit folded into the op being sent
  goes with it): `forget` neither stops the engine nor keeps `_sending`.
* `Racing` with one write elsewhere between the engine's read and its request:
  `DeletesWhatWasSeen` and `TheirsKept` fail. The DELETE carries no condition
  and the PATCH is the full state.
* `Racing`, a restart before the snapshot: `OneCopy` fails. The mapping of
  events created again is in memory only, and the saved copy still has the
  old id, whose next edit creates the event once more.
* `HeldForms` with two writes, one elsewhere and every answer received:
  `TheirsKept` fails. The form is filled when it opens (`insert.dart:66-74`,
  `insert_cubit.dart:26-30`) and the base is the copy saved by the time the user
  saves (`events.repository.dart:267-270`). After a sync in between, the fields
  it brought count as changed back by the user, and the next sync writes them
  over the other device's edit; `offline-sync.md:143-145` gives a field changed
  on one side that side's value. In `EventSync_policy` `EditsArrive` fails too:
  such a form takes back what this user's own earlier edit just sent.
* `CanCreate` with three writes, one elsewhere between syncs and every answer
  received: `OneCopy` fails. `resolveEvent` (`outbox.dart:308`) maps a temporary
  id to its first server id and not on to the one the event was created again
  under, as its comment at `:305-306` has it. An event is created offline and
  sent, edited, deleted elsewhere and created again by the edit; the next edit,
  on a screen that still has the temporary id, is aimed at the dead id and
  creates the event once more, beside the row it has.
* `Reverts` with two writes elsewhere: after a replayed creation the engine
  takes the body it sent for the server's row (`sync_engine.dart:449`), and a
  deletion right after removes the other device's edit.
* A snapshot that cannot be read after a sync, or a restart before it, in
  `EventSync_policy`: `EditsArrive` fails. The screen goes back to the older
  copy; an edit made on it carries the older fields, harmless in a merge, but
  sent as they are when the event is created again.
* An edit folded into a waiting op may make it depend on a creation already
  parked (`nextToSend` says otherwise); the engine's own check then parks it.

On the server:

* Without `lost`, `LostAnswerKeeps` fails: a refresh stopped between the
  deletion of its token and the record of the rotation (`user.go:490-508`,
  `:438-454`) leaves the device nothing to refresh with. `auth-flows.md:189-190`
  answers a Redis failure with a 500 so that the client keeps its session,
  which the next refresh then ends with a 401.
* Without `torn`, `SignedOutStaysOut` fails: after a refresh that stopped
  before `writeSession`, the device's hash names a token that is gone.
  `RevokeSession` finds no key for it, skips `dropPredecessor`
  (`device_session.go:170`), reports success, and the pending token refreshes.
* Without `stirred`, two requests that meet on a session (a refresh and a
  wipe, two refreshes) can leave a pair in Redis the index or the list does
  not know.
* `ChallengeUsedOnce` fails in `Credentials_factors`: two refreshes read the
  challenge (`application/user.go:188`) before either consumes it (`:200`), and
  both pass on it. The comment at `:197` says "used at most once", and
  `auth-flows.md:168-169` that the pair "can never be replayed".
* `CodeNeverTwice` fails there: two confirmations compare the code
  (`persistence/user.go:628`) before either deletes it (`:637`), how many keys
  the deletion took is not looked at, and both change the password. The comments
  at `:636` ("can never be redeemed twice") and `application/user.go:318` ("at
  most once") say otherwise.
* `OneBudget` fails there: the code and its attempts are set by two commands
  (`persistence/user.go:605`, `:610`). A store that stops between them leaves
  the new code with the counter of the one before and its shorter time to live;
  when that expires, guesses start from zero. `auth-flows.md:14` has "5 guesses".
* A challenge asked for by one device replaces another's (one column per
  user): the other's refresh is answered with a plain 401, which ends its
  session (`auth-flows.md:206`).
* Without `crossed`, `SynonymsFlat` and `GroupsHoldMainTags` fail: two updates
  validated against the same rows (`tag.go:58-128`, `tag_group.go:36-87`) make
  a synonym of a synonym, or a member of another category.
* Without `mixed`, `OneMode` fails: a write that read the flag before a
  migration (`middleware.go:58-77`) stores a row in the old mode, and reading
  the library then fails or shows a blob.
* The migration compares ids (`persistence/e2ee.go:56-67`): an edit made after
  the client's fetch is overwritten by what it had fetched, one committed
  between the comparison and the rewrite of its row as well.
* `AllMigrated` fails with a migration and a new tag, without `mixed`: the ids
  are read from the transaction's snapshot with only the user's row locked
  (`:47-67`), and an INSERT into Tags or TagGroups takes its category's row
  alone, which the migration updates later (`:69-84`). What is made in between
  is neither refused nor rewritten and stays in the old mode, although the
  comment at `:54-55` says that "anything created or deleted since the client
  fetched conflicts".
* `category_handler.go:151-152`, `tag_handler.go:105-106`,
  `application/category.go:190-193` and `application/tag.go:198-200` say that
  `deleteEvents` deletes the events whose only non-date tags lived there; the
  SQL, `docs/api.md` and the model delete every event tagged.

## Fairness

`Outbox_live`: `Take` is weakly fair, since a sync starts on every write, when
the server is reached again, on coming back to the foreground and on a pull to
refresh (`sync_engine.dart:162-199`, `home_cubit.dart:206-220`), and then goes
on by itself; an answer, whether `Completes` or `HoldBack`, is strongly fair,
since `Abort` and `CompleteUnsaved` may take the op from under it again and
again, but the server is reached in the end. The user, restarts and failures
are not fair. `EventSync_drain` has the same split over its finer steps.

`Sessions_live`: each step of a request the server runs is weakly fair (a
goroutine goes on, or the handler timeout ends it); the refresh of a device is
strongly fair, since other requests may hold its turn again and again, but a
device whose session is kept probes and refreshes until it is answered
(`api.dart:541-612`). Logins, sign-outs and faults are not fair, and faults
are bounded: a server that fails for ever serves nobody. The property asks
only while pairs are left for the attempts.

`Credentials` and `Library` have no liveness: each request ends by itself or
is stopped, and nothing waits for it.

## Proofs

`OutboxProofs` proves, for any kinds, any number of writes, any known ids and
all the failures of the model:

* `TypeCorrect`: `Spec => []TypeOK`
* `CreationsGoFirst`: `Spec => []DependencyOrder`
* `SentAsQueued`: `~LateReplies => (Spec => []SentIsQueued)`
* `IdsNameOneCreation`: `~LateReplies => (Spec => []TempIdsNameOneCreation)`
* `NothingOrphaned`: `~LateReplies => (Spec => DropCascades)`
* `ChangesFollow`: `~StorageFails /\ ~LateReplies => (Spec => []TargetsFollow)`
* `ChangesShareBase`: `~StorageFails /\ ~LateReplies => (Spec => []OneBase)`

`DependencyOrder` is not inductive: a change may bring in a dependency that
some later op creates, unless ids in circulation were handed out before. The
invariant `IInv` adds `TypeOK`, that tickets run up to `writes`, that every id
an op uses or is about was handed out (is above `nextTempId`), and the same of
every id a screen holds. Folding keeps it by the code's own check
(`CreatedAfter`); an op added at the end needs nothing later, there being
nothing; a completion replaces an id by a positive one, which no creation has.
Each action has a lemma. `SentAsQueued` adds that the mark is on whatever the
engine holds (`SentInv`).

That a temporary id names one creation needs `NInv`: also the op the engine
holds is the only creation of its id (`HeldAlone`), an edit of something not
created yet waits only with its creation (`EditsWait`), whatever refers to a
creation refers to one of the right kind (`KindsAgree`, `ShownKinds`), and the
mappings know no id still to be given (`RemapOld`). The cascade follows from
it, step by step: an op that goes takes its dependents only if no other op
creates the same thing. `BInv` says where bases come from: two ops with the
same target have the same base, an op on a temporary id has none, and the id
the server gives a thing is one nothing waiting is about (`AnswersNew`).

The two hypotheses are the switches of the model, and necessary. A session
that ends during a request (`LateReplies`) leaves an answer to complete on the
next session's queue, whose ids start over; "Also seen" has the
counterexamples. A completion that could not be saved (`StorageFails`) leaves
the queue aimed at an id the server replaced, until the creation is replayed.
The other assumptions are `OutboxAssumption` and, for the bases,
`ServerAssumption`: a row's id is none the device knows and none another
creation was given, which an auto-increment key gives.

`EventSyncProofs` proves, for any fields and values, writes and changes
elsewhere, with every switch at any value but for the conditions named:

* `SyncTypeCorrect`: `SyncSpec => []SyncTypeOK`
* `SyncImplementsOutbox`: `SyncSpec => SyncsAsOutbox`
* `OthersFieldsStay`: `~Racing /\ ~HeldForms => (SyncSpec => TheirsKept)`
* `DeletedAsBased`: `~Racing => (SyncSpec => [][DeletesBase]_allVars)`

The refinement is not immediate, because `Outbox` lets the engine complete an
op only with an answer of its kind and with ids it may be given. `SInv` says
so of the requests: what is on the wire was sent for the op held (`SentFor`:
the verb for its kind, its id, a row among those the server may give it), what
waits and what is held was written by this device about an event it knows
(`Queued`, `Taken`), and rows, copies and mappings name events that exist
(`Origins`, `Clients`, `Becomes`). The writes are `Create`, `Update` and
`Delete`; `TakeNext` is `Take`, `TakeAnswer` and `SettleDeletion` complete,
`GiveUp` aborts, `Killed` restarts; reading, sending and saving, the server and
the other device leave the outbox alone.

The other two hold through lost answers, restarts and fields put back; `Racing`
breaks both, and a form held across a sync the first: what it wrote is no longer
what its base had but for the fields the user changed. They speak of the events
the server had from the start and still has (`Live`). `KInv` says that nothing
else is ever called by their ids (`OwnNames`); that every change waiting on one
has a base, the same for all of them (`BasedAlike`), and differs from it only
where the user wanted it to (`Own`), so that a merge takes no other field from
it; that what was edited before a deletion is edited before it in the queue too
(`DeletedLast`), so that an edit made after one was given up starts from the
saved copy; and that during a sync the engine knows the server as it is but for
the change just answered (`FreshLive`), the op held is the first of the queue
(`HeldFirst`) and the request on the wire is the merge of it with what the
server has (`Sends`). A write by another device keeps `Own` because what it
overwrites counts as wanted here only while a change here contends for it.
`DeletesBase`, that a deletion is carried out only while the row is what it was
based on, is `DeletesWhatWasSeen` for these events, with `Reverts` too; that
property, for every event, needs `Reverts` off ("Also seen").

`EventCopiesProofs` proves, for any fields and values and any number of writes,
changes elsewhere and restarts:

* `EventsOnce`: `SyncSpec => []OneCopy`, if `CanCreate => MaxOthers = 0` and
  `MaxOthers = 0 \/ ~Racing \/ MaxResets = 0`, with lost answers, direct
  requests sent again, fields put back and forms held
* `EditsReach`: `SyncSpec /\ []WritesInOrder => []EditsArrive`, under `Settings`
* `WritesKeepOrder`: `SyncSpec => []WritesInOrder`, if `~LostAnswers`,
  `MaxResets = 0` and `CanCreate => MaxOthers = 0`
* `EditsReachUnbroken`: `SyncSpec => []EditsArrive`, under `Settings`, if
  `~LostAnswers` and `MaxResets = 0`

`OneCopy` alone says nothing of the requests still to come. An event gets a
second row only if a creation is sent under a clientId the server does not
know while the event has a row, so the invariant says by which id the device
calls each event, and which row that leaves.

* `WInv`: the queue is worked from its first op on, with one request at a time
  and inside a sync; temporary ids, replaced ids and clientIds are older than
  what is still to be given.
* `NamesInv`: of the ids in use (what a waiting op is about, what an id on a
  screen resolves to) there is one for each event (`OneName`), and none was
  replaced (`Current`). The creation of an event is its first op and its
  deletion the last (`CreatedFirst`, `DeletionsLast`).
* `RowsInv`: beside `OneCopy`, the row of an event in use is that id, or was
  made by a request of the very op, the first of the queue, whose answer never
  came (`OneRow`, `Making`); so the op is sent again under the same clientId
  and finds it. What was replaced does not come back (`Gone`).
* What a sync read and what was saved have the events in use (`FreshInUse`,
  `SavedInUse`), left alone the server has them (`AllThere`), and an edit is
  sent as a creation only of an event that is not there (`Asked`).

Each action has its lemma; a completion that renames an event is the long one
(`RenamedNames`): every id of that event on a screen or in the queue moves on
together. Both conditions are needed, and each is a defect of the code told
under "Also seen": a temporary id is resolved to the first id its event had
and not on to a later one (`outbox.dart:308`), which takes a creation here and
a deletion elsewhere; and which id replaced which is forgotten by a restart
(`outbox.dart:214`), which the saved copy makes good only if others did not
write between the read and the request. What a waiting deletion is about is on
no screen (`Hidden`, `projection.dart:303-316`), or it would be edited under
an id that is about to go.

`EditsArrive` speaks of the end, when nothing waits; `EInv` says where each
wanted value is until then. Of every event not deleted here and every field the
user gave a value (`Reaches`), either the last op of the event says that value
and differs from its base there (`Ahead`), so that the merge sends it; or the
server has the value and no op touches the field (`There`); or the event was
deleted elsewhere and every op left, each of which would create it again, says
the value (`ToRestore`). What is sent can then only move a field from `Ahead` to
`There`, if a merge never takes a base for a change:

* `RowsPast`, `WritesPast`: the value of a write to come is nowhere yet, so what
  a write changes differs from every base.
* `Alike`: the changes of one event that wait have one base (`OneBaseEach`),
  which is none only if no copy was saved (`Baseless`) and where others write
  is the saved copy (`BasedOnSaved`).
* `NoReplay`, `FreshSame`, `SentSays`: no row was made for an op that still
  waits unless its answer is here, what the engine knows of a row is the row but
  for the change just answered, and the request says what the op held says.
* `SavedKnown`: what is on a screen was saved, outside a sync.

`Settings` names where it holds. Four of its limits are defects told under "Also
seen" or by a run: `Reverts` (a field put back is not sent), `LostAnswers` with
`CanCreate` (`EventSync_replay`), `HeldForms` (a form puts back what was sent
since it opened), and where others write a snapshot that cannot be read or a
restart before it. With `Racing` another device may delete an event after its
edit arrived and before the answer did, which `EditsArrive` counts as lost. And
where others write the proof leaves creations out, as `EventsOnce` does,
although `EventSync_policy` has both and finds nothing. `WritesInOrder` is a
hypothesis because the queue breaks it (a newer edit folded in front of an older
one) and the edit is then lost; `WritesKeepOrder` says that only a send broken
off leads there. Its invariant, `Single`, is that at most one change of an event
waits that is not being sent: a change folds into that one, which is the last of
its event, or is appended when there is none.

`SessionsProofs` proves, for any devices, any finite set of requests at the
same time, any number of pairs and faults and any kinds of request, from
`SessionsAssumption` alone:

* `SessionTypes`: `Spec => []TypeOK`
* `HalvesDieTogether`: `Spec => []PairsDieTogether`
* `TokensLive`: `Spec => TokensLiveOnce`, the refinement of `TokenLife`

None is inductive. `PairsDieTogether` breaks in a wipe, which deletes from
what two sets held when they were read: it needs that whatever a wipe read
holds both halves of every pair that still lives. The refinement breaks if two
requests claim one token, or a claimed token comes back. The invariant is

    IInv == TypeOK /\ Requests /\ Store /\ (\A s : SlotOK(h[s])) /\ Apart

`Requests` says what a request has read at each of its steps; `Store` orders
the keys (`at` within `rt` within `issued`, which lies below `next`; the index
has whatever lives; a rotation pending belongs to a token issued and no longer
live); `SlotOK` says of a request that the token it claimed is neither live
nor pending, the pair it is about to store not issued, and what its wipe read
closed under halves; `Apart` that two requests claim different tokens and
store different pairs. Most steps change nothing these read and share one
lemma (`Turn`, `Quietly`); each step that does has its own, with one step per
conjunct. For the refinement the same case split shows which pair changes
stage and how: `CreateAuth` issues, `Claim` and `Replay` claim, `Record`
retires, revocations and failures kill, everything else stutters.

`SessionsDevicesProofs` proves, from the same assumptions:

* `LostAnswersKeep`: `Spec => []LostAnswerKeeps`
* `PendingsLead`: `Spec => []PendingLeadsToLive`
* `DevicesStayListed`: `Spec => []DevicesListed`
* `SignedOutStay`: `Spec => []SignedOutStaysOut`

These speak of devices and device sessions, of which `IInv` says nothing. Four
more parts do, each inductive beside those before it; `AllAlways` is
`Spec => [](IInv /\ Aligned /\ Kept /\ Orderly /\ Tidy)`.

* `Aligned`: whatever a key of a pair names is of the pair's line (`Lined`);
  each kind of request runs its own steps and works on pairs of one line
  (`Runs`, `ReqLine`); two devices hold tokens of different lines, and a
  refresh still heard exchanges the token its device holds (`Holders`); two
  requests on one line, one of them minting, have left it stirred (`Meets`).
  So a line nothing stirred has one request that may claim its token, and the
  rest can follow it.
* `Kept`: a held token works or is claimed by a refresh on its line, and what a
  creation is about to hand out is live. Steps that take nothing from the lines
  share the lemma `MildKept`.
* `Orderly`, of each line nothing stirred: what is live, and what a pending
  rotation leads to, is the line's newest pair, and one rotation at most is
  pending (`Chain`); a rotation leads to a pair not live only while some
  request is about to store that pair or to drop the rotation, unless a failure
  left the line torn (`Pendings`, `Dropping`); and what each request has read or
  done to the line so far at each of its steps (`Bound`, `Exchanges`).
* `Tidy`, of each line nothing stirred: the live pair is the one the list shows,
  unless it is being stored or the line was torn (`Listed`); a held token that
  works points at its device session (`Carried`), and a refresh carries that
  on (`Carries`); on a line signed out nothing is live, being stored or claimed
  (`Gone`); and how far each request that signs out has come, every live line
  it has to end still before it (`Ends`).

Steps that only take away from a line share `TakesTidy`, those that leave it
`LeavesTidy`, and a request on another line cannot disturb it (`BesideShown`).

`CredentialsProofs` proves all seven invariants the passing run checks, for any
finite set of workers, any PINs, tries and attempts above zero, any number of
challenges and codes and any mixes, from `CredentialsAssumption` alone:

* `CredentialTypes`: `Spec => []TypeOK`
* `PinLocks`: `Spec => []LockHolds`
* `ChallengeSpentOnce`: `Spec => []SpentChallengeRefused`
* `CodeSpentOnce`: `Spec => []CodeRedeemedOnce`
* `GuessBudget`: `Spec => []GuessesBounded`
* `MailedCodeUsable`: `Spec => []MailedCodeWorks`
* `ResetKeysGo`: `Spec => []NothingLeftBehind`

Each speaks of what a request may still do, so the invariant speaks of the
requests under way. `Typed` says which number each has read at each step.
`LockOK` counts the wrong PINs together with the requests about to count one:
the check before the answer keeps the sum below the limit plus the other
requests. `BudgetOK` does the same for the guesses, as long as there is a code,
and counts what a counter that expired under the code may have given already
(`Spare`): that happens at most once per code, since what takes its place never
expires. `CodesOK` and `ChallengesOK` say that what is about to be stored is
new: it differs from the one stored, from those spent, from each other and from
what a request under way passed with. So nothing spent is ever stored again, and
nobody reads a spent code or challenge; who had read it before goes on, and two
of those may both pass. `CleanOK` says that a request for a code that is marked
clean is the only request for or with a code, and its code the stored one;
`MailedOK` that with a usable code in the mailbox nobody is about to burn it.
`LeftOK` says that, without strays, no reset runs beside a deletion or after it.
Steps that touch none of an invariant's state share a lemma (`CodesQuiet`,
`LockQuiet`, ...); each action has its lemma with one step per part.

`LibraryProofs` and `LibraryTagsProofs` prove, for any calendar, names,
workers, number of requests and kinds of request, from any libraries that are
well formed to begin with (`StartsAssumption`):

* `LibraryTypeCorrect`: `Spec => []LibraryTypeOK`
* `OneRowAnswered`: `Spec => []RepliesAgree`
* `StoredInOneMode`: `Spec => []OneMode`
* `SynonymsStayFlat`: `Spec => []SynonymsFlat`
* `GroupsKeepMainTags`: `Spec => []GroupsHoldMainTags`
* `FilterByDate`: `Spec => []EventsFoundByDate`
* `FiltersStay`: `Spec => FiltersSurvive`
* `UsageTold`: `Spec => UsageForetells`

The difficulty is that a transaction runs on what a request read before others
committed, so each invariant speaks of the requests that wait. `LInv` is the
typing: the rows and their references (`Stored`: each id below the next one, one
row per clientId, the seeded categories there), and that what a request asks for
was in range when it was read and ids only grow (`Asked`). With it the foreign
keys carry `LibraryTypeOK` through every cascade. `Answered` adds that a row
answered for a clientId, if it is there, still has it, and that any row with
that clientId is the one answered or came later. `OneMode` needs `Compared`
beside `LInv`: a migration past its comparison is the only one, the flag is
still what it found, and it names every category and every event there, since
whatever makes another waits for the user's row; only a tag or a group can have
come meanwhile, and then it is overlooked (`TransactionMode`). `FInv` adds to
the two tag properties that what a request not in `stale` was validated against
still holds (`Fresh`); a commit that rearranges tags makes the others stale.
`DInv` says of an account never encrypted that date tags are apart from the
user's (a reserved name belongs to a date tag, and no date tag is or has a
synonym), that an event's date tags are the names of its period, and that what a
request looked up or has to insert is those names; the months, years and the
filter then agree by the arithmetic of the code. `NamesAssumption` says that
`Years` covers the periods and that a name a client types is the user's or
reserved.

The last two are about the one step of a deletion: no other commit takes a tag
or a category (`OnlyServesDelete`). With flat synonyms a tag goes with its
synonyms and nothing else (`GoesWithSynonyms`), so a deletion that leaves the
main tag is of a single synonym, whose events the main tag takes over. What
usage counts are the links of the set that goes; the events that lose their
last tag of the user's are those all of whose such links are in it
(`CountedBefore`).

Only model-checked are `DeletesWhatWasSeen` for events created here, which needs
`Reverts` off ("Also seen"); `EditsArrive` where events are both created here
and changed elsewhere; and liveness (`Delivered`, `Drains`, `RetryDelivers`),
which, under fairness, is out of the prover's reach.

## Not modelled

* The engine's merges of tags, categories and groups, the stamps
  (`_parkStale` parks any waiting op in `Outbox`), and the projection of
  categories: their rules follow the events', which are modelled.
* Sealing, ETags and file writes of the local store; the probe's timer, the
  foreground and the offline unlock; the offline PIN.
* Expiry of tokens (months, against requests of seconds); of the reset keys it
  is modelled.
* Text search, dates and pages in the events' filter; colours; validation of
  bodies; the shape of encrypted blobs and the key check.
* Routing, rate limits, mail, cryptography, configuration, widgets.

## Plan

1. `OrganizeSync`: the engine's merges of tags, categories and groups against
   `Library`'s operations, with the stamps and `_reload`.
2. `Reachability` (probe, foreground, reopening the session); `LocalStore`
   with ETags, interrupted saves and wipes.
3. Proofs: `EditsArrive` where events are created here and others write; what
   `OrganizeSync` adds.
