# A TLA+ verification of the Telegram creator platform

The program sells access to content in Telegram: creators publish *drops*, users unlock
them with Stars or subscribe to a creator, jobs sweep what time has left behind, and a
dashboard API manages it all. It is one TypeScript process over PostgreSQL and, with
`CACHE_PROVIDER=redis`, Redis; several replicas may run. Paths below are under `src/src/`
unless they say otherwise.

1. [The system](#1-the-system)
2. [Modules, and how they correspond to the code](#2-modules-and-how-they-correspond-to-the-code)
3. [Runs, bounds, fairness](#3-runs-bounds-fairness)
4. [Where the code and its documents differ](#4-where-the-code-and-its-documents-differ)
5. [Proofs](#5-proofs)
6. [What is not covered, and the plan](#6-what-is-not-covered-and-the-plan)

## 1. The system

| Component | State it keeps | Operations | What makes it correct |
|---|---|---|---|
| Purchases and payments (`core/services/purchase.service.ts`) | rows `payments`, `purchases`, `access_grants`, `audit_logs` | `purchaseDrop`, `failStalePending`, shared `resolveReplay`, `beginAttempt`, `finalizeSuccess`, `finalizeFailure` | one charge per idempotency key; payment, purchase and grant agree; the audit explains every status; nothing stays pending |
| Subscriptions (`core/services/subscription.service.ts`) | rows `subscriptions` (one active per user and creator), and the payment rows | `subscribe` (create or renew), `expireLapsed`, `createPlan`, reads | one active row per member; a paid period is applied once, to the plan it paid; each row is expired once |
| Unit of work, dispatcher (`adapters/persistence/db/unit-of-work.ts`, `core/events/dispatcher.ts`) | per-transaction event buffer | `run`, `dispatchAll` | events only after commit, never of a rolled-back transaction |
| Scheduler and job lock (`jobs/scheduler.ts`, `adapters/cache/redis-cache.provider.ts`) | timers, runs in flight, the key `lock:job:<name>` | `start`, `trigger`, `runGuarded`, `stop`, `withLock` | runs overlap only when one outlived its lock; no dead holder wedges a job; stop waits |
| Notifications (`core/engines/notification.engine.ts`, `adapters/notifications/`) | a shared Redis list, `users.is_blocked` | `enqueue`, `drainPending` | an intent goes to one run; it is sent, dropped or lost, never stranded |
| Lifecycle (`app.ts`, `index.ts`, `server/`) | which parts are up, the webhook (one per bot) | `start`, `stop`, the HTTP server's drain, the watchdog | the pool outlives the work somebody waits for; a shutdown ends; a deploy loses no command |
| Access and delivery (`core/services/access.service.ts`, `core/engines/delivery.engine.ts`, `adapters/telegram/telegram-content-transport.ts`) | the file-id cache of `drop_assets`, the bot's id per process, `content.delivered` rows | `canAccess`, `deliver`, `send`, `getDeliverable` | content only to those with access; the record is true; the cache is an optimisation; who asks again is served |
| Catalog (`core/services/drop.service.ts`, `creator`, `follow`, `discovery`) | creators, drops, assets, plans, follows, stored bytes | create, upload, add asset, publish, edit slug, follow | published drops have content; every asset delivers the bytes of its own upload; nobody touches another's drop |
| Registration and sessions (`auth`, `onboarding`, `user` services) | creators, identities, sessions; users | `register`, `login`, `authenticate`, `logout`, `complete`, `ensureRegistered` | one account per email, slug and Telegram id; a session that ended does nothing |
| Rate limits (`adapters/api/rate-limit.ts`, `adapters/telegram/middleware/`) | counters with a TTL | `incr`, the limit, failing open | nobody gets much more than the limit allows, and nobody less |
| Telegram handlers (`adapters/telegram/handlers/`, `bot.ts`, `creator-context.ts`) | the session of a user's storefront, the cached default creator | the middleware, commands, callback buttons | commands act on the storefront the user chose; a press is answered; a user pays only for what he confirmed; what the bot says is so |
| JSON API (`adapters/api/`) | none of its own | authentication, routing of each call to its service | see the services |
| Persistence (`adapters/persistence/`) | the tables and their unique indexes | SQL | modelled with the services that depend on it |

How they interact. A Telegram update or an API call runs a service in its own asynchronous
call. A service works in one or two database transactions (`UnitOfWork.run`) and, between
them, calls the payment provider. Events raised in a transaction go to handlers after its
commit, in the same process; the notification handlers append to the shared queue. The
scheduler of every replica starts the three jobs on intervals: the two sweeps call back
into the services, the third drains the queue through Telegram. All replicas share the
database and Redis, and the webhook that Telegram keeps for the bot, and nothing else.
Telegram offers an update again until its webhook request has been answered. A command is
answered when its handler ends, so its handler may run twice, on two replicas at once. A press
of a button is answered first and handled after (`SYSTEM_ARCHITECTURE.md:184`):
`answerCbQuery`, the first statement of its handler, is Telegraf's reply to the request. It
runs twice only when that answer is late or lost, and is lost itself when the process dies
after it.

What is hard: calls with one key, or with two keys for one thing, in flight together; a
process that dies between the two transactions, between a commit and its events, or in the
middle of a batch; a sweep that acts on a row it listed a moment ago; overlapping sweeps and
their row locks; a lock whose TTL runs out under its holder; an answer of the provider or of
Telegram that comes too late or never; an update that is handled twice; first updates and
registrations that race for a unique key; a slug that moves while it is cached; an upload that
stores bytes and then fails; a deploy that stops one replica while another boots, and that
waits for connections and not for handlers. `PROJECT.json` lists these hazards at their lines
with the properties that cover them.

## 2. Modules, and how they correspond to the code

    PaymentLedger                 what the payment component promises
      ^ implemented by
    Payments  <- MCPayments       PurchaseService and its sweep
              <- PaymentsProofs
    Subscriptions <- MCSubscriptions    SubscriptionService and its sweep
                  <- SubscriptionsProofs
    Jobs                          scheduler, lock, start and stop of replicas
      ^ extended by
    Notifications <- MCNotifications    the notification job over the shared queue
                  <- NotificationsProofs
    Delivery <- MCDelivery        canAccess, deliver and the transport, with the catalog
             <- DeliveryProofs
    Callbacks <- MCCallbacks      the buttons of the bot, over PaymentLedger's actions,
                                  which it implements too
              <- CallbacksProofs
    RateLimit                     the limiter
      ^ extended by
    Bot <- MCBot                  middleware, storefront and commands of the bot
        <- BotProofs
    Api <- MCApi                  accounts, sessions, onboarding, uploads, publication
        <- ApiProofs
    Lifecycle <- MCLifecycle      boot and shutdown of replicas, requests, the webhook
              <- LifecycleProofs

Conventions. A request, a sweep and a run are processes with a program counter (`pc`,
`phase`, `stage`/`at`). A row is named by the idempotency key that created it. Definitions
marked *Slip* are plausible mistakes next to the definition they are mistakes of; no
specification uses them, they serve to show that a property notices them. `TypeOK` is the type
invariant; in `Subscriptions`, `Callbacks`, `Lifecycle`, `Bot` and `Api` it is the first conjunct
of an invariant the run checks (`OneActivePerMember`, `HeardIsTrue`, `PoolOutlivesWork`,
`RegisteredOnce`, `AccountsAreWhole`).

**The database.** Drizzle runs transactions at PostgreSQL's default, READ COMMITTED. A
transaction that decides on what it read is split into its reads and its commit. One that
only writes is a single step, enabled when no other transaction holds its rows. A sweep
updates rows one by one and holds their locks until it commits (`marked`); other writers
wait for them, and its writes become visible at the commit.

**Payments.** `Lookup`, `Check` and `Insert` are TX1 of `purchaseDrop`: the replay check,
`canAccess` with the validations, and `beginAttempt`, whose insert fails when the unique
`idempotency_key` got a row since the lookup. `Charge` and `Decline` are the outcomes of
`runProvider`. `Finalize` is TX2 on success, with the grant (or the rollback when the
unique index on live grants refuses it), `FinalizeFailure` TX2 on failure, `Dispatch` the
events after the commit. `Crash` lets any call throw or die at any point. `SweepList`,
`SweepMark`, `SweepCommit` and `SweepDispatch` are `failStalePending`; `SweepCrash` a sweep
that dies. Every reply for a drop that cannot be bought (unknown, unpublished, free,
subscribers only, creator not active) is the one answer "refused". The age of a payment
saturates just above the TTL. Keys come from a client and hold its user, so `Owner` is a
function of the key (`adapters/telegram/handlers/handlers.ts:318`).

**PaymentLedger** is the abstract promise: an attempt is opened, charged at most once, and
becomes paid, for one entitlement no other attempt bought, or failed; a failed attempt may
still become paid; a paid one never changes. `Payments!ImplementsLedger` instantiates it
with `charged` and `owned` computed from `charges` and `grants`.

**Subscriptions** has the same two transactions, with TX2 split: `ReadActive` finds the
active row and computes the new expiry, `Create` or `Renew` writes it and commits. A second
plan of the same creator ends in `RollBack`. `ExpireList`, `ExpireMark` and `ExpireCommit`
are `expireLapsed`; `ExpireAbort` is a sweep that dies or that PostgreSQL ends to break a
deadlock (listLapsed's order has ties, so sweeps may visit rows in different orders).
`FailStale` is the payment sweep in one step per row, since `Payments` has it in detail.

**Jobs** models one job on several replicas. A tick (`Trigger`) takes the lock or is
skipped; the lock may expire at any moment (`LockExpires`), which covers every TTL and every
speed; `Release` deletes it only when it still holds the run's token. `Stop`, `Exit` and
`Crash` are `Scheduler.stop`, the end of `app.stop`, and a kill or the forced exit of
`index.ts`. What a run does is left open. **Notifications** extends it with
`drainPending`: `Drain` is the Lua script, `Look`, `Send`, `Block`, `Requeue` the loop,
`Throw` a database or Redis call that fails before or after it took effect. Only the Redis
providers are modelled: with the memory ones a second replica does not exist.

**Delivery** models one `DeliveryEngine.deliver` per process. `ReadDrop`, `Decide` and
`ListAssets` are the statements of its read-only transaction: under READ COMMITTED each sees
its own state, so the creator, a payment or the sweep may act between them. Then no
transaction is open: for each asset, by position, `Resolve` gets the signed URL, `AskBotId`,
`BotIdSettles` and `AwaitBotId` are `cacheKey` with the promise of `getMe` that all
deliveries of a replica share, `SendText`, `SendCached` and `SendSource` the sends,
`WriteCache` the file id kept for next time. `LookBack` and `Record` are the transaction that
records the delivery and raises `ContentUnlocked` when it is the first. Every call may fail,
and a send may arrive although its answer does not. Around it run `AddAsset`,
`CheckPublish` and `Publish` of `DropService`, `Grant` and `Subscribe` (what a finished
purchase or subscribe leaves, see `Payments` and `Subscriptions`), the clock, and the
expiration sweep, which lists before it updates. `entitled`, `listed`, `copies` and `unsure`
are not state of the program: they remember what the properties compare. Entitled is who has
paid for time that has not run out, whatever status the sweep has left; a sweep that expires
a renewed row (section 4) takes access from an entitled user, and that is why the property
asks for one direction only. A position is a number of which only the order
matters. Whether a cached file id is still good is Telegram's choice at each send. No code
archives a drop or revokes a grant, so no action does.

**Callbacks** composes the parts a user meets: `handleCallback` of an update runs on any
replica (`Receive`), acknowledges it (`Dispatch`), shows what the user has access to (`Look`,
`Open`, `Offer`) or buys (`Lookup` to `Bought`), replies, delivers and ends (`Finish`). The
money moves only by the actions of `PaymentLedger`, which `Payments` is proved to implement,
so that a purchase takes five steps here instead of the statements of `Payments`. Telegram
offers a press until it is acknowledged: `Receive` may start a second run of it before the
first has got that far, or when its answer was lost, and after a `Crash` before it. A run that
dies later is the end of that press, and `dropped` remembers it; `heard` remembers what
reached the user. Every reply may fail although it arrived; any step may throw (`Fail`), which
`handleTelegramError` turns into an apology, which may fail as well. A throw in the middleware
comes before the acknowledgment: then the press is answered when the handler ends.

**RateLimit** is `INCR_WITH_TTL` and its caller, with a clock; a cache that fails lets the
request pass, counted or not. `log` is not state of the program: it lists, for each sender, the
increments that reached the cache, with the value and the expiry they left and what became of
the request, for the properties to look back at. **Bot** extends it with the rest of what an
update goes through: `Find` and `Insert` are `ensureRegistered`, `Link`, `Remember`, `Current`
and `Default` are `CreatorContext` with its session in Redis and its default creator cached per
process, `Act` the command. Slugs are taken and given up meanwhile (`ChangeSlug`), sessions
expire, replicas die, updates are offered again. `shown`, `opened` and `defaults` only
remember.

**Api** models a call as the statements between which others may act: `Register` reads,
`InsertCreator` and `InsertIdentity` wait for a transaction that has inserted the same key
(the call in `pc` "identity" or "commit" holds its slug, in "commit" its email) and then
insert or throw, `Commit` makes the rows visible with the session. `Profile`/`UpdateProfile`,
`Complete`/`MarkOnboarded` and `Publish`/`Release` are the read and the write of their
transaction; `Upload`, `Store` and `AddAsset` the three parts of `uploadAsset`, of which the
second is not in the database and stays when the third fails. Where a file is kept is a
function of creator, drop and file name of which nothing is assumed (`ObjectAt`): the name is
not checked, and with path separators in it may lead to an object of another drop. The last
write of a call may be made although it reports an error (`Finish`).

**Lifecycle** has `app.start` (`Boot`, `Listen`, `StartFails`, `Register`) and `app.stop`
(`Shutdown`, `Drain`, `DeleteWebhook`, `ClosePool`, `Exit`) in one process, where they
interleave at their awaits; `app.stop` has two callers, a signal and the failure of
`app.start`, and only the first sets the watchdog (`ForceExit`). `halt` has one program
counter for each. A request is in a handler (`at`) and has a connection (`open`), which may
end first: the handler of a press begins with its answer (`Acknowledge`), and a caller may
hang up (`HangUp`), upon which Telegram will offer its update again. `Drained` is about
connections, as `server.close` is. Two things it shows are worth knowing: a process told to
stop during the ping of its boot goes on to listen and to arm the scheduler after `app.stop`
has looked for both (`early` remembers those, and `PoolOutlivesWork` is about the others); and
the stop after a failed start has no watchdog. Reading it shows one more, about a log line
only: after a `listen` that failed, `server.close` fails too, and its error hides the reason.

## 3. Runs, bounds, fairness

| Run | Instance | Shows |
|---|---|---|
| `payments` | 2 calls, 2 keys of one user, 2 drops (one sold), 2 sweeps, TTL 0, batch 2, one call or sweep may die | `TypeOK`, `ChargedAtMostOnce`, `PaidIsUnlocked`, `AuditExplainsStatus`, `NoPhantomEvents`, `AnswersAreTrue`, `SweepsDoNotDeadlock`, `SucceededIsFinal`, `ImplementsLedger`, `PendingIsResolved` |
| `subscriptions` | 3 calls, 3 keys of 2 members, 2 plans of 1 and 2 ticks, 2 sweeps, batch 2, time 0..2 | `OneActivePerMember`, `PaidIsApplied`, `NoFreeTime`, `ExpiredIsFinal` |
| `subscriptions_live` | 2 calls, 3 keys of 2 members, 2 sweeps, one dies | `LapsedIsSwept` |
| `notifications` | 2 replicas with a run each, 3 intents for 2 users (one may block the bot), batch 2, one failing call, one failing send, one crash or stop | `TypeOK`, `OverlapIsLate`, `HeldOnce`, `StopLosesNothing`, `IntentsSettle`, `JobKeepsRunning` |
| `delivery` | 2 deliveries of one drop to one user on one replica, a text and a photo, any access type, 1 subscribe of period 1, time 0..1, one failing call or crash | `TypeOK`, `OnlyEntitledReceive`, `RecordedIsReceived`, `SentTwiceIsUnsure`, `FirstIsAnnounced`, `AskedIsDelivered` |
| `lifecycle` | 2 replicas, 2 boots, 1 command, 1 press, 1 API call, 1 crash, 1 failing call or hang-up | `PoolOutlivesWork`, `ShutdownEnds`, `UpdatesArrive` |
| `bot` | 2 updates of one user and 1 of another on 2 replicas, in two scripts of commands, 2 creators, 2 slugs (one the default), 1 edit, 1 point in a window of 2, time 0..2, one failing call or crash | `LimitIsFair`, `RegisteredOnce`, `ActsOnChosen` |
| `api` | 3 calls of any kind, 3 creators (one with an account and a draft), 2 emails, slugs, drops and positions, a plain file name and one that leads to a file of the first drop, one failing call | `AccountsAreWhole`, `SessionsEnd`, `ContentIsAccounted` |
| `callbacks` | 2 presses of one user, of 1 drop, 2 handler runs, any keyboard at first, one failing call or crash | `ChargesAreConsented`, `HeardIsTrue`, `PressIsAnswered`, `OwnersAreServed` |

Why these bounds suffice for the questions asked. Two calls with one key or two exhibit every
race of `purchaseDrop` (a key against itself, two keys for one drop, a key used for another
drop), and two sweeps every overlap; more calls and keys, and larger batches, are left to the
proofs. For subscriptions, two keys of one member race to create or renew, the third key shows
that members do not disturb each other and gives the sweeps two rows to deadlock on, in
`subscriptions_live` as well: without its strong fairness that run fails. Two ticks let a
subscription be created, lapse and be renewed. With batch 2 and three intents a drain can
leave part of the queue and lose part of a batch. Two deliveries on one replica share the
promise, the cache and the record; a text and a photo take the two paths through the
transport; one period and one tick let a subscription lapse before, between and after the
reads. In `lifecycle` two boots are a rolling deploy, or a crash and a restart, and a command,
a press and an API call are the three ways in which handler and connection end. In `bot` three
updates are two that race and one that is past the limit or uses what the others left in the
session and the caches; in `api` three calls are two that race and one that made them
possible. In `callbacks` two presses are the two taps of a double tap, or a purchase and a
look; two runs handle one press beside each other or one after the other, and a user who comes
with the keyboards of an earlier visit can press any of them at once.

`MaxSubscribes`, `MaxEdits`, `MaxTokens` and `MaxStarts` bound what users and the platform
do, `MaxFailures`, `MaxErrors`, `MaxExits`, `MaxCrashes` and `MaxRetries` what may go wrong,
`MaxTime` the clock; each is named where it guards an action. Symmetry is used, for
interchangeable calls, keys, sweeps, replicas, creators and values, only in runs without
liveness.

Deadlock checking is off (`CHECK_DEADLOCK FALSE`) where it is because all calls have
returned and nothing is left to sweep: the instance is finite and ends.

Fairness. A call that can go on is run by the event loop, intervals keep starting sweeps and
runs, time passes, TTLs run out, and the platform restarts a replica that exited: weak fairness
of `CallStep`, `SweepStep`, `RunStep`, `Tick`, `Expire`, `Boot`, `Quit`, and of `Step` and
`BotIdSettles` in `Delivery`. Nothing is assumed of crashes and failing calls, and of users
only that in `Delivery` who got an error taps again (`Ask`): the property is about those who
do. In `Lifecycle` the process goes on with its boot and its stop, its watchdog fires, and
Telegram keeps offering an update to whichever replica can receive it; a request or a job may
hang for ever, which is what the watchdog is for. In `Callbacks` a run that has begun goes on,
since every call it awaits ends or fails (the one provider there is answers at once), and
Telegram keeps offering a press until it is acknowledged, and no longer; users need press
nothing. The one
strong fairness, of a sweep in `Subscriptions` that waits for a row lock while it holds others,
is PostgreSQL's lock queue: when the holder rolls back, the waiter gets the row before the
holder can ask again.

## 4. Where the code and its documents differ

Three runs check a sentence of the repository and find it violated.

* `lost_renewal`: "never shortchanges the user" (`core/services/subscription.service.ts:8`).
  Two renewals that read the same expiry write the same new one.
* `double_tap`: "unique `idempotency_key` absorbs double-taps"
  (`src/docs/SYSTEM_ARCHITECTURE.md:221`). The key ends with the `update_id`, and two taps
  are two updates. Handled one after the other, the second is refused by `canAccess`;
  handled side by side, both are charged, and the unique index on live grants then rolls back
  the second, whose payment is swept to failed. What does hold is `ChargesAreConsented`: a
  charge for each press of the confirm button at most, however often it is delivered.
* `webhook_lost`: the webhook is "shared + persistent (already set by another replica or the
  prior deploy [...])" (`adapters/telegram/bot.ts:87`), and yet `app.stop` deletes it: in a
  rolling deploy the old replica's stop takes it from the new one, which gets no update until
  the next boot.

The same models show the following, which no run is spent on; each is a few lines to check
in the module named.

* `Payments`: a payment whose call dies after `confirm()`, or whose TX2 rolls back, is failed
  by the sweep, and the user is told "you have not been charged"
  (`core/events/handlers/notification.handler.ts:19`). The money was taken; nothing calls the
  provider's `refund`.
* `Payments`: "a resolved row is skipped, never double-failed"
  (`core/services/purchase.service.ts:215`) holds among sweeps, but a decline that arrives
  after the sweep fails, audits and notifies the row again: `markFailed` has no guard.
* `Subscriptions`: "flip lapsed actives to expired" (`core/services/subscription.service.ts:323`).
  A row renewed between the sweep's listing and its update is expired with its paid period
  unused.
* `Subscriptions`: "concurrent distinct-plan subscribes cannot double-charge"
  (`src/docs/LAUNCH_CHECKLIST.md:17`). Both are charged before one is refused; and a double
  tap on one plan charges twice and renews.
* `Delivery`: "Content delivery failed. Please try again."
  (`adapters/telegram/telegram-content-transport.ts:71`). `cacheKey` keeps the promise of
  `getMe` also when it was rejected: after one failed call every delivery of media by that
  process fails, for a key that only the cache needs. `AskedIsDelivered` is what does hold:
  who keeps asking is served unless that happened.
* `Delivery`: two first deliveries that overlap both raise `ContentUnlocked`, as ADR-019
  accepts because "handlers are idempotent by contract"
  (`src/docs/ARCHITECTURE_DECISIONS.md:132`), yet `contentUnlockedEnrichment` appends a row
  for each.
* `Notifications`: "an atomic queue drain can never be removed-but-not-sent"
  (`core/engines/notification.engine.ts:28`). A throw or a crash in the middle of a batch loses
  the intents not reached yet: `HeldOnce` and `IntentsSettle` count `lost` as a place they end
  in.
* `Lifecycle`: "finally close the pool so no transaction is severed mid-flight"
  (`app.ts:241`). `HttpServer.stop` waits for connections, `void this.route` is awaited by
  nobody, and in webhook mode nothing else quiesces the bot. The handler of a press has no
  connection after its first statement: on a deploy it can find the pool closed between the two
  transactions of a purchase, whose row the sweep then fails. `PoolOutlivesWork` is what does
  hold.
* `Callbacks`, `Lifecycle`: "Telegram retries non-200s" (`src/docs/SYSTEM_ARCHITECTURE.md:184`)
  does not help a press, which is acked before it is executed: one whose process dies after
  that is neither handled to its end nor answered. The user can press again (`OwnersAreServed`).
* `Api`: "Tenant-prefixed path convention" (`adapters/content/supabase-storage.provider.ts:27`).
  The file name comes unchecked from `x-file-name`, so that the path of one drop may be that of
  another. Ownership is checked of the drop, and the storage replaces nothing, so that what
  holds is `ContentIsAccounted`: who comes second is refused, and no asset gets the bytes of
  another upload.
* `Api`: bytes whose `addAsset` failed stay in storage, and since the storage does not
  overwrite, an upload of the same file name for that drop fails from then on. Two calls of
  `onboarding/complete` that overlap both write the date.

With the mock provider no real money moves, as the launch checklist says; the models do not
depend on the provider.

## 5. Proofs

Checked by TLAPS, for every value of the constants that satisfies the named assumptions.

`PaymentsProofs` has the inductive invariant `IInv` of `Payments`. The properties alone are
not inductive. That a key is charged once, say, needs that of all calls with one key at most
one is past `Insert` and not done, and that a key was charged only when a call passed
`Charge`; that payment and grant agree needs that a call about to finalize carries the drop
of its purchase; that the sweep fails a row once (a conjunct of `IInv`) needs that no row is
marked by two sweeps, that marked rows are pending, and that whoever would move a marked row
waits. `IInv` is the
conjunction of these facts. One step per action preserves it; from it follow `TypeCorrect`,
`NeverChargedTwice`, `PaidAndUnlockedAgree`, `AuditIsComplete` and `EventsAreCommitted`.

The last part of the module uses it for what is not an invariant of `IInv`'s form: no step
takes a payment out of succeeded (`PaidStaysPaid`); every step is a step of `PaymentLedger` or
a stutter (`Refinement`); an answer that promises content is backed by a grant
(`AnswersHold`); two sweeps never wait for each other (`NoDeadlock`), because each updates
its rows in the order of `rank`, which is injective. That last fact stands for distinct
`created_at` timestamps: the code does not break ties, so two payments of the same
microsecond are outside it.

`SubscriptionsProofs` proves the three invariants and the action property of `Subscriptions`
for any calls, keys, plans and sweeps. Behind `PaidIsApplied` is that one call at a time works
on a payment (`OneBuyerPerKey`) and that its row stays unpaid and of its plan (`BuyerHasRow`).
`NoFreeTime` needs a bound on what TX2 has read and not yet written: another renewal, an expiry
or time may come between, so `RenewalIsRight` bounds the expiry a call is about to write by the
payments applied at that moment, the one it will add, and the clock; adding a payment then adds
one element to a finite set. `OneActivePerMember` follows from the guard of the unique index;
`ExpiredIsFinal` needs `MarkedAreActive` and `MarkedByOne`: what a sweep is about to commit is
still active, since renewals wait for the rows it holds and no other sweep holds them.

`NotificationsProofs` proves `OverlapIsLate` of `Jobs` for any job, replicas, crashes and
failing calls. The strengthening is `Held`: a run in progress holds the lock or is on
record as having outlived it. Every step of `Notifications` is a step of `Jobs`
(`NotificationsAreJobs`), so the theorem carries over. `TypeCorrect` and `StopsLoseNothing`
need `BatchIsHeld`: only a run in progress has a batch, so a stop, which waits until no run
is in progress, finds none.

`HeldOnce` counts the copies of an intent over a sequence and the batches of all runs, and a
count says too little of where they are. `OnePlace` says it in sets: no sequence has an intent
twice (`NoneTwice`), the queue, the batches, what is settled and what is lost are disjoint
(`Apart`) and together hold exactly what was raised (`Somewhere`). Lemmas on `Append`, `Tail`
and `SubSeq` show that a push, the next of a batch and a drain keep it, and `PlacesCount` turns
it into the count (`IntentsAreHeldOnce`).

`DeliveryProofs` proves the five safety properties of `Delivery` for any users, drops,
assets and deliveries. `IInv` says of each delivery: content is in hand or sent only after a
decision that was right (`DecisionHolds`); a listed asset has been received or is still to
send (`SentOrTodo`); one still to send has arrived only through sends whose answer was lost,
and one more counts only between the upload and its cache write (`TodoIsUnsure`); what the
look back saw is on record (`BeforeIsTrue`); the file-id paths carry media (`InHandIsMedia`).
A step of one delivery leaves the others' conjuncts alone (`QuietStepKeeps`), so each action
is proved for its own delivery. That a delivery has a next asset is that a set of positions
has a least one, from the library's well-founded orders.

`CallbacksProofs` proves both safety properties of `Callbacks` for any users, drops, presses,
any number of runs on one press and any number of failures. `ChargesAreConsented` compares
two cardinalities and is not inductive; behind it are that a payment comes from a press of
the confirm button for its user and drop (`PaymentsArePresses`), that a run buys only for such
a press (`RunHasPress`) and that the press is the third part of the key, so that
k |-> k[3] maps the charges of a user for a drop one-to-one into his presses, of which there
are finitely many (`FromAssumption`). `HeardIsTrue` needs that a paid key has its item
(`PaidIsOwned`), since a replay answers from the key alone, and that a run about to promise
something promises what is so (`SayingIsOwned`), although other runs and the sweep act
between its decision and its words. The steps fall into those that leave the money alone and
those that are actions of the ledger; a lemma for each kind says what a step of it has to show.

`MoneyIsTheLedgers` says that every step of `Callbacks` is a step of `PaymentLedger`, of the
key and the item of the run that takes it, or leaves the money alone. With `Refinement` it
links the two levels: what `Callbacks` assumes of a purchase is what `Payments` does.

`LifecycleProofs` proves `PoolOutlivesWork` for any replicas, requests and restarts. It is
about connections and not handlers, which `app.stop` does not wait for (section 4).
`StopsInOrder` says what of a process is still up at each place of `app.stop`, in the order of
its awaits: the server with its connections, then the scheduler, then its job, then the pool.
`IdleUnlessUp` covers what is not yet or no longer up: a boot that awaits the database has no
work, and the second caller of `app.stop`, a failed start, finds nothing that works.

`BotProofs` has two invariants. `LimitInv` is the limiter's, for any points and window: an
increment's value counts the increments of its window up to it (`HitIsRight`), and of two
increments the later is in the same window with a higher value, or in a window that began when
the earlier one was over (`HitsInOrder`). So a span as long as a window meets two windows at
most, in each of which the values of admitted requests are distinct numbers up to `Points`: an
injection into a set of 2 * `Points` numbers bounds them, and another shows that who is refused
had used up his. `IInv` adds the bot: which creator a handler has found (`HandlerInv`) and that
sessions, the caches of the replicas and the default slug lead only to storefronts the user
opened or that were the default (`RowsInv`), though a slug may have moved on. From it follow
`OneRegistration` and `ChosenOnly`.

`ApiProofs` proves the three properties of `Api`, for any calls and creators. A transaction's
row that is inserted and not committed is in no table, yet holds its slug and its email
against the others (`NamesAreHeld`), and that is what makes the commit keep them unique. Of a
call that has passed `authenticate` it needs that its principal has an account, which is never
taken away (`Principals`); of one that had not, that the session stays over (`StaleStays`),
since the check comes after the call was sent. `UploadsAreHeld` says that between `store` and
`addAsset` an upload's bytes are where it put them, and that it has no asset yet. Wherever
file names lead, two uploads cannot both be where one of them stored, so the asset that is
added is the only one with its bytes; and that a drop about to be released still has the
assets that were counted.

The assumptions on the constants say that a function of the configuration has its type, that
bounds are numbers, that sets which are counted are finite and that what stands for "none"
(`NoKey`, `NoCreator`, `Unresolved`, the places of a request in `Lifecycle`) is no name of a
thing. TLC evaluates each on every run of its module.

Every invariant and every action property of the passing runs is a theorem. Only model-checked
is liveness, which is out of the prover's reach under fairness: `PendingIsResolved`,
`LapsedIsSwept`, `IntentsSettle`, `JobKeepsRunning`, `AskedIsDelivered`, `ShutdownEnds`,
`UpdatesArrive`, `PressIsAnswered` and `OwnersAreServed`.

## 6. What is not covered, and the plan

Next, in order:

1. An abstract specification of the notification queue (an intent raised is sent, dropped or
   lost once), with `Notifications` proved to implement it: `OnePlace` is the invariant for it.
2. The same for delivery: a record that is written after content arrived and announced once.
3. A ledger of paid time for `Subscriptions`, as `PaymentLedger` is for payments.
4. What is told of money that was taken and whose TX2 was lost (section 4): the one hazard of
   `PROJECT.json` without a property, since the code does not tell these payments apart.

Not modelled:

* what only reads: the public routes and discovery, lists of drops, purchases and access, the
  paging of `/browse`, audit queries, the health check. They keep no state; what they show is
  what the modelled writes leave.
* analytics (`analytics.service.ts`, `jobs/analytics.job.ts`) and the enrichment
  handlers: aggregates, a job that does nothing yet, and appended rows nobody reads back.
* views, keyboards' layout, wording, parsing of bodies and of multipart uploads, SQL
  generation, configuration, logging, type declarations, the seed script.
* the buttons of a subscription plan, which call `subscribe` as `Subscriptions` has it, and
  long polling, which is for development.

Also abstracted: a crash between a commit and its dispatch loses the events (ADR-010): the
models allow it. `refund`, which no code calls, is not modelled. Redis itself does not fail
or lose its data; single commands do, before or after they take effect.
