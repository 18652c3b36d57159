# Formal models of codex-proxy

codex-proxy is an OpenAI-compatible HTTP proxy written in Go. It keeps a pool
of Codex accounts (OAuth credentials on disk or in a database), picks one for
every request, refreshes its tokens, cools it down or removes it when the
upstream refuses it, and falls back to a standby pool or to another provider
when the pool is exhausted. This directory holds TLA+ models of that
machinery, the TLC configurations that check them, and TLAPS proofs.

## 1. Inventory

| Component | State | Operations | Talks to | Hard behaviour |
|---|---|---|---|---|
| Account (`auth/types.go`) | status, cooldown, quota and token fields under `mu`; atomic copies for the selector; CAS flags `refreshing`, `upstream429Recovering`, `upstreamFailureQuotaChecking`; `deleted` | SetCooldown, SetQuotaCooldown(Until), ClearQuotaCooldown, SetDisabled…, SetManualDisabled, SetActive, UpdateToken, SetRefreshDisabled, RecordSuccess/Failure | everything | each setter writes under `mu` and then stores the atomic copies without it; a status read is stale when it is used |
| Selector (`auth/selector.go`) | cache of pickable accounts, cursor, `refreshing` | Pick, InvalidateAvailableCache | Manager, Account | lock-free cache rebuild racing invalidation; one cache for callers with different candidate lists |
| Manager: pool (`auth/manager.go`) | `accounts`, `accountIndex`, published snapshot, save queue, files or DB rows | load, ingest, RemoveAccount, DisableAccountByRenamingFile, SetAccountEnabled, scanNewFiles, save workers, disabled recovery | files, DB, selector | files change behind the pool; deletion in several steps; concurrent writers of one file; shutdown |
| Manager: tokens (`auth/manager.go`, `auth/refresh.go`) | per account `refreshing`, `refreshDisabled`; 401 singleflight; refresh semaphore | EnsureTokenFresh, refreshAccount, forceRefreshAccount, RecoverAuth401, status policies | OAuth server, pool | single-use refresh tokens, retries after a lost answer, late answers |
| Quota (`auth/quota.go`, `quota_window.go`) | QuotaInfo, verdict cache | CheckAccount, thresholds, 429 recovery, recheck loop | upstream, Account | late and reordered answers, check-then-act on the status |
| Health checker (`auth/health.go`) | batch cursor, failure counters | checkAccount | upstream, pool | counters at the limit, probes racing the administrator |
| Standby controller (`standby/controller.go`) | active, primaryDown, activeCancel | Pick variants, activate/deactivate, sync | both managers, NewAPI | CAS outside the lock, unordered notifications, restart |
| NewAPI and qmsg (`notify/*.go`) | settings file and copy | Save, Load, channel requests | external services | non-atomic replacement of the file, lost requests |
| Upstream provider (`upstream/provider.go`) | settings, active | SendResponses, Save, MarkPrimaryAvailable | external API | active flag racing the settings; header timeout racing a late answer |
| Executor (`executor/codex.go`, `stream.go`) | per request: excluded set, attempt counters, stream state | sendWithRetry, concurrent 429 retry, probe, pump, re-open | selector, Account, upstream | retries bounded, no re-open after bytes were written, losers of a race |
| Handler (`handler/proxy.go`, `fallback.go`, `claude.go`, `images.go`, `standby.go`) | 401-recovery tracks, admin endpoints | request wiring, fallback chain primary → provider → standby | all of the above | rate limit of 401 recovery shared by requests |
| OAuth login (`auth/codex/*`, `handler/codex_login.go`) | login sessions with TTL | get URL, exchange, callback server | OAuth server, pool | session used once, expiry |
| Database (`db/*`) | rows of accounts | import, load, save, delete | Manager | lock order of import and ingest |
| API debug store (`apidebug/*`), account event log | bounded records | Push, List, Append, ReadRecent | handlers | limits |
| Translators (`translator/*.go`, `thinking/*.go`) | per stream: `StreamState`, `ClaudeStreamState`; per request: the map of cut tool names | convert a request, convert each event of a stream, collect a stream | executor, handler | flags that decide what has been told; names that collide when cut; the tools of a conversation change between turns |
| netutil, config, static, browser | none that outlives a call | dialing, parsing, pages | all | data only |

The properties that make each component correct, modelled or not:

- *Account*: both copies of the status agree once the setters have returned; a
  manual disable survives everything but a manual enable; an enabled account
  comes back.
- *Selector*: a pick finds an account while one is pickable; an account that
  went is not handed out for ever; exclusions are honoured.
- *Pool*: what is pooled is live; a removed account stays away, its file too; a
  credential is never half-written; a new token reaches the disk.
- *Tokens*: a single-use refresh token is spent once; the flag is always given
  back; recoveries of one credential share an exchange and its result.
- *Standby*: one activation at a time, its loops run exactly while the mode is
  on, the mode and the NewAPI channel return with the primary pool.
- *Executor and handler*: attempts are bounded; losers of a race do not disturb
  the winner and leave nothing open; a client hears one response; the rate limit
  of recoveries holds.
- *Translators*: nothing is lost or told twice, whichever events an upstream
  uses; names of tools come back as they went.
- *Quota, health*: the answer stored last decides; an account that has quota
  again is used again; every account is visited.
- *Settings services*: what was acknowledged is on disk and in memory; the active
  flag is let go.
- *Login*: a session is used once and not after its time.

## 2. Plan

Written, in this order, most important behaviour first:

1. `StandbyController`: the mode, its loops, the NewAPI switch.
2. `AccountStatus`: the two-phase setters of one account.
3. `AccountPool`: index, files, save workers, removal, scan, recovery, upload.
4. `PickCache`: the round-robin selector's shared list.
5. `TokenRefresh`: refresh exclusion, single-use tokens, 401 recovery.
6. `AttemptBudget`, what a caller relies on, and `RequestRetry`, which implements
   it: one request against the accounts of a pool.
7. `StreamRelay`, which implements `AttemptBudget` too: the answer on its way to
   the client, over pumps, bridges, provider and standby pool.
8. `EventStreams` and `RequestTranslation`: what is told to the client and to the
   upstream.
9. `QuotaWatch`: quota answers, thresholds, recoveries, policies, health batches.
10. `UpstreamProvider`: settings, their file, late answers, the active flag.

The modules meet in what one leaves open and another fills: which accounts are up
at a pick of RequestRetry is AccountStatus's affair, `world.stale` of RequestRetry
is what PickCache shows of the shared list, `Open` of StreamRelay is the whole of
RequestRetry or of a request to the provider, its pumps tell what EventStreams
translates, `primary` of StandbyController is the pool of AccountPool and
PickCache.

Remaining: an abstract pool (an account is in or out, pickable or not) that
AccountPool and PickCache implement; the settings of qmsg and NewAPI as instances
of a settings service; the database mode.

## 3. Conventions

Goroutines are the members of `Procs`; each has a record of its place in the
code and of the locals it still needs, and goes back to one idle value, so that
what it did before is forgotten. A step is what the code does between two
accesses to shared state that others may interleave with: an atomic operation, a
critical section, a system call, an exchange with a server. `Proceed(p)` (or
`Walk(p)`) collects the steps a goroutine goes on with by itself; calls,
environment, time and restarts are actions beside it.

Several modules have a constant `Worlds` and a variable `world` that is chosen in
`Init` and never changes: which call sites are at work and what may fail. It lets
one run ask a question of several situations, each small, and lets a theorem
name the situation it needs in the property itself. Where the condition is not a
situation but something that has happened, a history variable notes it (`torn`,
`overtaken`, the `quirks` of a stream), and all steps are taken as the code has
them. The premise of a property that mentions either is the condition under which the
code keeps it; where a line of the repository promises more, the promise is a definition
of its own, and the list below says which configuration breaks it.

Each module `M` has `MCM` (model values and worlds for TLC), and most have `MProofs`
(theorems). The proofs of QuotaWatch, which is about an account too, are in
AccountStatusProofs, those of EventStreams in StreamRelayProofs, whose pumps tell
what EventStreams translates, and those of RequestRetry and RequestTranslation, a
request's way to the upstream, in RequestProofs. A proof module that extends two
components needs their names apart: what is `world` and `Worlds` elsewhere is `watch`
and `Watches` in QuotaWatch, and the specifications are `WatchSpec`, `EventsSpec` and
`TranslationSpec`. Definitions marked `(bug)` are slips a programmer could have made at
that place; no specification uses them, and each shows that some property would
notice it. The map from definitions to lines is in PROJECT.json.

| Run | Module | States | Question |
|---|---|---|---|
| standby | MCStandbyController | 72 k | racing calls, all Pick variants, NewAPI, administrator, restart |
| account_status | MCAccountStatus | 3.9 M | two goroutines of seven call sites, every store a step |
| account_pool | MCAccountPool | 295 k | everything that happens to a credential, five worlds |
| pick_cache | MCPickCache | 1.2 M | two goroutines pick from a shared list, retries among them |
| token_refresh | MCTokenRefresh | 567 k | everybody who refreshes one credential |
| request_retry | MCRequestRetry | 511 k | one request against three accounts, five configurations |
| stream_relay | MCStreamRelay | 103 k | every pump, bridge and stage, clients that leave |
| event_streams | MCEventStreams | 79 k | one stream told in any mixture of events to two kinds of clients |
| request_translation | MCRequestTranslation | 110 k | conversations of three APIs with tools that change |
| quota_watch | MCQuotaWatch | 1.3 M | every kind of quota check, policies, health batches |
| upstream_provider | MCUpstreamProvider | 428 k | saves and fetches that overlap, a crash, late answers |
| request_winner | MCRequestRetry | violation | is the winner of the fan-out readable? |

`request_winner` is about a disagreement between the code and its own comment:
`concurrentRetryAfter429` (`codex.go:658`) returns the first good answer to be
read by its caller, and its `defer cancel()` (`codex.go:725`) cancels the context
the body is read under. PROJECT.json quotes both.

Eight more statements of the repository's comments and documents are defined
beside the properties and do not hold; each has a configuration that shows how
(`tlc -config <name>.cfg <MC module>`):

| Statement | Promised at | Bites at | Configuration |
|---|---|---|---|
| `InactiveStandbyIsLeftAlone` | `controller.go:9` | `controller.go:393`: a new activation overtakes the locked half of the deactivation before it | standby_left_alone |
| `StandbyOnlyWhenNeeded` | `CONFIGURATION.md:24` | `controller.go:185`: a request that has excluded the whole pool is taken for an empty pool | standby_spent |
| `ManualDisableKept` | `manager.go:2710` | `health.go:273`: a probe cools a disabled account down | disable_probed |
| `CredentialWhole` | `manager.go:3194` | `manager.go:3195`: two savers share the temporary file | shared_tmp |
| `RemovedStaysOut` | `manager.go:2249` | `manager.go:2290`: a scan between the halves of a removal | rescanned |
| `ExclusionHonoured` | `manager.go:1205` | `manager.go:1239`: the shared list ignores who excludes what | pick_excluding |
| `RecoveredIsNew` | `manager.go:2758` | `manager.go:2774`: a flight's token goes to an account that has been replaced | stale_recovery |
| `CompletedCloses` | `claude.go:490` | `claude.go:348`: a thought after a text leaves the text block open at the end | claude_blocks |

Deadlock is checked in every run: a server does not stop.

## 4. The modules

### StandbyController (`standby/controller.go`)

A call (`Call`) walks through `AskPrimary`, `MarkPrimaryAvailable` or
`MarkPrimaryUnavailable`, `AskStandby`, and the two halves of
`activateIfNeeded` and `deactivateIfActive`: the compare-and-swap on `active`
(`ActivateCAS`, `DeactivateCAS`) and the section under `activeMu`
(`ActivateLocked`, `DeactivateLocked`). The pools are what a pick on them
answers; an activation's context is a member of `Lives` and is used again once
its loops are gone. `Tick`, `PassDone` and `LoopExit` are the refresh and the
recheck loop of the standby manager, `Deliver` and `Fail` the NewAPI requests
sent from unordered goroutines, `SaveAuto`, `TestChannel` and `Restart` what
interferes.

A pool is in one of four states (`PoolStates`, and `empty` for the standby
pool), as many as the pick variants tell apart (`Answers`): the pick of a
recently successful account overlooks accounts whose cooldown has passed and does
not insist on exclusions, the pick that ignores cooldowns takes whatever is not
disabled. What a call has excluded is the set of pools it has used up.

*Runs.* `standby` begins in one of four worlds. `Race`: two goroutines, since
every race here is between an activation and a deactivation. `Variants`: one call
at a time, all variants, all pool states. `Switch`: NewAPI, the administrator, a
lost request, a restart. `Spent`: calls that have excluded whole pools. One
activation identity is enough, as `SingleLifetime` leaves one live;
the configuration `standby_left_alone` has two. `StandbyReleased` and `ChannelReenabled` carry the
premise `world.spent = {{}}`: a call that has excluded the whole primary pool is
taken for an empty pool (the configuration `standby_spent` shows it), and with
such calls arriving for ever the mode never settles. `ChannelReenabled` also has `world.notes <= 1`:
two requests in flight can be delivered in reverse order and leave the channel
disabled (a hazard names the line).

*Fairness.* A goroutine that runs is scheduled (`WF` on `Walk`); picks keep
coming (`SF`, since a goroutine is idle only now and then); a pass over the pool
ends, as upstream calls have timeouts; Go's `select` chooses at random among
ready cases, so a cancelled context is not overlooked for ever (`SF` on
`LoopExit`); NewAPI requests end within 15 s. Nothing is assumed of the pools and
the administrator.

*Proved.* `TypeCorrect` and `AtMostOneActivation` for any number of goroutines,
lives, loops and restarts. `SingleLifetime` is inductive with `TypeOK`: only the
section under `activeMu` moves the contexts and the handle, and each branch moves
both. `LoopsWithMode` rests on `ModeInv`: with one caller its place tells how mode
and handle stand, after the CAS of an activation on with no handle, after that of
a deactivation off with a handle, elsewhere in agreement.

### AccountStatus (`auth/types.go`)

`acct` holds the fields under `Account.mu`, `atom` the copies the selectors read,
`row` what is persisted. A goroutine comes from a call site (`Start`), may look
at the status first (`Check`), runs the section under the mutex (one action per
setter), stores the atomics without it (`StoreStatus`, `StoreCooldown`; before them
`TestStatus` of SetRefreshDisabled) and may save: `Save` reads the account, `Write`
puts what was read into the file or the row, `SaveFails` does not. Nothing keeps two
goroutines apart but the mutex, and that only within a section, as in the code.

So the two copies do part, and a manual disable can be undone. The properties say
what that takes. `torn` notes that a setter was entered while another was still
storing, until one that meets nobody has stored both copies; `Agreement` says that
without it the copies agree. `undisturbed` notes that the administrator's last
instruction was given and acknowledged while no other call was under way and that no
call site which looks at nothing (`Blind`: the health check, the refresh policy) has
come since; `DisableHonoured` and `EnableHonoured` say that then all three copies keep
it, through any number of later calls, interleaved in any way, late saves and restarts.

*Runs.* `account_status`: two goroutines, cooldowns of one tick, one restart, a file
or a database; one tick suffices because every comparison in the code is "passed or
not". Two call sites whose setters others run too are left out to keep it small (the
request and the health check; the last-resort pick and the policy stand for them). The
configuration `disable_probed` needs no race: a health check cools a disabled account.
No fairness is assumed.

*Proved.* `SettersAgree`: of each goroutine in its stores the invariant says what it
has yet to hand over, and that with nothing torn there is one such goroutine at most
and the copies are otherwise the same. `DisableKept` and `EnableKept`: after an
undisturbed instruction all three copies say so, and so does every copy that a
goroutine still holds, in its stores or on its way to the file; while the
administrator's call is alone it is on its way there. `TypeCorrect`. All for any number
of goroutines, any call sites, cooldown lengths and restarts.

### AccountPool (`auth/manager.go`, `disabled_recovery.go`, `ingest.go`)

One credential path: the index holds an account or none; the names `json`, `tmp`
and the `.disabled` suffixes hold a token, a torn file or nothing; a descriptor
follows its file through renames. `Unlist`+`Erase` is RemoveAccount,
`Unlist`+`Park` DisableAccountByRenamingFile, `Refresh`..`EnqueueSave` a refresh
with the quota check after it, `Dequeue`, `Open`, `Fill`, `Publish`, `Recheck` a
save worker, `Scan`/`Recover`..`Load`, `AddLoaded`, `PutBack` the hot reload and
the recovery of disabled credentials, `Upload` an ingest, `Drop` the
administrator's file, `Restart` the end of the process without waiting.

*Runs.* Two goroutines are enough for each race the code has between two
operations on one path (deletion against save, scan, upload; save against save).
Three accounts and three tokens let an account be removed, loaded and removed
again; a full queue is reached in the worlds with capacity 1. `account_pool` has
five worlds (all operations with faults; removals with one and with two savers;
tokens on their way). *Fairness.* Operations run on; save workers are not starved
(`SF`, a worker is free only now and then).

*Proved.* `TypeCorrect` and `PooledStaysLive` from
`Inv` = types, goroutines hold real accounts and tokens (`Held`), so do the pool
and the queue (`Born`). `SingleWriterKeepsWhole` from `WholeInv`: with one saver
(`Sole`) a descriptor is open only between `Open` and `Fill` and only on `tmp`
(`Descriptors`), and what is about to be published has been written (`Ready`).
`RemovedStaysRemoved` (`RemovedForGood`) from `GoodInv`, for the worlds in which
nothing adds accounts (`Removing`): descriptors refer to files that are there
(`Refers`); there is one account, and whoever works and whatever is queued is for it
(`Single`). While it is pooled its file is there and nobody is about to take it
(`Listed`). Once it is not, it is marked deleted, and a file that is there, or is
published again by a late save, is still to be taken away by somebody (`Swept`);
or the process began without a credential (`Blank`).
Any number of goroutines, suffixes, accounts, tokens and crashes.

*Seen on the way, in no run*: a stale pointer handed to RemoveAccount takes an
uploaded successor out of the index; removal racing an upload deletes the file
just saved; a refreshed token that is only queued when the quota check disables
the account is lost with the credential; an upload of more accounts than the
queue holds (4096) drops saves.

### PickCache (`auth/selector.go`, picks of `auth/manager.go`)

`Look` reads the shared list, `Race` is the compare-and-swap on `refreshing`,
`Spin` what the loser of a first build does, `Build`, `Store`, `Release` the
winner, `Probe` and `Grab` the search from the cursor and the compare-and-swap on
it, `GiveUp` the next pass, `Last` the filter without a list. `Flip`, `Remove`,
`Invalidate` and `Tick` are the rest of the program.

*Abstractions.* The order by used percentage is data: any order. The clock and
the list are read in one step, and the places of a list are looked at in one
step: what the steps between could observe is another state of `up`, which
changes freely before and after. `up` is `accountPickableAt` for the current
time. Lists live for one tick, one place is probed per pass and the cursor wraps
at 2: the smallest values at which a list is fresh, stale and expired, a probe
misses an account that is there, and two goroutines want one turn.

A retry hands the selector the accounts that it has not excluded, and the list built
from them is stored for everybody. `from`, a history variable beside the list, is what
its builder had excluded.

*Runs.* `pick_cache`: one account that comes and goes; two accounts of which one stays,
picked with no exclusions and by retries that exclude just that one. *Fairness.* Picks
run on, time passes.

*Proved.* `SteadyFound` from `ListsCarrySteady`: every list that is shared, or in a
goroutine's hands, or seen by the loser of a race, holds every account that stays
pickable, or its builder had excluded all of them (`Carries`, `CacheCarries`). So a pick
fails for no other reason; that one is real (`manager.go:1239`): a retry all of whose
candidates are down stores an empty list, and every other pick fails until it expires
(200 ms) or somebody invalidates it. `TypeCorrect`. Any number of goroutines, accounts,
probe limits, list lives and sets of exclusions.

### TokenRefresh (`auth/manager.go`, `auth/refresh.go`)

Refresh tokens are numbers in the order of issue; `server` is the one that is
accepted. `Begin` is a loop, a request's inline refresh, a recovery after 401 or a
quota policy; `Join` and `Land` are the singleflight; `Race`, `Wait`, `Release`
the account's flag; `Claim`, `Serve`, `Failed` the exchange and its retries;
`Refused`, `Dead`, `Granted` what the status policies and the quota check decide;
`Back` the copy of the token to the caller's object; `Replace` the disabling and
restoring of the credential while a request runs.

*Abstractions.* The account always has a refresh token and the server always
rotates it; a full recovery semaphore is a choice; the token is replaced at most
once. *Bounds.* Two goroutines, three tokens, two attempts (three in the
background refresh): two attempts already send a token again after a lost answer.
*Fairness.* Every step of a refresh ends: `refreshRequestContext` bounds the
network.

*Proved.* `RecoveriesShareAFlight` (who leads is the flight) and `TokensSpentOnce`
from `InvHolds`: who is between taking and giving back the flag is the one the
flag names, so only that goroutine moves the account and the server apart
(`InStep`), and it brings them together before it lets go. The premise of
`SpendsLive` is needed: an answer that is lost after the server has rotated is
followed by a retry with the spent token, and the quota policy's refresh does not
take the flag. `RecoveryIsShared` (`FlightShared`: who joined a flight holds its token
or a newer one) and `PoolKeepsNewest` (an action property that only the theorem
states: the pool's account never gets an older token) from two more conjuncts.
`Issuing`: what the server issued last is newer than what any account holds or any
request sends, until the one answer that brings it is stored. `Sharing`: until the
credential is replaced all hold one account object, and the account a flight was led
with has at least the flight's token. `TypeCorrect`. Any number of goroutines,
attempts and tokens.

### AttemptBudget

What a caller of the executor relies on, in a dozen lines: a request spends at most
`Budget` attempts (`Attempt`), its outcome is final (`Conclude`), an answer or a
refusal comes from an attempt. It is an abstract specification; RequestRetry and
StreamRelay implement it at two levels, `WithinBudget == Bound!Spec` in each. In
RequestRetry an attempt is a request sent to the upstream, in StreamRelay a
response that is opened, which is what RequestRetry does as a whole.

### RequestRetry (`executor/codex.go`, retry configuration of `handler/proxy.go`)

`req` holds the locals of `sendWithRetry`. `Pick` is `pickAccountForAttempt`
with its variants (`Regular`, `Recent`, `Cooling`), `Check` the quota precheck and
the reselection it may lead to, `Fresh` the refresh of a token before use, `Send`
and `Answer` the exchange and what its status leads to, `After` the choice between
another round, the fan-out and the end, `Fall` and `LastAnswer` the
probe of a recently successful account. `Gather` and `Regather` choose the members
of `concurrentRetryAfter429` and `FanSend`, `FanAnswer`, `FanRead`, `FanCut` and
`FanTimeout` are its goroutines, the loop that receives their results and the
cancelled context.

*Abstractions.* Which accounts are up is open at every pick, as cooldowns begin and
end at any time; the answers are the four kinds the code tells apart. The
attempt that fails calls setters of AccountStatus and starts checks of QuotaWatch.

*Runs.* `request_retry` has three accounts, `max-retry` 2, two reselections, a
fan-out of two, in five worlds: healthy retry, precheck, fan-out, a shared list
that ignores exclusions, accounts with and without a success. `MaxRetry = 2` is the
least at which the late attempts use the recent accounts before the last; three
accounts are one more than the fan-out takes. `request_winner` has no retries: the
disagreement lies within one fan-out. *Fairness.* `WF` on what the
process does by itself, none on the answers: `ResponseHeaderTimeout` is 0 unless it
is configured, and the upstream may keep silent for ever. So `GetsOn` says no more
than that a request does not go round in the process without asking anybody.

*Proved.* `TypeCorrect`; `NothingLeaks` (a body that is open is the caller's, or is
read by a member of the fan-out that will close it, so no loser of the race stays
behind); `NoAccountTwice`, where the list is the caller's own; `RetryWithinBudget`,
the refinement.

### StreamRelay (`executor/stream.go`, `provider.go`, `handler/fallback.go`, `claude.go`)

One request of a client. `Open` opens a response; `Probe` is the look at the
first events that may replace an empty one; `Line`, `WriteFails`, `End`,
`EndClaude`, `EndCollect`, `Canceled` are the pump of the client's API; `Bridge`
opens anew around a pump that failed, `Stage` goes on to the provider and then
to the standby pool. `Leave` is the client, who may go at any time. `voice` tells
what the client's bytes come from, seen from the response at hand.

*Abstractions.* A line has content or none, and a stream breaks off or ends. A
stream that is cut off without an error ends, as it does in the code: what
arrived is taken for the whole answer.

*Runs.* `stream_relay`: seven worlds cover the six pumps and collections, with and
without provider, standby pool and fan-out. `max-retry` 1 gives three
rounds of the pump and three bridges, so there is a first, a middle and a last one
of each, and `empty-retry-max` 0 the two looks of its default.

*Proved.* `OneVoiceHolds`: the client hears one response. `NothingSilentHolds`: a
request that was answered while its client was there has told it something.
`BodiesAreClosed`: one body is open while one is read, and none else.
`RelayWithinBudget`: the four nested loops open no more than `Opens` responses.
`RefusalEnds`: a refusal is final (`RefusedGoesNoFurther`).

### EventStreams (`translator/response.go`, `translator/claude.go`)

One stream of upstream events is read by `ConvertStreamChunk` (`chat`, and `told`
what its client adds up) and by `ConvertCodexStreamToClaudeEvents` (`claude`, with
the blocks the client has). An action is an event: `Created`, `Thought` and
`ThoughtDone`, `Text` and `TextDone`, `Image`, `Called`, `Args`, `ArgsDone`,
`CallDone`, `Completed`; `PartAdded`, a content part with a whole thought; `ThoughtEnds`,
a thought without a last event; `BrokenOff`, with which the stream ends early, and
`ReadFails`, with which reading it fails and nobody is told anything more.
`Normalized`, `NonStreamOf` and `ClaudeNonStreamOf` are what is made of the
completed response for clients that want no stream: of the items that it lists, the
images, and the items whose last event came.

The upstream tells each item as it likes: deltas, a content part and a last event in
any mixture, within one response. `up.quirks` notes what the translators do not tell on
as it was meant, and where a property has an exception it names that quirk: a thought in
a content part and in other events too is told twice (`beside`, `response.go:433`); a
summary that only its last event has, after one in deltas, is not told (`muted`); a
Claude client gets nothing that came without deltas (`unpieced`); and a thought that
follows a text is started without a stop of the text (`astray`, `claude.go:348`).

*Abstractions.* Texts, thoughts and arguments are counted in pieces; an item is known by
its place. Of the upstream it is taken that it tells one item after the other, text in
pieces, and the arguments of a call that it has announced before its end. *Runs.*
`event_streams`: three items of up to two pieces, so that each kind follows each with
a third before, between or behind; no stream is left out. `CollectedWhole` ranges over
every set of listed items and every set of texts and thoughts with a last event. The
configuration `claude_blocks` shows what `astray` leads to.

*Proved*, for any number of items and pieces. `ChunksAddUp` (`ChatWhole`) from
`ChatInv`: what the client has added up is what the finished items hold
and what of the item at hand was told (`Spoken`), the flags of `StreamState` know what of
that item was told (`Thinking`, `Calling`: the calls of the client are those of the
response under successive indices), and the reason of the last chunk (`Finishing`).
`CollectedOnce` (`CollectedWhole`): what is made of a completed response depends on it
only by the counts of texts, thoughts and images and by its calls; those of the items at
one set of places and at another come to those at both (`Pick`), so images that are
added and items that are listed are counted once. `BlocksArePaired` (`BlocksPaired`):
`Solid` holds of every stream (the message begins once, ends once if it is read to its
end, and knows of its calls), and `Paired` of the blocks as long as nothing is astray:
they are numbered in turn and only the last may be open (`Numbered`), the flags of
`ClaudeStreamState` name its kind (`Flagged`), and it follows the item at hand
(`Follows`). `PiecesArePassedOn` (`ClaudeWhole`), on top of these: the blocks of each
kind hold what the finished items and the one at hand have sent (`Matching`).

*Seen on the way, in no run.* Items of two calls at once would be announced by one
flag (`response.go` tells the second one twice); the model has them one after the
other. The non-stream answer for Claude sets the path `content.-1.input`
(`claude.go:650`), which appends an element to the content, and the call stays
without input. *Said by a property.* A completed response that lists a call, or has an
image, and not its text, loses the text for a client without a stream (`codex.go:1049`,
`codex.go:1079`), and so does one that lists nothing, of whose texts only some had a last
event (`codex.go:1187`): `CollectedWhole` says of each listing what is answered.

### RequestTranslation (`translator/request.go`, `translator/claude.go`, `thinking/*.go`)

A conversation of a client of one of three APIs: `Ask` adds the client's
messages, with the results of the calls before, and translates the whole
(`Translate`); `Respond` is the upstream's answer as the client is told it, names of
tools restored. `Shortened`, `Unique`, `Short` and `Restored` are the cutting of
names, `ParseModelSuffix` and `ApplyThinking` the thinking suffix of a model,
`FromChat`, `FromClaude`, `FromResponses` the messages.

*Abstractions.* A name is a sequence of symbols, which are integers: `mcp__`, `__` and
the number behind a cut name are one symbol each, so that numbered names differ as
their numbers do. In the run they are short, and the limit is 3 instead of
64: long, short, cut and numbered names exist, and collide. Of a content only the place
is told that it had in the conversation (message and block), so `Carried` can say that
each arrives once and in order. Tools the upstream has of its own are of type `other`.
*Runs.* `request_translation`: two turns, since a call of one turn is history in the
next, when the tools may differ; two calls, since two names may collide.

*Proved*, for any tools with any names (of a Claude client: that fit and differ), any
limit above 1, any number of turns and calls: `NamesAreRestored`, `HistoryNamed`,
`ConversationCarried`, which are the run's three properties; section 5 says how.

*Left out*: repairs of JSON schemas (`fixSchemaNode`), the cleaning of call ids for
Claude, the deletion of fields that the upstream does not take. *Seen on the way, in
no run*: long names of custom tools, and long names for Claude clients in a
stream (`claude.go:455`), are not restored; images in results of Claude tools and
images given by their address are dropped.

### QuotaWatch (`auth/quota.go`, `quota_window.go`, `health.go`, quota handlers of `auth/manager.go`)

An account of a pool and the goroutines that ask for its quota: after a failed
request, the recoveries after a 401 and a 429, the recheck loop (`Loop`), the quota
sweep, the precheck, the check after a refresh, the probe of a restored credential.
`Begin` starts one, `Store` stores the answer. `Judge` is the look of
ApplyQuotaThreshold at what is stored (`Threshold`), `Decide` the setter that follows
when the lock has been released and taken again, and anything may come between.
`Restore` and `Reactivate` are `if !IsManuallyDisabled() { SetActive() }`, which a 429
recovery runs before that look and a 401 recovery after it (`Lastly`). `Policy`, `Final`,
`Legacy`, `Remove` are what the configuration makes of a refusal, by its code,
`NextRound` the backoff of a recovery. `HealthRound`, `HealthAnswer`,
`PoolGrows` and `PoolShrinks` are the health check's batches over a pool that
changes. `RequestFails`, `Disable`, `Enable`, `CooldownEnds` and `Calms` are the rest
of the program and the world.

*Abstractions.* The status is the one under the mutex (AccountStatus has the copies).
A time is over or to come. One round of backoff stands for three: all are alike
but the last. *Runs.* `quota_watch` has five worlds: one goroutine of any
kind beside the loop without policies; one with policies that refresh, wait, cool down
and remove, in two worlds; two goroutines that ask before a request, so that answers
overtake each other; and the health check with a batch of 2 in a pool of up to 4, so that
batches divide the pool evenly and not. `Covered` counts the rounds an account
has been missed since the pool last changed: RemoveAccount moves the last account
to the place that became free, and over a changing pool nothing is
promised. The cursor, a counter that only grows in the code, is kept below `Cycle`, a common
multiple of the pool's sizes (an ASSUME says so), which no remainder can tell from the
counter. *Fairness.* The recheck loop ticks and goroutines that run go
on (`WF`); nothing is assumed of requests or of time. `QuotaReturns` has the premise
`calm`: the account has quota, its requests succeed, and the administrator leaves it
alone; its one exception, a cooldown that has overwritten a disable by hand, is one the
recheck passes over (`manager.go:2174`).

*Proved*, for any number of goroutines, rounds, windows and accounts, and any batch.
`AnswerIsHeeded` (`AnswerDecides`): the last decision is what the stored answer says;
either a goroutine is about to look at the answer, or one that has looked is about to
set what it says (it is not `overtaken`), or the account is as the decision says. The
history variable `decided` is withdrawn when another setter comes, and when a goroutine
sets what an older answer said: with the lock released in between, the code promises
nothing then. `EveryoneIsVisited` (`Covered`) from `Near`: a batch that misses the
account brings the cursor nearer to it by the length of the batch, so the rounds it has
been missed, times the batch, and the way that is left (`Ahead`) stay within one turn of
the pool. The arithmetic of remainders it needs are lemmas of their own. `WatchTypes`, with
what each kind of goroutine may be at (`Sane`).

*Seen on the way, in no run.* UpdateToken leaves `QuotaExhausted` set, so that a later
403 cooldown is cut short by the recheck (`types.go:553`). The last check of a 429
recovery is not acted on (`manager.go:3081`). A stored low answer stays low past its
reset, as `ResetsInSeconds` is added to the present time again
(`quota_window.go:120`). A check with quota left ends a cooldown that a later 429 has
just set. The recovery from a 401 makes the account active after its own check has just
cooled it down for low quota (`manager.go:2858`). *Left out*: the stop channel of a
recovery, percentages of use, the lifetime of the precheck's cache.

### UpstreamProvider (`upstream/provider.go`, its handler, picks of `handler/proxy.go`)

`Put` and `Fetch` are the administrator's calls, `Write`, `Remove`, `Rename`, `Store`
and `Clear` the steps of a save in the order of the code, `Fetched` the list of models
that arrives later and is stored if the target is still the same. `Send` starts a
request with a goroutine, `Do` is the HTTP client in it, `Take` the answer before the
timeout of the headers, `GiveUp` the timeout, with the goroutine (`Drain`) that
closes a late body; `Mark` sets `active`, and `Pick` lets go of it.
`Restart` is a crash followed by Load.

*Abstractions.* A list of models is named after the target it came from. WriteFile
is one step; a crash is one of the process, so what was written stays. `acked` holds the
settings of the last acknowledged save until another save removes the file, or
overlaps: two saves share the temporary file and nothing keeps them apart, and
beyond that the code keeps no promise. `up` is whether a pick finds an account, of
the pool or, through the controller, of the standby pool.

*Runs.* `upstream_provider` has two worlds: two administrators, for what may overlap,
and one with two requests, for what a request may do to another. Three saves, one
crash, two addresses and keys. *Fairness.* Goroutines run on, the HTTP client
returns once its context is cancelled, requests keep picking; nothing is assumed of
when the provider answers.

*Proved.* `TypeCorrect`; `SavesLast` (`AcknowledgedLasts`: what was acknowledged is
in memory and on disk, through failed writes, lists that arrive and crashes);
`FetchesKeep` (a list that arrives late changes nothing but the list of its own
target). *Seen on the way, in no run.* A Rename that fails after the Remove leaves no
file, while memory keeps the old settings. An administrator who leaves the key out
stores the key that was read before another one changed it. A request with the old
settings sets `active` late, and also for a provider whose answer is empty. The handler
lets go of the provider even when the controller answered with a standby account
(`proxy.go:460`).

## 5. What the proofs rest on, and what only TLC checks

The theorems, in eight modules, assume the named ASSUME of their module (types of the
constants, a value that is no goroutine, finiteness where cardinalities are taken),
which TLC evaluates in every run, and nothing else. They hold for all values of the
constants, the bounds included. For the modules of section 4 whose invariant is not
described there:

- *RequestRetry.* `Inv` has a conjunct per reason: `Picked` (the account at hand is
  one), `Looping` (the counters of the loop are in bounds), `Crew` (the fan-out waits
  until it flies, and is cancelled once the request has moved on), `Prior` (what can
  only be after something was sent), `Exclusive` (what the rounds tried is excluded),
  `Counted` (what has been spent) and `Settled` (the outcome is there when the
  request is over). The refinement needs `Counted`, `Prior` and `Settled`: attempts of
  the rounds are counted by their number, those of the fan-out by the goroutines
  that have sent, which go on while the request has moved on, and the last
  resort is one more.
- *StreamRelay.* `Counters` and `Counted` bound the responses opened by the position
  in four nested loops (stage, bridge, round, look), a product that the prover needs
  spelled out step by step; `Heard`, `Quietly` and `Opening` say whose bytes the client
  may have at each place, `BodiesClosed` is inductive with them, `Ended` is about the
  outcome.
- *RequestTranslation.* `TranslationInv` says that what is sent is the translation of
  what was told (`SentFrom`) and that what was told is as it should be (`WellTold`): each
  block has its own place, each message has only what its API lets its role say, each
  call of a function has the name that the client declared, each result answers an earlier
  call. That the next answer keeps the third needs `RestoredName` and `ReverseMap`: for
  the tools of a request, restoring undoes shortening. It rests on `ShortsDistinct`
  (short names of different names differ), and that on `UniqueNew`: of the numbers 1 to
  n + 1 one makes a name that is not among n taken ones. `HistoryNames` is
  `ShortInjective` applied to the tools of now. `Carried` is `Brings` (all blocks but
  the thoughts come, nothing else, none twice, in the order of their messages), which is
  shown of one message after the other for each API (`ChatMessage`, `ClaudeMessage`,
  `ResponsesMessage`), carried over from the messages to the conversation
  (`BringsAll`), and composed (`BringsOn`), as a Claude conversation becomes a chat one first.
- *UpstreamProvider.* `Alone` (a save that counts as alone is the only one), `Underway`
  (from the removal of the file on, nothing counts as acknowledged), `Whole` (what such
  a save has written is still there) and `Current` (a fetch saves the settings of
  now with another list) are inductive together with `AcknowledgedLasts` itself.

Both refinements of AttemptBudget are proved: initial states map to initial states and
every step to a step or a stutter.

The statements about sequences (EventStreams and what its clients add up;
RequestTranslation) need
induction over their length. The library's induction theorems have an operator as a
parameter, which no installed prover instantiates, so these proofs go another
way: `NatLessThanWellFounded` and `WFMin` of WellFoundedInduction say that a *set* of
numbers that is not empty has a least one, and the set of lengths at which a statement
fails takes the place of the predicate. The folds of both models (`Kind`, `Count`;
`Functional`, `Shorts`, `Kinds`) are recursive functions for that reason. That such a
function exists is proved too (`Built`, `FunctionalIs`, `KindsIs`, and `FlattenIs` for
the library's FlattenSeq), and what they make of an appended, a changed and a joined
sequence are the lemmas on which the rest stands.

Every safety invariant and action property of a passing run that is not about
liveness is stated by a theorem. Only model-checked are the liveness properties
(`StandbyReleased`, `CancelledLoopsEnd`,
`ChannelReenabled`, `TokenReachesFile`, `RemovedFadesOut`,
`FlagFreed`, `GetsOn`, `QuotaReturns`, `NothingLeft`, `SwitchedBack`), which need
fairness and so lie outside what the prover handles.

## 6. What is not modelled

PROJECT.json lists each part with its reason. Not modelled: the settings of qmsg and
NewAPI (their file is replaced as the provider's is, and UpstreamProvider shows what that
means); the OAuth login; the database mode; API debug records and the event log (bounded
lists for display); start and shutdown but for the lost saves of AccountPool;
configuration, network dialing, static files and the browser helper, which convert data
or do I/O and keep no state between calls.

Of the modelled parts the following is left out. Accounts of different paths do not
interact in AccountPool (the code shares only the lock and the queue between them, and
the queue's capacity is in the model). The quota-first and fill-first selectors are
stateless. The limiter of 401 recoveries, the image endpoints and the WebSocket of the
handler are not in RequestRetry and StreamRelay. Progress streams and logs carry no state.
