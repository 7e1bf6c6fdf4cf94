# Quota in TLA+

This directory holds a formal model of the core of [Quota](../src): TLA+ modules
translated from the source, configurations that model-check them with TLC, and
theorems about them proved with TLAPS. `PROJECT.json` lists, for each definition,
the source lines it stands for, and for each property a plausible bug (a *mutant*)
that breaks it.

Paths below are relative to `src/`. Rust paths that begin with `service/`,
`state/`, `relay/` or `usage/` are under `packages/service/src/`.

Contents: [the system](#the-system) · [the components](#the-components) ·
[what is modelled](#what-is-modelled) · [what is checked](#what-is-checked) ·
[where the code and its words part](#where-the-code-and-its-words-part) ·
[what is proved](#what-is-proved) · [what is not modelled](#what-is-not-modelled) ·
[the plan](#the-plan) · [running it](#running-it)

## The system

Quota shows what is left of a developer's AI subscriptions, and what was used.

* **QuotaBar** is a macOS menu-bar application. Its Swift user interface talks to a
  private **Rust service** over line-delimited JSON on stdin and stdout. The service
  reads providers' quota APIs, indexes the log files that coding agents leave on
  disk ("Usage"), keeps two SQLite databases, and synchronises with an Account.
* **QuotaRelay** (TypeScript, Hono, Node and SQLite) holds the Accounts: devices,
  sessions, quota reports, hourly Usage, settings and history.
* **Quota iOS** and **Quota Web** read an Account.

What is hard in it is in three places.

1. *The service is many threads around one mutex that is never held for long.* An
   IPC worker, a stdin thread, a scheduler, sign-in and sign-out threads and up to
   four refresh threads take `Mutex<RefreshState>` for a few statements and act on
   what they saw after they dropped it.
2. *Usage crosses two databases and a network.* A scan writes facts and marks into
   `cache.sqlite`; an upload queue, the identity it is owed to and the session are in
   `identity.sqlite`; the Relay has the copy that other devices see. No transaction
   spans two of these, and the device, the network, the user and the log files'
   writers move between any two steps.
3. *Credentials are single-use.* A refresh token is spent when the Relay rotates it,
   and a sign-out must revoke what it can no longer read.

## The components

For each: the state it keeps, its operations, whom it touches, what is hard, and
what makes it correct. **Modelled** components are in bold.

| Component | State | Operations | Hard about it |
|---|---|---|---|
| **Refresh lanes** (`service/mod.rs`) | `RefreshState`: four held lanes, four pending requests, a trigger, owed providers; the `refreshing` flags | request, fold, take, spawn, apply, clear, start what waits, cancel, shut down, reset the cache | every lock-protected block interleaves with every other; spawns fail |
| **Usage scan and facts** (`usage/scan.rs`, `state/mod.rs`) | file index, records, partial hours, hourly facts, the rebuild flag (`cache.sqlite`) | discover, compare, read from an offset, compare again, apply in one transaction, recompute hours, rebuild the cache | files change while they are read; scans are cut, cancelled, fail in part |
| **Usage upload, device** (`service/backend.rs`, `state/mod.rs`) | dirty hours (`cache.sqlite`); outbox, upload context, version counter (`identity.sqlite`) | mark, stage, clear, batch, send, forget, quarantine, re-seed on a new identity | crashes between two databases; answers late or lost; sign-out and deletion at any point |
| **Usage upload, Relay** (`apps/relay/src/state/d1-usage-state.ts`) | `usage_hourly`, `usage_hour_scans`; the device row's generation, revision, watermark, sign-out | authorize, compare, guarded batch, answer; sign in, revoke, delete | the comparison and the batch are two reads of the database apart |
| **Session lifecycle** (`service/mod.rs`, `state/mod.rs`) | session row with its epoch, `login.active`, Account component | sign in, cancel, sign out, retry, restart | compare-and-swap on an epoch that starts again after a sign-out; issued tokens must not be dropped |
| **Token rotation** (`relay/mod.rs`, `d1-account-state.ts`) | token family here and there | rotate, persist, clear, revoke | the token is spent before its successor is stored |
| **Account read and settings** (`relay/mod.rs`, `app.ts`) | ETag-cached summary and settings document | conditional read, compare-and-set write | stale tags, answers out of order |
| **Cadence and scheduler** (`service/cadence.rs`, `schedule.rs`) | provider clocks, cadence records, demand marks | wake, judge, ask, keep, answer a demand once, back off | records written back whole; plans and summaries read before they change |
| **Quota pass and observations** (`backend.rs`, `observation.rs`) | the quota report | gate, collect, merge, restate, upload, retry | one pass to say what can no longer be read; uploads lost or late |
| **Quota history** (`history.rs`, `relay/history.rs`) | local samples, sync record | sample, back-fill in chunks, judge what was lost | the switch turned off and on unseen, answers lost, rows expiring |
| **Relay sessions and grants** (`d1-account-state.ts`) | grants, devices, session families | complete, consume, authorize, rotate, revoke, delete | one-use grants and tokens under concurrency |
| **Relay quota reports and history** (`d1-account-state.ts`, `app.ts`) | readings, history rows | compare and batch, three looks at the switch, expire | late and repeated uploads; deletion in between |
| Relay core, summaries, public profile | none | aggregate, project | pure |
| Relay platform | database, HTTP, caches | batch, migrate, serve | a batch must be one transaction |
| Provider status poll | last status | poll | at most one |
| IPC and protocol | none | frame, decode, validate | data |
| State stores and migration | both databases | open, upgrade, import | straight-line |
| Provider collectors, usage parsers, pricing, model catalog | none, files, a cache | fetch, parse, look up | data and third-party formats |
| Read-only command, UIs, tokens, packaging | none of its own | show | — |

What makes them correct, for those with state:

* *Lanes*: what must not overlap does not; every request that waits is started and
  keeps its strength; a shutdown reaches every refresh; nothing shows as refreshing
  for ever.
* *Scan*: what is skipped was read; what is resumed behind was stored; facts are the
  sum of records; a scan that saw too little deletes nothing; in the end all is
  stored once.
* *Upload*: a version names one reading; later readings win; what was deleted stays
  deleted; when the device is done it has delivered, and it gets done.
* *Session and tokens*: a result for one session never lands in another; every token
  issued is installed, held or revoked; nobody is signed out whose family lives.
* *Settings and history*: off means nothing is held; the record of what was sent does
  not lie; a device ends with the Account's document, and backfilled.
* *Cadence*: floors and backoff are kept; a reading made elsewhere is spared; a request
  stays owed until it is answered.
* *Reports*: the Account holds what the Mac last read, and shows nothing as current
  that the Mac has lost; a later reading is never replaced by an earlier one.

How they interact: the scheduler, the IPC worker and the sign-in and sign-out threads
ask the **lanes** for refreshes. A refresh collects quota, runs the **scan**, then the
**device's upload**, which sends to the **Relay's upload**. The lanes guarantee that
only one refresh scans and uploads Usage (`OneCollector`), which is why `UsageScan`
and `UsageSync` have one scanner each; the scan writes what the upload calls `facts`
and `dirty`. Which providers a quota pass asks is decided by the **cadence**; what they
answer is the **report**, uploaded at the end of the same pass, followed by the
**history**. All uploads go under the token of the **session**, whose own races are
checked once, in `Session`; in the other modules a session is there or it is not.

## What is modelled

Actions and definitions carry the source's names where they can; where one stands for a
part of a function its comment says which. The mishaps a module knows are listed at its
`Mishaps` constant, so that a configuration says which of them it allows.

### RefreshLanes — `service/mod.rs`

Every block of the source between taking and dropping `Mutex<RefreshState>` is an
action, and what a thread does between two blocks is a step of its own, so the model
interleaves wherever the code does.

* A *caller* is a thread that asks; a *slot* is a lane thread together with the cancel
  flag it was spawned with. `held`, `pending`, `pendingTrigger`, `owedProviders` and
  `owedTrigger` are the fields of `RefreshState`; `refreshing` is the flag of the
  component records.
* `Fold`/`Register` are the two outcomes of `request_lane` and `request_full`;
  `Launch`/`LaunchFails`/`Unmark` the spawn, and what follows when it fails;
  `Begin`…`Unset` the lane thread with its `RefreshSink`; `Wake`, `TakeFull`,
  `TakeLanes`, `TakeNothing` are `maybe_start_pending`; `Shutdown`, `Sweep`,
  `LogoutCancels`, `ResetBegins`…`Reset` stop what runs.
* Triggers are kept up to the priority `coalesce_refresh_trigger` gives them. Pricing
  follows Usage in every lane and is left out. `swept`, `owedManual` and
  `spawnFailed` are history variables: no guard reads them.
* The first request is the startup refresh `start_scheduler` registers (`Startup`); a
  lane for it is held in the initial states.

### UsageLedger and UsageRelay — `d1-usage-state.ts`, `d1-account-state.ts`

`UsageLedger` is the promise: an hour gives way only to a newer scan, never to one from
before the watermark; deletion wipes a device; every change moves the revision.

`UsageRelay` is the code. An upload is authorized (`Authorized`), compared with what is
stored (`CheckUsage`, a read) and written by one batch (`CommitUsage`) whose guards
`deviceIsCurrent` and `noNewerScan` are asked again inside it. Between the two may
come other uploads, `SignIn`, `Revoke`, `DeleteDevice` and the clock. Clients send
anything, under any session or generation ever issued. Instants are half hours, so that
a watermark can fall inside an hour: the Relay rounds it down (`FloorHour`), the device
up (`CeilHour`). The refinement is `Ledger == INSTANCE UsageLedger WITH ...`, and
`KeepsItsLedger` is checked and proved.

`Authorized`, with the reads of the device and the stored versions, is one action:
each of them is asked again inside the batch, so splitting them shows nothing more
about what is written.

### UsageSync — `service/backend.rs`, `state/mod.rs`, `relay/mod.rs`

The device on top of the same Relay actions. Variables carry the name of the table or
field. One lane process (see above) runs `Scan`, `Control` (the sync that a full
refresh starts with), `Context` → `InstallContext` (`ensure_usage_context`: seed the
marks, then store the identity), `Stage` → `WriteOutbox` → `ClearDirty`
(`stage_outbox`, across both databases), `StartDrain` → `SendBatch` → `Answered` with
`DropUnsendable` (`drain_outbox`). A refresh can be `CutShort` between any two of
these; a request it waited for goes on without it. `LoseCache`, `Login`, `Logout`,
`RevokeArrives`, `Delete`, `ToggleUpload` and `WriteLog` are the world around it.

Abstracted: one agent; an hour's rows are a model value; a scan is atomic (its inside
is `UsageScan`); the Relay's answer to a control sync and the epoch-guarded write of it
are one step, since a failed guard ends the refresh as `CutShort` does; deletion's 409
and a 401 are one answer; the account goes with the device record.

### UsageScan — `usage/scan.rs`, `state/mod.rs`

One agent's log files and what the service keeps of them. A file is a sequence of
lines of equal length, the last of which may be *open* (no newline yet) or *torn* (half
a record); its inode is its name, its modification time the event that wrote it, its
digest the prefix itself, and its size is counted in thirds of a line so that open and
torn tails differ from whole ones. The flag of a rebuild is the device's: a complete scan
of this agent clears it, and so does one of any other (`AnotherCompletes`). `Begin` reads the index and discovers the files;
for each, `Open` compares metadata and decides to skip, resume at an offset or read
whole; `Read` reads; `Close` compares again and decides what the index may say;
`Apply` is the transaction of `apply_usage_scan`, with partial progress, replaced and
appended records, partial-hour marks, recomputed hours and the rebuild flag. Agents
write, finish a line, rewrite and remove files between any two of these; directories
hide, files fail, scans are cancelled or cut, the cache is rebuilt, the hour turns.

`ContextFree` is `UsageParser::CONTEXT_FREE`, which decides whether a scan may resume.

### RelaySessions and Session — `d1-account-state.ts`, `account/service.ts`; `service/mod.rs`, `state/mod.rs`, `relay/mod.rs`

`RelaySessions` is the Relay's half: login grants, the device row and the families of
refresh tokens with the unspent predecessor a family keeps. A token is a family and a
serial number. `Session` is the device on top of it: one row with its epoch
(`SessionRow`, `AtEpoch`, `NextEpoch`); the sign-in thread from `AskLogin` over
`Callback`, `ExchangeArrives`, `Finalize`, `Install` to `LookAgain`, with `Cancel` at
any point; the sign-out (`AskLogout`, `MarkPending`, then a thread per
`spawn_logout_retry`); the lanes, each of which takes a `Snapshot` of the row, waits for
`refresh_lock`, rotates (`RotateArrives`, `KeepRotation`), sends its request and deals
with a refusal (`Refused`); and `Restart`, which drops a row the store finds unusable.
Requests and answers are lost, and some arrive late. A successful write of the row is
taken for granted (no SQLite failures).

### HistorySync — `relay/history.rs`, `history.rs`, `app.ts`, `d1-account-state.ts`

The settings document with its revision (the ETag), of which only `history.sync`
matters; the rows of `quota_history`; a device's samples, cached document and sync
record. Two threads per device, the refresh lane and the panel's, each take the steps
of `sync_quota_history_after_collection` and of a settings change: read or write the
document, store it, note the switch, plan, upload a chunk, judge the answer. The Relay
deletes on switching off, refuses when off or full, sweeps what expired. One window of
one subscription; an instant is a bucket; what was used only grows within a window, so
a sample is its bucket and how many there have been in it: a pass samples the bucket it
falls in as often as it likes (`Collect`).

### Cadence — `service/cadence.rs`, `service/mod.rs`, `backend.rs`

One Mac and its providers, one account each. A pass is `Begin`, `Judge` (floors,
backoff, raised floor, what another Mac has just read), asking with any of the outcomes,
and `Keep`, which writes all records back from what `Judge` read. Around it: provider
clocks, the Account read that notes a collection request and wakes the scheduler before
the summary is stored, the demand signal, manual refreshes, resets, restarts, passes cut
short with or without a refresh to follow (`CutPass`), threads that cannot be started
(`SpawnFails`), collectors that panic, sign-ins that go and come back, the cache reset
(`ResetCache`). A request that finds the lane free takes it and leaves what was folded
where it is (`TakeLane`, hazard `:1932`). Time is in multiples of the shortest floor. Tiers and jitter are any interval
from the floor up, which is more than the code does.

### QuotaReports — `backend.rs`, `relay/mod.rs`, `d1-account-state.ts`

What a Mac last read of one provider (`report`), what the Account stores of it (`rows`)
and the uploads between the two (`wire`). A pass leaves a result (`Ask`,
`AskNothing`, the 429 of `AfterLimit`), keeping the report before it as `previous`;
`Envelope` is what is uploaded: what was read, and, of a provider that failed, what the
report before it held, `Restated` as failed. The quota lane uploads once, a full refresh
at most twice (`tries`). The Relay compares (`Check`) and then runs its batch
(`Write`), whose inserts compare again and whose delete does not. Uploads are lost,
given up and handled late; services stop, users sign out, devices are deleted. A reading
is its instant and its status; `Validity` stands for `snapshot_valid_until`. `told`,
`untold` and the `alone` of an upload are history variables.

## What is checked

| Run | Instance | Asks |
|---|---|---|
| `lanes_drain` | 1 caller, 3 slots, 1 provider, 2 asks after the startup refresh, spawns may fail, fair | `TypeOK`, `OneCollector`, `ShutdownReachesEveryRefresh`, `PendingHasAStarter`, `ManualIsKept`, `RestingShowsNoRefresh`, `BacklogDrains` |
| `sync_safety` | 1 device and its Relay, 2 requests under way, every mishap but those below, a row the Relay refuses | `TypeOK`, `OneReadingPerVersion`, `CutHourStaysHome`, `DeletedStaysDeleted`, `KeepsItsLedger` |
| `sync_delivery` | 1 request at once, no sign-out, an hour too big to send and one the Relay answers with 400, batches of one, fair | `SettledIsDelivered`, `BacklogIsSent` |
| `scan_append` | 2 files of 2 lines, 2 hours, context-free, logs only grow, fair | `SkippedIsStored`, `ResumesBehindWhatItRead`, `FactsFollowRecords`, `CompleteIsWhole`, `ApplyLosesNothing`, `EventuallyMirrored` |
| `scan_whole` | 1 file, read whole, rewrites, bad lines and cancelled scans, fair | `EventuallyRead` |
| `session_safety` | 2 families of 3 tokens, 2 lanes, a sign-out thread; answers lost, a late revocation, restart, deletion, cancel, a request behind a rotation | `TypeOK`, `OneLiveFamily`, `StoredTokenWorks`, `NoRevival` |
| `session_signout` | 2 families of 2 tokens; requests lost, deletion, cancel, fair | `LiveFamilyIsHeld`, `PendingIsRevoked`, `SignedOutForCause`, `SignOutIsDelivered`, `LoginEnds` |
| `history_safety` | 1 device, a window of 4 buckets, 7 instants, chunks of 1, each bucket sampled up to twice, 3 revisions; a request lost, a restart or a full Account | `RecordIsHonest` |
| `history_follow` | 1 device with its panel, 2 instants, 3 revisions, the same events, fair | `OffHoldsNothing`, `SwitchIsFollowed`, `SettingsArrive` |
| `cadence` | 2 providers of different floors, 3 instants, 2 of: request, reading elsewhere, 429, failure, panic, offline, manual, reset, restart, cut, a sign-in that goes, a cache reset, a thread that cannot be started | `RequestIsOwed`, `AsksWait`, `SparesFreshReadings` |
| `reports` | 1 Mac, 2 subscriptions, 3 instants, 2 generations, 2 of: upload lost or retried, late, restart, sign-out, deletion; fair | `AccountHoldsReport`, `NewestWins`, `ReadingsArrive` |
| `cadence_limited` | 2 providers, 5 instants, one 429, one failure | `LimitsHold`, which the code violates: next section |

More configurations pass and are run by hand:

| Configuration, module | Instance | Adds |
|---|---|---|
| `lanes_safety` `MCRefreshLanes` | 2 callers, symmetry | the safety of `lanes_drain` with two threads asking at once (506 000 states) |
| `history_disagree` `MCHistorySync` | 2 devices that declare windows of 4 and 2 buckets | `TypeOK`, `ShortestLosesNothing`: they settle on the shorter duration |
| `cadence_answer` `MCCadence` | 2 providers, 2 instants, 2 of: request, restart, cut, reset; fair | `RequestIsAnswered`, the liveness behind `RequestIsOwed` |

`TypeOK` of `Cadence` holds in the run above when it is added to it; the type
invariants of the other modules are proved.

**Bounds.** They are constants whose comments begin with "bound".
*Lanes*: the exclusion table has four lanes, but no property relates more than two
threads that run and one that starts them, so three slots let two lanes run while a
third is taken. The startup refresh and two asks let two requests fold into one that is
still waiting; `lanes_safety` has two callers, so that a request lands at any point of
another's.
*Relay*: a crossing needs two uploads and one event between the check and the batch of
either; the instance has that many sessions, generations and versions and one more.
*Sync*: every loss needs one change of an hour, one event that cuts or re-identifies and
one change after it; three events allow that (`sync_safety` has more). Two hours and `MaxStaged`, `BatchHours` of
one or two make batches split, which is what quarantine is about. `sync_safety` sends
refused hours in batches of two; `sync_delivery` has one hour to a batch, because what is
queued beside a refused hour goes with it and is not delivered (below). With four events
`sync_delivery` passes as well, in about three minutes. `LastVersion` bounds
scans: at the bound nothing can scan any more, and `BacklogIsSent` holds there too, so
that `sync_delivery` leaves no work behind for want of a version.
*Scan*: three lines are needed only where a rewritten file must be longer than one that
was read in part; two files are needed where one is read while the other is hidden,
fails or is deleted. Four events let a log be begun, torn, finished and then cut or
rebuilt around.
*Session*: two families are a session and the one after it; a third token of a family
lets the Relay's predecessor be a spent one; two events let an answer be lost and the
service restart, or the device be deleted, on top of whatever the user does.
*History*: three revisions switch on, off and on again; with a window of four buckets and
a bucket of slack there is one between the oldest a device still compares and the newest,
and seven instants let the oldest expire while later ones live; two samples let a bucket
be sampled again before, between and after its uploads; chunks of one point make every
backfill of two buckets split. The panel's thread is in `history_follow`, whose
instants are fewer; `WhatIsNotSentIsHeld` is for any number of both. *Cadence*: the floors are 1 and 2, the raised floor 2, the first
backoff 3, a `Retry-After` 1 and the lifetime of a request 1, so that within three instants
each decides something the others do not, for one provider or the other: without the
backoff, the raised floor, the floor of a manual refresh or the record of a failure, or
with a reading that lowers the raised floor, TLC refutes `AsksWait` in this instance. *Reports*: two subscriptions
let one be named and the other not; with a validity of 2, three instants have a reading
that is still current after a newer one; two events let two uploads be given up, and
both be handled behind a third.

**Symmetry.** Callers, providers, requests and lanes are symmetry sets in safety runs; no run
with liveness uses symmetry (the temporal properties of `sync_safety` and
`session_safety` are safety: a refinement and an action property).

**Deadlock** is off in every configuration: callers may stop asking, agents may stop
writing, and bounds run out.

**Fairness.** `RefreshLanes`: a thread that has something to do goes on (weak fairness
of each thread's steps and of the steps that end a reset or a shutdown); a backend call
returns because each request in it has a deadline. Nobody has to ask.
`UsageSync`: the steps of a refresh, the two kinds of scan, the Relay handling what
arrived and the end of a request nobody waits for; the scheduler asks for refreshes for
ever (`run_scheduler`), which is what justifies fairness of `Scan`. Nothing is promised
of users, mishaps or the clock. `UsageScan`: the scanner's steps, for the same reason.
`Session`: the sign-in thread and the sign-out threads go on (the browser wait has a
deadline), every lane that began ends, and what is not lost arrives; nobody has to sign
in or out. Nothing is promised of `RetryLogout`: the retry hangs on a full refresh, which
the scheduler never asks for (`run_scheduler`, `service/mod.rs:762`) and a failed sign-out
does not start (`:2795`), so it comes when the user refreshes, settings change or the
service starts again. `SignOutIsDelivered` therefore has the premise that they do, again
and again (`RefreshesRecur`), and says that each of them hands the record on. `HistorySync`:
threads go on, and collections and document reads of the lane happen again and again,
as the scheduler has them. `Cadence`: `Work`, all that threads do of themselves.
`QuotaReports`: passes happen again and again, each uploads what it has, the Relay
handles what arrived; nothing is promised of providers, users or the clock.

**What the less obvious properties say.** `PendingHasAStarter` is the safety half of "a
waiting request is started": while one waits, some thread has still to look. It excuses
a spawn that failed, which gives its lane back and looks at nothing
(`service/mod.rs:1967`). `OneReadingPerVersion` is what lets versions stand for rows;
it holds across cache rebuilds because the counter is in the other database.
`SettledIsDelivered` defines *settled* as the device itself would: nothing marked,
nothing queued, identity unchanged. `SkippedIsStored` and `ResumesBehindWhatItRead`
say that the two shortcuts of a scan are sound in every reachable state, not only when
no one writes. `EventuallyMirrored` excuses one kind of file: a log read in part, gone
before any scan of it left a row in the index, whose records nobody will ever delete
(deletion goes by the index, `usage/scan.rs:591`). Among
logs that are rewritten and malformed only `EventuallyRead` holds: a partial source is
merged and deletes nothing (`state/mod.rs:3063`), so old records may outlive a rewrite
that nobody can read to its end.
`StoredTokenWorks` is the crash safety of rotation: whatever is lost, the token in the
row is one the Relay would still take, or its family has ended.
`RecordIsHonest` is about what a device *does not* look at: it compares the oldest and
the newest bucket only, and the property says that all between are on the Relay.
`AsksWait` states of ADR 0063 what the code keeps; the words themselves are `FloorsHold`
and `LimitsHold`, which it does not (next section). `RequestIsOwed` follows a request
through every hand: signal, waiting pass, running pass, the refresh a sign-in or a
sign-out ends with; a restart forgets that it was taken up, so that the next read takes
it up again. It excuses what the code lets go of (`dropped`): a pass cut with no refresh
to follow, a thread that cannot be started, a direct request that leaves the folded
providers behind (`service/mod.rs:1932`). Without the excuse it is `StillOwed`, a
divergence below. `CompleteIsWhole` is about the state right after a scan that calls
itself complete: every file it found has its row, and one that has not moved since has
all its records stored. `AccountHoldsReport` says that, when a refresh has put its report, the Account has
each of its readings, and no other that looks current; it excuses what a refresh stopped
reading and could not say so, what a late upload brought back of that (both `untold`),
and what a late upload did last (`told`). Three events are needed before the second
excuse matters; the run has two, the theorem any number. `SparesFreshReadings` is about
the newest reading elsewhere that any stored Account read has carried (`told`): a read
noted and then lost to a restart is one the service has never seen.

**What runs leave out, and why.** `scan_append` lets logs only grow, and neither of the
passing scan runs has a cache rebuild or an hour's turn *in the middle* of a scan:
each of these violates a property, and is a divergence below. `sync_delivery` has no
sign-out: with it, `SettledIsDelivered` fails, as a consequence of `usage_accepted`.
The passing runs of `Session` leave out `late`, `race`, `impatient` and `again`, and
`session_signout` also `unheard`, `restart` and `overlap`; those of `HistorySync` have no
backfill `cut` between chunks and no switch turned `twice` within one; `cadence` has no
Account read `overtaken` before it is stored. Each of these is a divergence below.

## Where the code and its words part

One is a run that expects a violation, with TLC's counterexample as the evidence.

1. **One failed read makes the service forget a 429** (`cadence_limited`,
   `backend.rs:3091`). Backoff and raised floor are kept with the account the stored
   result names, and a failure stores a result that names none; the provider is asked
   again at its ordinary floor. ADR 0063 (line 134) says that only the 24 hours running
   out end the raised floor.

The others were met while modelling. Each has a configuration that TLC refutes, most in
seconds; they are kept beside the runs and are run by hand.

| Configuration, module, property | The code's words | What it does |
|---|---|---|
| `usage_accepted` `MCUsageSync` `AcceptedIsReplaced` | "`accepted` means this scan replaced the hour" (`packages/protocol/src/index.ts:2459`) | A sign-out between check and batch makes the batch write nothing; the answer is the list made at the check (`d1-usage-state.ts:138`). The device forgets the hour, and signing in again changes neither generation nor revision |
| `scan_stop` `MCUsageScan` `ResumesBehindWhatItRead` | "the retry reads the part that was never read" (`state/mod.rs:3378`) | When its callback refuses a line (a cancelled scan, the record limit), `read_jsonl` returns the position after that line (`usage/scan.rs:890`) |
| `scan_turn` `MCUsageScan` `SkippedIsStored` | "One fact represents one persisted … response" (`docs/usage-sources.md:7`) | Records after the hour collecting began in are dropped, the bytes taken as read are those there when the file is read (`backend.rs:1802`) |
| `history_cut` `MCHistorySync` `RecordIsHonest` | "the backfill that a crash left unfinished" is uploaded later (`relay/history.rs:142`) | Chunks go oldest first and the watermark comes from the newest bucket the Relay answers: a backfill cut between chunks, where newer rows are held, resumes behind what was never sent (`relay/history.rs:388`) |
| `reports_told` `MCQuotaReports` `FailureIsTold` | restating "turns a local detection into a cross-device fact instead of one that other devices have to wait out" (`backend.rs:3297`) | The report before is the only source of a restatement, so when that one upload is lost, cut or signed out, the next pass has nothing to restate, an empty envelope counts as put, and the other devices wait it out (`backend.rs:3307`) |
| `reports_late` `MCQuotaReports` `LastReadingStays` | "a reading older than the stored one cannot overwrite it" (`d1-account-state.ts:1707`) | It cannot, but the batch deletes what its envelope does not name with no look at the generation or the instant: a late upload removes newer readings of other subscriptions (`:1802`) |
| `lanes_owed` `MCRefreshLanes` `OwedQuotaIsTakenUp` | "The providers and trigger a blocked quota pass still owes. Folded, never dropped." (`service/mod.rs:445`) | A direct request that takes the lane clears `pending_quota` and leaves the owed providers behind (`:1932`) |
| `lanes_reset` `MCRefreshLanes` `ResetExcludesRefresh` | "answered `Busy` rather than raced" (`service/mod.rs:1164`) | After the wait saw all lanes free, one may be taken before the cache is deleted (`:1169`) |
| `sync_emptied` `MCUsageSync` `EmptiedHoursTravel` | "An empty hour is a fact ... so it travels rather than being dropped." (`backend.rs:9083`) | Re-seeding goes by facts, so an hour emptied while the cache was lost stays on the Account (`state/mod.rs:2927`) |
| `sync_again` `MCUsageSync` `NeverSentAgain` | "either way it never needs sending again" (`backend.rs:2579`) | The device's own upload moves the revision that re-seeds everything (`d1-usage-state.ts:506`); tests expect the re-seed, so the words may be what is wrong |
| `sync_identity` `MCUsageSync` `SentUnderItsOwnIdentity` | "requests staged for one identity cannot be replayed under another" (`state/mod.rs:2867`) | `upload_usage` reads the session anew and compares the generation only (`relay/mod.rs:2433`) |
| `scan_turn` with `Mishaps = {"reset"}`, `SkippedIsStored` | a rebuilt cache is "this device's own history again" after a complete scan (`state/mod.rs:3219`) | An appending scan applied to a cache rebuilt under it stores the tail and indexes the whole (`state/mod.rs:3114`) |
| `scan_rewrite` `MCUsageScan` `SkippedIsStored` | a partial source replaces nothing it did not read (`state/mod.rs:3063`, `:3106`) | A rewritten log read in part stores progress over old records; the next scan appends to them |
| `scan_moved` `MCUsageScan` `FactsFollowRecords` | "a record that moved out of the hour leaves no trace of itself behind" (`state/mod.rs:3701`) | A partial source recomputes the hours it brings, not those its records left (`:3067`) |
| `scan_turn` with `Mishaps = {"bad"}`, `MaxEvents = 4`, `MalformedStaysPartial` | "A stably malformed file stays `partial`" (`docs/decisions/0026-*.md:32`) | A context-free parser resumes behind the bad line and reports the file complete |
| `session_pending` `MCSession` `PendingIsRevoked` | "persist a durable revoke job and retry it" (`service/mod.rs:2534`) | The job is a row without a device generation and a token pair, which the store drops as unusable at the next start (`state/mod.rs:478`) |
| `session_pending` with `Mishaps = {"lost", "impatient"}`, `PendingIsRevoked` | "A live or signing-out session owns the device" (`service/mod.rs:1232`) | A sign-in while a sign-out is pending drops the unusable record in the same way |
| `session_pending` with `Mishaps = {"unheard"}`, `LiveFamilyIsHeld` (an invariant) | "Never drop newly issued refresh tokens" (`service/mod.rs:2534`) | The answer to the exchange is lost: the grant is spent, its family lives, no one has the token |
| `session_late` `MCSession` `StoredTokenWorks` | ADR 0030 on rotations that can be done again | A rotation handled after its sender gave up, and rotated again from the same predecessor, replaces the token the device has stored since. With `Mishaps = {"race"}` a rotation that ends between a sign-out's read and its write is undone by the write |
| `session_pending` with `Mishaps = {"again"}`, `NoRevival` | "a logout transition cannot revive an old session" (`docs/security.md`) | Epochs start at 1 again when the row goes, so a lane that began before a sign-out and a sign-in writes the old session over the new one (`state/mod.rs:2034`) |
| `session_pending` with `Mishaps = {"overlap"}`, `SignedOutForCause` | only the Relay's decision signs a device out | A request sent with an access token that another lane's rotation has just replaced is refused, and the row is cleared although the family lives |
| `scan_append` with `Mishaps = {"cache"}`, `MaxEvents = 2`, `RebuildEndsWhole` | "One complete scan is what the cache was waiting for: from here on the local Usage it reports is this device's own history again" (`state/mod.rs:3219`) | The flag of a rebuild is one for the device, scans are applied agent by agent (`backend.rs:1815`), and any agent's complete scan clears it. The first agent is enough, and one that is not installed has no files and is complete at once (`usage/scan.rs:269`): totals are shown as final while the logs of the others are unread |
| `history_within` `MCHistorySync` `LossIsSeen` | "What is still not seen: a loss once both the record and the last confirmed watermark have stopped being live" (ADR 0062) | A bucket sampled again after its upload, as every pass does with the current one, hides a loss with one of them live; no event is needed |
| `history_safety` with `"twice"` added to `Mishaps`, `RecordIsHonest` | as `history_cut` | The switch goes off and on once more while lost rows are sent again |
| `cadence_cut` `MCCadence` `FloorsHold` | "a timed tick, a demand, a window reset catch-up, startup, and a settings or account change all respect it" (ADR 0063) | A cancelled pass returns before records are written, so what it asked is asked again inside the floor |
| `cadence_cut` with `Mishaps = {"request", "cut"}`, `MaxEvents = 2`, `StillOwed` (an invariant) | "One requested instant is answered once." (ADR 0063) | The request is marked as answered when it is read (`service/mod.rs:988`). A sign-out the Relay did not hear of (`:2795`), a reset answered `Busy` after it cancelled (`:1168`) and a pass that fails (`:2321`) end the pass and ask for no other; nor does a thread that cannot be started (`:1967`). The request is then answered by nothing |
| `cadence_overtaken` `MCCadence` `SparesFreshReadings` | "Several Macs answering one demand therefore do not all read Claude" (ADR 0063) | `note_collection_request` wakes the scheduler before `update_component` stores the summary the pass judges by |
| `cadence_overtaken` with `Mishaps = {"request"}`, `MaxEvents = 1`, `AnswersOnlyNews` | "when the Account shows one this Mac has not collected since" (`service/mod.rs:968`) | A request that a pass reads in its own Account read, before `note_complete_collection`, is answered by a second pass |

Smaller: `docs/architecture.md:268` and ADR 0024 speak of a digest of four kibibytes;
the code hashes the whole prefix.

## What is proved

For every value of the constants that satisfies the modules' assumptions (any number
of threads, providers, devices, files, hours, requests), and not just for the instances
above. A theorem with an entry under *if* has it as a hypothesis, most often on `Mishaps`, the
set of events that may happen; why each is needed is said below.

| Module | Theorem | States | If |
|---|---|---|---|
| `RefreshLanes_proofs` | `LaneInvariant`, `Types` | `LaneInv`, `TypeOK` | |
| | `OneCollectorAlways` | `OneCollector` | |
| | `ShutdownReaches` | `ShutdownReachesEveryRefresh` | |
| | `PendingIsStarted` | `PendingHasAStarter` | |
| | `ManualSurvives` | `ManualIsKept` | |
| | `RestIsShown` | `RestingShowsNoRefresh` | |
| `UsageRelay_proofs` | `RelayInvariant`, `DeletionLasts` | `RelayInv`, `DeletedStaysDeleted` | |
| | `RelayKeepsItsLedger` | `UsageRelay` implements `UsageLedger` | |
| `UsageSync_proofs` | `SyncTypes` | `TypeOK` | |
| | `SyncImplementsRelay` | `UsageSync` implements `UsageRelay` | |
| | `SyncKeepsTheLedger`, `SyncDeletionLasts` | `KeepsItsLedger`, `DeletedStaysDeleted` of the whole | |
| | `OneReading` | `OneReadingPerVersion` | |
| | `CutHourOfOneDevice` | `CutHourStaysHome` | one device |
| | `CutHourUnderItsOwnIdentity` | `CutHourStaysHome` | `[]SentUnderItsOwnIdentity` |
| | `OwnIdentity`, `CutHourWithoutSignOut` | `SentUnderItsOwnIdentity`, `CutHourStaysHome` | no `logout` |
| | `WhatIsSettledIsDelivered` | `SettledIsDelivered` | no `logout`, `RefusedAlone` |
| `UsageScan_proofs` | `UsageScanTypes` | `TypeOK` | |
| | `FactsAreFolds`, `NothingIsLost` | `FactsFollowRecords`, `ApplyLosesNothing` | no `rewrite` |
| | `SkippedFilesAreStored` | `SkippedIsStored` | `Undisturbed` |
| | `OffsetsAreBehindWhatWasRead` | `ResumesBehindWhatItRead` | `Undisturbed` |
| | `CompleteScansAreWhole` | `CompleteIsWhole` | `Undisturbed` |
| `Session_proofs` | `SessionTypes`, `OneFamilyLives` | `TypeOK`, `OneLiveFamily` | |
| | `StoredTokenOpens`, `SessionsAreNotRevived` | `StoredTokenWorks`, `NoRevival` | `Orderly` |
| | `FamiliesAreHeld`, `RecordsAreRevoked`, `ClearedByTheRelay` | `LiveFamilyIsHeld`, `PendingIsRevoked`, `SignedOutForCause` | `Gentle` |
| `HistorySync_proofs` | `HistoryTypes`, `OffIsEmpty` | `TypeOK`, `OffHoldsNothing` | |
| | `WhatIsNotSentIsHeld` | `RecordIsHonest` | `Whole` |
| | `TheShortestResends` | `ShortestLosesNothing` | `[][StaysOn]_vars` |
| `Cadence_proofs` | `TakenUpIsOwed`, `AskingWaits` | `RequestIsOwed`, `AsksWait` | |
| | `ReadingsElsewhereAreSpared` | `SparesFreshReadings` | no `overtaken` |
| | `FloorsHoldUncut` | `FloorsHold` | `NoCut` |
| | `LimitsHoldWhenNamed` | `LimitsHold` | `NoCut`, `NoFailure` |
| `QuotaReports_proofs` | `ReportsTypes`, `NewestWinsAlways` | `ReportsTypeOK`, `NewestWins` | |
| | `ReportIsHeld` | `AccountHoldsReport` | |

**Assumptions on the constants.** `ThreadsAssumption`: callers and slots are different,
`None` is neither a slot nor a trigger, and there is a slot for the startup refresh.
`ScanAssumption`: hours are naturals, there are finitely many files. The other modules':
bounds, instants, floors and chunks are naturals, and in order where the code has them
in order. `NoRowIsNone`, `NoSessionIsNone`, `NoReadingIsNone`, `NoLimitIsNone`,
`NoPointIsNone`, `NoneIsNoRow`: the model value for "nothing" is none of the records or strings it stands beside, as an
`Option` is not what it holds. TLC evaluates them in every run of these modules.

**Hypotheses.** Each excludes events for which a configuration above refutes the
property, and nothing more than the proof needs. `Orderly` (no `late`, `race`, `again`)
leaves all other mishaps in: answers lost, restarts, deletions, sign-ins cancelled or
impatient. `Gentle` allows `lost`, `tardy`, `delete` and `cancel`: a restart or an
impatient sign-in drops the record of a sign-out, an answer unheard orphans a family, an
overlap clears a row. `Undisturbed` (no `rewrite`, `reset`, `turn`, `stop`) is that logs
only grow or go and that no rebuild, turn of the hour or cancelled scan falls into the
middle of one; torn, open and bad lines, removals, hidden directories, failed reads,
crashes and rebuilds between scans are all in. `FloorsHold` needs `NoCut`: no pass is
`cut`, no collector `panicked` (a result that names no source stamps no record,
`backend.rs:507`) and no cache is `emptied` with its records; each of the three leaves an
ask unrecorded. `LimitsHold` needs `NoFailure` besides: a read that `failed` and a sign-in
that is `absent` store a result without an account. The theorems say that there is no
further way to forget a floor or a limit. `CutHourStaysHome` is a consequence of requests going out under
the identity they were staged for. That is itself a divergence (`sync_identity`), and
with two devices TLC finds the cut hour leaving home by it: a drain that began as one
device ends as another. With one device there is no other identity, and the property
needs no condition; and `OwnIdentity` shows that it takes a sign-out: deletions,
sign-ins, lost answers and cut refreshes alone never bring it about.
`WhatIsSettledIsDelivered` excludes sign-outs because of `usage_accepted`, and asks that
`Refused` be empty or a batch be one hour (`RefusedAlone`): the Relay refuses a payload
whole and the drain forgets it whole (`backend.rs:2558`), so that an hour queued beside a
refused one is not delivered. TLC finds that with `Refused = {bad}` and batches of two.
`Whole` is that all devices declare one span and that no upload is `cut` and no switch
turned `twice` within one. The last two are divergences above. Buckets are sampled as
often as passes like, before, during and after their uploads.
Different spans refute it too, without any mishap: of two devices that declare 6 and 1
buckets, the second inserts while the first one's answer, with the longer duration in it,
is on its way, and a row of the first expires by the shorter one before that answer is
judged: until a later answer names that duration, the device takes it to be held. What holds of devices that disagree is `TheShortestResends`,
which asks only that the switch stays on (`StaysOn`): turned off, it clears what all
devices hold, and that is a loss which the shortest span sees as well.

### How the arguments go

*The lanes.* `OneCollector` is not inductive: it says nothing about a thread that has
registered and not begun. `LaneInv` adds `HeldByItsThread` (a thread between
registering and clearing is the one its lane holds), `FullExcludes` (a full refresh
is not held beside quota or Usage), `ChildOwned` (a thread being launched belongs to
exactly the one launching it, so launching cannot revive another's slot) and
`RequestersHaveRequests`. From these, two collectors of one kind would be held by the
same lane, or by lanes that exclude each other. The Account lane may run beside a full
refresh that starts later; `OneCollector` accordingly has only account lanes exclude
each other.

*Shutdown.* `StopInv` adds that a thread about to sweep, and one that has swept, did so
with the flag up. What begins afterwards reads the flag; what worked before is held
(`HeldByItsThread`), so the sweep finds it.

*What waits, and what is shown.* A request waits because a lane is held, and `BacklogInv`
says that the holder is a thread that has still to pass through `maybe_start_pending`
(`HolderIsRegistered`) and that only a thread which will do so owes a request taken out
of the pending ones (`AskersOwe`); `ManualWaits` follows a manual refresh from the pending
one to the thread that takes it. `ShownIsUnmarked` gives each component shown as
refreshing the thread that will unmark it, across a spawn that fails and a full refresh
that takes over from a lane.

*The Relay.* A batch runs on what an earlier read allowed. `AdmissionStands` says that
what was allowed is still allowed while the generation is what it was: only deletion
moves the watermark, and deletion moves the generation. For that, no request may be of
a generation still to come (`OfThePast`) and no watermark ahead of the clock
(`NotAhead`). The refinement maps a batch that writes to `Replace`, a deletion to
`Delete`, all else to a stutter.

*The device's upload.* `SyncInv` types the device's tables and says that a refresh that
runs has read a session and that a session is of an issued generation
(`SessionStands`): with that each step of `UsageSync` is a step of `RelaySpec` or leaves
its variables alone, and the two theorems about the Relay carry over. `VersionsTell`
is what makes `OneReading` inductive: the counter is ahead of every version, and the
copies of one version, in the facts, the queue, requests and the Relay, only ever arise
from one another; a scan that changes an hour takes a version nobody has.
For the cut hour, `HoursWhere` says where an hour from before the watermark may still be
(nowhere that leads to a request of the present generation), which rests on what a
device knows of a generation being that generation's watermark.

*Delivery.* `SettledIsDelivered` speaks of a device that has nothing left to do;
`NothingIsForgotten` speaks of every moment: while the identity the queue is owed to can
be sent, an hour worth sending is marked, or queued at the version of its facts, or on
the Account as the cache has it. Each step of the lane hands an hour from one of the
three to the next, and the rest of the invariant says why nothing falls between. A mark
is the version of the facts (`MarksTell`) and no copy is ahead of them (`CopiesBehind`),
so what is staged, queued and sent is what the cache has, or older. `LaneHolds` ties
what a refresh carries to the two databases: marks re-seeded before the context is
installed, hours staged before they are queued, hours queued before their marks go, and
entries that are there until the answer is. `AnswersStand` says what an answer is worth:
"written" that the Account has that version or a newer one while the generation lasts,
"refused" that an hour of the batch is. `SessionIsKnown`, `LaneHasItsSession`,
`WaitsForItsOwn` (together `SignedInv`) and `ContextIsTheSessions` keep session, lane, request and queue
on one identity; a sign-out breaks the first of these, which is why the theorem excludes
it.

*The scan.* `SeenIsWritten` says of a line that it is one record wherever it is held,
in the cache, in what a scan has finished or in the source it is at, and still what the
log says. So a merge changes no record; an hour that no source touches adds up to what
it did (`UntouchedStays`, the step of `FactsAreFolds` with a case for each way a source
is applied; it needs `MarksAreStored`: no file is marked partial in an hour it has no
record of); and a source read from its start to its end has every record that is stored
(`Covers`). `QuietInv` gives index rows, the source under way and finished ones the same
shape, `Stands`: every line in front of the offset that can be read is held, the offset
is not behind the last newline, and at a modification time that vouches for the whole,
the whole is held. It survives growth because a write makes the modification time
newer and leaves the lines in front of the last newline as they are. Dropping "not
behind the last newline" is the mutant `CountsTheLastLine`.

*Tokens.* Within one family the token of the row changes only when a lane keeps its
rotation, which it does under the lock, so no lane holds a token ahead of the row; and
one that was rotated and not yet kept is the current one of its family, so the row holds
its predecessor, which the Relay still takes. `CauseInv` follows a rotation and a
refusal back to what the Relay decided, and a revocation to the row it is for. A sign-in
finds no lane at work (`Quiet`), which is what the mishap `again` takes away.

*History.* `OffInv` needs, besides the rows, that a document read together with a
revision is the document of that revision (`ReadDocumentsStand`): a write that turns the
switch off is a compare-and-set, and the upload looks at the switch in its batch.
`RecordIsHonest` needs to know, of each bucket, whether it is on the Relay or is still to
come. `TidyInv` says when that can be told: nobody adopts a shorter span, one thread of
a device uploads at a time, and nothing is held or to be sent that was not sampled.
Then every step is one of five as far as a device's record is concerned: calm (what
others do, samples, expiry, a switch turned off), or an upload of its own that plans,
inserts, judges the answer or gives up. `Recorded` holds across each of them: a live
bucket between the oldest and the watermark that was sampled is on the Relay or awaited
by the upload under way (`Honest`), unless the switch went off since (`Wiped`: what the
Relay holds is newer than the oldest, so the next answer shows the loss); a plan leaves
out only what was uploaded before it or is sampled after it (`PlansAll`); what was
inserted stays until its answer is judged, or all is gone (`Inserted`). All this is about
buckets. Of the samples in them, only the newest bucket held, or to be sent, can lack
the latest one (`IsNewest`): a bucket is sampled while it lasts, and an upload that
carries a later one carries its last sample too. The property is then read off the
step that judges the last chunk.
`TheShortestResends` rests on `EvidenceStands`: the buckets by which a device judges, its
oldest, its watermark and those of the chunk it sent, are on the Relay for as long as the
shortest span keeps them alive. It needs `SwitchWasOn`: whoever acts on a switch that is
on has read a document in which it was.

*Cadence.* `OwedInv` orders requests and collections by the clock and says that a pass
which has kept its results has collected (`KeptIsCollected`); the judged plan of a pass
is compared with the requests noted by then. `WaitInv`: the instant in a provider's record is
when it was last asked unless that ask went unrecorded, and the record holds what the last 429
said while the stored result names the account. `SpareInv`: Account reads are stored in
the order they were noted, which is what `overtaken` breaks, so a summary a pass judges by
is no older than any that was stored.

*The readings.* A batch is compared with what an earlier read found, which may be
stale; the insert compares again. `WhoWritesRows` reduces a change of `rows` to a batch
or a deletion, `BatchOutranks` says that what a batch leaves in place of a reading
outranks it, and typing that a status which is not "available" is a failure. For
`ReportIsHeld` both comparisons count: what the check refused is refused still, only one
upload is waited for, the newest reading of a subscription anywhere is the report's, and
a reading that is current and not excused is in the report or in the one before it.

*What the proofs corrected.* `AccountHoldsReport` and `SparesFreshReadings` did not hold
as they were first stated, for more events than the runs have; the attempt to prove them
showed it, and TLC with one event more confirmed it. In both it was the history
variable that kept too little (`untold`, `told`), not the code. The attempts also showed
what `Whole` and `RefusedAlone` have to ask beyond the mishaps: devices that declare one
span, and a refused hour that shares its batch with no other.

*Only model-checked.* Liveness (`BacklogDrains`, `BacklogIsSent`, `EventuallyMirrored`,
`EventuallyRead`, `SignOutIsDelivered`, `LoginEnds`, `SwitchIsFollowed`,
`SettingsArrive`, `RequestIsAnswered`, `ReadingsArrive`)
and anything about `ENABLED` are out of the reach of the prover. So is induction over
data: the inductive theorems of its library take operators as parameters, so what a
fold computes for every input cannot be concluded; `FactsAreFolds` needs only that equal
sets have equal cardinalities. `TypeOK` of `Cadence` says that a power of two is a
natural number, which is such an induction; the proofs use that it is an integer. The
other safety properties that passing runs check are all proved, under the hypotheses of the
table.

## What is not modelled

* Diagnostics, wording, formats, parsing, pricing, user interfaces: data or I/O.
* A lane thread that panics: `run_lane` catches nothing (`service/mod.rs:1956`), so its
  lane stays held and what it blocks waits for ever. Listed as a hazard; planned.
* In `UsageRelay`: `usage_daily` (rewritten from the hours in the same batch), retention
  cleanup, deletion of a whole account, token rotation.
* In `UsageSync`: more than one agent, rewriting by project grouping, partial flags of
  hours, the cancel flag that a sign-out raises (the drain does not look at it
  between batches).
* In `UsageScan`: parser revisions, project keys, sessions across files, lines with an
  invalid timestamp (they mark an hour in 1970 that the drain drops again), the SQLite
  readers (Cursor, OpenCode, Kilo) which have no byte offsets, and Gemini's merge of two
  scans, which recomputes deletions without the guard the scanner has
  (`usage/gemini.rs:235`, a hazard).
* In `Session`: the expiry of refresh tokens after 90 days, SQLite failures, the display
  of the Account component, the second request of a profile update; sessions of the
  iOS and web clients, identities and their linking (`resolveSignInIdentity`,
  `linkIdentity`, `unlinkIdentity`, e-mail challenges).
* In `HistorySync`: several windows in a chunk, percentages that fall, reading and
  drawing a history, the record that a sign-out clears without `history_lock`; Delete
  Device. A backfill that runs on a thread of its own is taken for the panel's.
* In `Cadence`: activity tiers and jitter as numbers, gathering due providers into one
  pass, the boundary of a window reset, the status poll, several accounts of a provider
  (switching accounts loses the other's backoff).
* In `QuotaReports`: the overview and its pins, which of several Macs' readings of a
  subscription is shown, retention of readings, the Account re-read after an upload,
  credential renewal, the 402 of an Account without a subscription (an upload that is
  not answered stands for it).
* The components that are not bold in the table above.

## The plan

Modules in order, each with the hazards of `PROJECT.json` that it is for.

1. `RefreshLanes` — done: checked, and its safety core proved.
2. `UsageLedger`, `UsageRelay` — done: checked and proved. To come: retention as an
   action.
3. `UsageSync` — done: checked, its safety proved.
4. `UsageScan` — done: checked, its safety proved. To come: the Gemini merge.
5. `RelaySessions`, `Session` — done: checked, their safety proved. To come: the Account
   component beside the row (a result read before a sign-out and stored after it).
6. `HistorySync` — done: checked, its safety proved.
7. `Cadence` — done: checked, its safety proved. To come: reset boundaries.
8. `QuotaReports` — done: checked, its safety proved.
9. `QuotaPanel` — the overview and the pins of one Mac over its report and the Account's
   readings: what is shown is the best reading there is, or the pinned one, with a
   refresh and a pin racing.
10. `RelayIdentities` — sign-in identities, linking and unlinking, clean-up.
11. Compositions: `Session` with `RefreshLanes`; the scan as what implements the atomic
    `Scan` of `UsageSync`.
12. Theorems: those named above.

## Running it

    tlc -workers 2 -config lanes_drain.cfg MCRefreshLanes.tla
    tlapm UsageRelay_proofs.tla

The module of each run is in `PROJECT.json`; that of a configuration run by hand is in
its table above. The longest runs take two to three minutes on two cores.
