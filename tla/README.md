# A formal model of the access-control lock service

The service (TypeScript, NestJS) runs next to one smart lock. It decides whether
a verifiable credential opens the lock, and for that it keeps a local cache (a
SQLite table) of the credentials that the lock's owner has revoked in the
`AccessControl` contract. This directory holds TLA+ modules that model the parts
of the service where the order of events matters, TLC configurations that check
them on small instances, and proofs checked by TLAPS.

Paths such as `src/core/…` below are relative to the root of the repository.

## 1. Inventory

| Component | State | Operations | Talks to |
|---|---|---|---|
| **Hybrid synchronisation**, `BlockchainListenerService` (`src/core/blockchain-listener.service.ts`) | `lockId`, `provider`, `contract`, `isListening`, `batchSyncInterval`, `lastSyncedBlock`, `pendingUpdates`, `processingEvents`, statistics | `initialize`, `startHybridSync`, the `CredentialRevoked` callback, `performBatchSync`, `forceFullSync`, `stop`/`stopHybridSync` | RPC node; `SyncStateRepository`; emits `CREDENTIAL_REVOKED` and `BATCH_SYNC_COMPLETE` |
| **Event processor**, `EventProcessorService` (`src/core/event-processor.service.ts`) | none of its own | `handleCredentialRevoked`, `handleBatchSyncComplete` | called by `emit`, not awaited; writes `revoked_credentials` and `sync_state` |
| **Sync state**, `SyncStateRepository` | one row per network, contract and lock: `lastSyncedBlock` | `getOrCreate`, `updateLastSyncedBlock` | SQLite |
| **Lock configuration**, `LockConfigService`, `ConfigController`, `ConfigGuard` | singleton row of `lock_config`; `lockId`, `publicKey`, `isConfigured` in memory | `onModuleInit`, `configure` (`/config/init`), `reset` (`/config/reset`) | calls `initialize()` and `stop()` of the listener |
| **Authorisation and verification**, `VcAuthGuard`, `VerifyController`, `CredentialVerifierService` | none | `canActivate`, `verifyCredential`, `isRevoked` | reads `revoked_credentials` and the public key |
| **Health**, `HealthController`, `getStats` | `currentBlock`, counters | `check` | reads the listener |
| **Environment**, `ConfigModule.validate`, `getNetworkConfig` | environment variables | validation at start | read at start and again by the listener |
| **Messaging**, `MessagingService` | MQTT client, `isConnected` | `connect`, `publish`, `subscribe`, `disconnect` | broker; only `connect` is ever called (not modelled) |
| **Deployment search**, `scripts/find-contract-deployment-block.js` | locals of the search | binary search, recommended line | RPC node |
| **NFC, audit trail, wiring, contract bindings** | | placeholders, uncalled or generated code | |

### What is hard

Node runs one callback at a time, so there are no data races; but nearly every
operation awaits an RPC node or SQLite, timers fire in between, `emit` starts
handlers that nobody awaits, and `this.…` is read again after each await.

- `performBatchSync` has no lock. The one-second start-up timeout, the interval
  and `forceFullSync` may overlap, each with its own `currentBlock` and all with
  one shared `lastSyncedBlock` and `pendingUpdates`.
- A revocation reaches the handler twice (real-time and batch) or, if a delivery
  is lost, once; `pendingUpdates` makes a scan skip a log.
- The mark moves, and is persisted, when a scan *ends*; the handlers it started
  may still be waiting, may fail, and are gone after a crash.
- `initialize()` has three awaits and is itself not awaited at boot; `init`,
  `reset`, the boot and scans in flight may interleave at each of them.
- Errors are caught and logged where they occur: `findConfig` at the boot, the filter
  of `startHybridSync()`, the handlers' database calls. The caller goes on as if all
  were well.

### What makes each component correct

- *Hybrid synchronisation*: below the mark, everybody who must know of a
  revocation has been told; skipping a log never loses it; every revocation
  ends up in the table; both marks catch up with the chain.
- *Event processor*: rows appear only for credentials revoked on the chain, once
  each, and are never withdrawn.
- *Sync state*: the persisted mark means what the entity says, "we have scanned
  up to and including this block", for that lock.
- *Lock configuration with start and stop*: after `init` exactly the configured
  lock is served; after `reset` nothing is; one configuration at a time, which
  survives restarts.
- *Verification*: a revocation the mark covers is refused, and every revocation
  takes effect in the end.
- *Health*: "healthy" vouches for the cache, and a service whose connection lasts
  does not stay degraded.
- *Environment*: where what `validate` accepts is not what the service then runs on is
  known exactly, and the first scan leaves no block out.
- *Deployment search*: it finds the first block with code, and its recommendation
  fits the service.

The full list of hazards, each with its line and the properties that cover it,
is in `PROJECT.json`.

## 2. Modules

| Module | Models | Notes |
|---|---|---|
| `RevocationCache` | what the service promises about revocations | abstract: the contract revokes, the cache learns |
| `HybridSync` | listener, event processor, both tables, for one lock | implements `RevocationCache` |
| `MCHybridSync` | instances of `HybridSync` | bounds on rare events, symmetry |
| `HybridSyncProofs` | theorems about `HybridSync` | checked by TLAPS |
| `CredentialVerifier` | verifying credentials against the table while it is being filled | composes with `HybridSync` (extends it, adds the verifications) |
| `MCCredentialVerifier` | instances of `CredentialVerifier` | |
| `CredentialVerifierProofs` | theorems about `CredentialVerifier` | on top of `HybridSyncProofs` |
| `LockLifecycle` | boot, `/config/init`, `/config/reset`, start and stop of the listener, scans in flight across them, for several locks | complements `HybridSync`: whose revocations are being synchronised |
| `MCLockLifecycle` | instances of `LockLifecycle` | symmetry |
| `ConfiguredLock` | what the service promises an administrator who waits for every answer | abstract: one lock is configured, restored, served, reset; no timers and no awaits |
| `LockLifecycleProofs` | theorems about `LockLifecycle`, for any traffic | |
| `SequentialProofs` | theorems about `LockLifecycle` where requests to `/config` come one at a time | on top of `LockLifecycleProofs` |
| `Health` | `GET /health` and the reports behind it, the `block` subscription, a connection that is lost | extends `HybridSync` |
| `MCHealth`, `HealthProofs` | instances and theorems of `Health` | on top of `HybridSyncProofs` |
| `DeploymentSearch` | the script's binary search | |
| `DeploymentSearchProofs` | theorems about it | |
| `Environment` | `validate()`, `MODE`, `getNetworkConfig()` and the first scan, over the variables of the environment | pure operators with JavaScript's NaN, and the steps that use them; inputs that `validate()` lets pass by mistake included |
| `EnvironmentProofs` | lemmas about it | used by `BootstrapProofs` |
| `Bootstrap` | setting a service up: script, environment, service | composes `DeploymentSearch` and `Environment` |
| `MCBootstrap`, `BootstrapProofs` | instances and theorems of `Bootstrap` | |

`HybridSync` and `LockLifecycle` look at the same service from two sides. `HybridSync`
keeps the lock fixed and has every detail of a scan: ranges and chunks, the two
sets, handlers, failures. `LockLifecycle` keeps a scan coarse (a chunk is one
block) and has every await of configuring, starting and stopping, with the
variables `this.lockId`, `this.provider` and `this.contract` read at the moment
the code reads them.

### `HybridSync`: state and actions

| TLA+ | Code |
|---|---|
| `head`, `minedAt` | the chain; `minedAt[h]` is the block of the log of hash `h`. External: the contract rejects a second revocation, so there is at most one log per hash |
| `revoked`, `persisted` | primary keys of `revoked_credentials`; `lastSyncedBlock` of `sync_state` |
| `up`, `subscribed`, `subscribedAt` | `initialize()` has completed; the contract listener is attached, and from which height it reports |
| `lastSyncedBlock`, `pendingUpdates`, `processingEvents` | the fields of the same name |
| `sync[s]` | one invocation of `performBatchSync`: `asked` (awaits `getBlockNumber`), `scanning` (awaits `queryFilter` of the chunk from `innerFrom`), with its local `currentBlock` and `outerToBlock` |
| `checking[h]`, `saving[h]` | invocations of `handleCredentialRevoked` that await the existence check or `save` |
| `confirming[b]` | invocations of `handleBatchSyncComplete` with `toBlock = b` |
| `failed`, `spent` | auxiliary: hashes of which a handling was cut short; occurrences of rare events |

An action is what one callback does between two awaits: `Initialize`,
`RealtimeEvent`, `ReleaseProcessing` (the 5 s timer), `BatchTimer`,
`ForceFullSync`, `StartScan`, `ScanChunk`, `FinishSync`, `SyncFails`,
`CheckDone`, `SaveDone`, `HandlerFails`, `ConfirmDone`, `ConfirmFails`; `Crash`
and `MineBlock` are the environment. `Initialize` is one step here because
nothing else runs for the lock before it completes; its awaits are the subject of
`LockLifecycle`. A real-time delivery whose hash is in either set changes nothing
and therefore needs no action. The outer and inner loops of `performBatchSync`
differ only in the next `outerToBlock`, which `NextChunk` computes.

### `CredentialVerifier`: state and actions

`verification[h]` is where the verification of credential `h` stands: `lookup`
(awaits `isVcHashRevoked`), `signature` (awaits `verifyOffChainCredential`),
`accepted` or `refused`. A verification only reads the table, so two of them do not
influence each other and one at a time per credential is enough. The verdict on the
signature, on expiry and, in `VcAuthGuard`, on the access level is a free choice. `late`
is auxiliary: the credentials whose verification began when `RevocationSettled`.
`VerifierNext` is a step of `HybridSync` (a `Crash` also loses the requests) or a
step of a verification.

### `LockLifecycle`: state and actions

| TLA+ | Code |
|---|---|
| `dbLock`, `rows`, `mark` | the row of `lock_config`; `sync_state` rows and their marks |
| `running`, `booted` | the process runs; `onModuleInit` has returned, requests are served |
| `call[a]` | where request `a`, or the boot, is waiting, with the lock and the provider its answer belongs to, and the lock whose public key authorises it |
| `cfgLock` | `lockId` of `LockConfigService` (`isConfigured` and `publicKey` go with it) |
| `lockId`, `provider`, `contract` | fields of the listener; a provider is the number of the `initialize()` call that made it, `closed` the ones destroyed |
| `isListening`, `subs`, `batchSyncInterval`, `intervals`, `timeouts` | subscriptions by provider and lock, the interval's handle, intervals and timeouts that run |
| `sync[s]`, `confirming` | scans in flight and the events they ended with |
| `scanned`, `initFailed`, `unread` | auxiliary: blocks queried for each lock; an `initialize()` has failed since the last accepted `/config/init`; this process failed to read a row that is stored (`ConfigNotRead`) |
| `Malformed` | lock ids such as 1.5, which `configure()` accepts (it refuses what is falsy or negative) and the contract's filter does not |

`this.contract.filters.CredentialRevoked(this.lockId, …)` throws for a malformed id, at the
call itself. In `startHybridSync()` the catch at line 265 swallows that: `NotStarted` is this
outcome of `StartHybridSync`, in which the old listeners are gone, nothing new is attached,
no timer is set, and `initialize()` and `/config/init` still answer success. In
`performBatchSync` the scan ends there (`SyncFails`).

Nothing in the service keeps requests to `/config` apart. The constant `Patient` is about
the people who send them: where it is TRUE, a request comes only when the boot and every
earlier request are done (`MayRequest`). Scans, timers, failures and restarts are not
restricted by it. With `Patient`, the service implements `ConfiguredLock` (`PromiseSpec`):
`running` is `up`, the row of `lock_config` is `stored`, `cfgLock` is `configured`, `unread` is `unread`,
and the locks of the subscriptions that are alive are `served`. Without it the runs `two_inits` and
`boot_reset` show what goes wrong.

### `Health`: state and actions

`currentBlock` is the field of the listener, refreshed by `BlockEvent` (the
provider's `block` subscription: in order, late or never) and by `initialize()`.
`ConnectionLost` ends every answer of the provider (`RpcStep`) until the process is
started anew, which is the only thing in the code that makes a new provider. The
reports only read, so `GetStats`, `GetStatus` and `Check` are operators; `HealthCheck`
takes the block number it was answered, because the mark is read after the await.

### `Bootstrap`: script and environment

`DeploymentSearch` keeps the locals of the script's loop; the block of the
contract's creation, `deployed`, is the only thing it asks the chain for.
`Environment` holds the variables (`env`), what is made of them (`routes`, `listening`,
`networkConfig`) and the locals of the first `performBatchSync`; `Less`, `Leq`,
`Plus`, `MathMin` and `MathMax` compare and add as JavaScript does when a number is
NaN. In `Bootstrap` the operator runs the script, may copy its line into the
environment (`FollowRecommendation`) and starts the service.

`removeAllListeners('CredentialRevoked')` is called with the event's name while
the listener was attached under a filter; whether the library detaches it is left
open in both modules (`Detached`, and the choice in `ForceFullSync`).

The `Faulty…` definitions are deliberately wrong variants of operators and actions.
They are not part of any specification; replacing the definition by its variant
makes the property named beside it in `PROJECT.json` fail, which shows that the
property depends on that line of the code.

## 3. Runs

### Properties that hold

| Run | Checks | Instance |
|---|---|---|
| `cache` | `TypeOK`, `NoGapBelowMark`, `SkipIsSafe`, `IInv`, `CacheSpec` | 1 hash, 2 overlapping syncs, 2 handlers of a hash at once, 2 blocks, one rare event of any kind (RPC failure, database failure, crash, forced sync) |
| `settled` | `SettledIsRefused`, `RevocationTakesEffect`, `EventuallyHandled`, `MarkConverges` | 1 hash, 1 sync, 2 blocks, one RPC failure, one database failure and one crash |
| `health` | `HealthyMeansSettled`, `HealthRecovers` | the same, one crash, one forced sync, one lost connection, threshold 1 |
| `sequential` | `TypeOK`, `ServesConfiguredLock`, `SilentWhenReset`, `SeqInv`, `GuardsHoldUnlessUnread`, `PromiseSpec` | 2 locks and a malformed one, requests that wait for each other and for the boot, 1 scan, two restarts, 2 calls of `initialize()` in each process, 2 blocks, WebSocket (2.2 million states) |
| `one_lock` | `MarkMeansScanned`, `MarkInv` | 1 lock, a request concurrent with the boot, a restart, 2 overlapping scans, 2 blocks, HTTP |
| `bootstrap` | `BootstrapTypeOK`, `SearchInv`, `BootInv`, `FindsDeployment`, `FirstScanComplete`, `RecommendationFits` | a chain of 12 blocks with the contract created at any of them or not at all, every environment at most two variables away from the example, numbers that are none, a missing `MODE` and `NETWORK=MAINNET` among them |

- **`NoGapBelowMark`**: neither the mark in memory nor the persisted one passes a
  revocation nobody was told of, however scans overlap, fail, rewind or are
  confirmed out of order. This is not obvious: `FinishSync` of an old scan may move
  the mark *back*, and the next one then starts there.
- **`SkipIsSafe`**: a hash in `pendingUpdates`, which a scan skips, is with a
  handler already.
- **`CacheSpec`**: the table implements `RevocationCache`, whatever duplicates,
  crashes and resynchronisations do.
- **`EventuallyHandled`**, **`MarkConverges`**: each revocation is cached, unless a
  crash or the database cut its handling short, and these are the only ways to lose
  one; the marks catch up with a chain that rests.
- **`SettledIsRefused`**: a credential presented when its revocation is below a mark,
  with no handler at work on it and none cut short, is refused. It rests on
  `NoGapBelowMark`, not on the lookup alone.
- **`RevocationTakesEffect`**: from some moment after a revocation on, the credential
  is never accepted again, not even by a verification that overlapped the handling,
  unless the handling was cut short. Before that moment it may be: the code has no
  upper bound on it other than the interval.
- **`HealthyMeansSettled`**: whoever asks, and whatever block number the answer rests
  on, a healthy report vouches for every revocation up to less than the threshold
  below that number. It says nothing of blocks the service has not heard of: see the
  run `silent`.
- **`HealthRecovers`**: while the connection lasts, a service whose chain rests is in the
  end healthy with its mark at the head, even if no `block` event ever arrives.
- **`ServesConfiguredLock`**, **`SilentWhenReset`**: for administrators who
  wait for every answer, whatever restarts come in between, `init` leaves one live
  subscription and one interval, for the lock that `/config/status` names and that is
  stored, and `reset` leaves none. There are two ways for a configured lock to be
  unserved, and no third: an `initialize()` that failed (until the next `init`, after
  which the property is demanded again), and an id the contract cannot filter by, for
  which the error is swallowed; then the service is silent, and `getStatus()` says so
  although `/config/init` reported success.
- **`SeqInv`**: the same at every await, not only when nobody is configuring.
- **`PromiseSpec`**: under the same condition the service implements `ConfiguredLock`. What
  the two invariants say of moments when nobody is configuring, the refinement says of
  every step in between: a configuration is only ever taken over by an unconfigured
  and silent service, is the stored one, survives restarts, and goes with a reset, or
  with the `init` of a process that could not read it at its start (`Overlook`,
  `Replace`), and no subscription is alive at any await that is not for the configured
  lock.
- **`GuardsHoldUnlessUnread`**: `configure()` replaces no configuration in memory, and
  one in the database only in a process that could not read it; a reset deletes only the
  configuration of the lock whose key verified the credential. This holds with one
  request at a time, the boot notwithstanding. Without the exception it is `GuardsHold`,
  which the runs `unread` and `two_inits` refute.
- **`MarkMeansScanned`**, with a single lock: the mark in `sync_state` is never
  ahead of what was queried.
- **`FirstScanComplete`**: once the first scan has moved the mark to the head, every
  block after the start block has been queried, in ranges an Alchemy free tier allows;
  or, if the start block or the batch size is no number, none at all. The second half is
  what the code does, not what `HYBRID_SYNC.md:36` says ("initial batch sync from
  START_BLOCK to current block"): `validate()` looks at no start block, both of its
  comparisons of `BATCH_SYNC_SIZE` are false for NaN, the loops end at once, and the mark
  moves over blocks nobody queried.
- **`BootInv`**: invariant of the two nested loops and of the recommended line. It also
  says how `validate()` and the service may disagree on the network: another one than
  was validated is chosen, or `initialize()` fails for want of an address, only where
  `NETWORK` is written `MAINNET`.
- **`FindsDeployment`**, **`RecommendationFits`**: the script reports the block of the
  contract's creation, and who follows its recommendation scans exactly the blocks
  after it, unless `NETWORK` is `MAINNET` (the script then recommends the mainnet's
  variable, and the service reads Sepolia's) or the batch size is NaN. A contract as old
  as the chain is reported as missing, because block 0 is tested for truth.

### Statements of the repository that the code does not keep

Each of these runs ends with a counterexample; `PROJECT.json` quotes the sentence.

| Run | Statement | What happens |
|---|---|---|
| `lost` | `HOW_TO_RUN.md:651`, no missed events; `README.md:685`, always eventually consistent | one failing database call in the handler, or a process that ends between the persisted mark and the save; nobody retries and the mark has passed the block |
| `stale_scan` | `sync-state.entity.ts:26`, scanned up to and including | a scan in flight across reset and init ends under the new lock's id |
| `two_inits` | `README.md:343`, only once until reset | two requests pass the check before either has saved |
| `boot_reset` | `blockchain-listener.service.ts:534`, stop the listener | a reset while the boot's `initialize()` waits; the listener starts afterwards |
| `silent` | `HYBRID_SYNC.md:341`, healthy means synced | the connection is lost without a word: no block event, no scan that ends, and the report stays healthy however far the chain is ahead |
| `unread` | `README.md:343`, only once until reset; `README.md:736`, survives restarts | `findConfig` fails at a restart and is only logged; the next `init` passes both checks, which look at memory alone, and overwrites the stored row |

### Bounds

Every bound is a constant. `MaxBlock` stops the chain: two blocks suffice for a scan
of several chunks (`BatchSize` 2, `LogsMaxRange` 1: an outer range of two chunks), a
revocation before, within and after it, and a restart behind the head. Two invocations
of `performBatchSync` are enough for every overlap of a pair of them. `MaxHandlers`
limits handlers of one hash that wait at once (two give every race between a check and
a save). `Budget` is the number of RPC failures, database failures, crashes and forced
syncs, and `MaxRare` their number in all; each property needs at most one of each to be
threatened, and `settled` and `lost` combine them. `HealthyLag` stands for the literal
100 of the code; 1 is the smallest threshold, and the hardest to stay below.
`Patient` is no bound: it is TRUE in `sequential` and `unread` and FALSE in the other runs
of `LockLifecycle`. In `sequential` one request is as good as several, as they wait for each
other; two restarts and two calls of `initialize()` in each process give init, failed read,
replacement, reset and init again, in any order. `MaxProviders` limits the calls of `initialize()` in one process, `MaxRestarts` how often
it ends. Equal completions in `LockLifecycle` wait one at a time. `FinishSync` and
`Emit` wait when a bound on handlers is reached; with the fairness below the
handlers drain, so no behaviour ends there. In `bootstrap` a head of 12 lets a scan of
batch size 4 take three outer ranges and the Alchemy default of 10 two queries; a
start block of 20 lies beyond the head. Two variables changed at a time reach every
pair of mistakes.

The crash in the run `settled` may come between the moment the mark is persisted
and the request, so the restart is covered too. Symmetry is used only in runs without
liveness properties. Deadlock is not checked in `health` and `silent`, where the service
waits for ever once the connection is gone, and in `bootstrap`, where
the script and the first scan end; it is checked in all other runs.

### Fairness

`Fairness` assumes that a process that has ended is restarted
(`restart: unless-stopped` in `docker-compose.yml`), that the interval keeps
firing (`BatchTimer` for *some* invocation), that a scan whose call was answered
goes on, and that SQLite answers. It assumes nothing of real-time deliveries: the
liveness properties hold if no event ever arrives that way. `VerifierFairness` adds
that a verification that has begun ends, not that one ever begins. `HealthFairness` is
the same as `Fairness`, but of the steps of the composition: those that need the
provider are only fair while the connection answers, and a `block` event never is.
Failures are bounded by `Budget`, so an RPC node that fails for ever is excluded;
nothing could be cached then.

## 4. Proofs

| Module | Theorem | Statement |
|---|---|---|
| `HybridSyncProofs` | `TypeCorrect` | `Spec => []TypeOK` |
| | `Invariance` | `Spec => []IInv` |
| | `NoGap` | `Spec => []NoGapBelowMark` |
| | `SkipSafety` | `Spec => []SkipIsSafe` |
| | `Refinement` | `Spec => CacheSpec` |
| `CredentialVerifierProofs` | `VerifierInvariance` | `VerifierSpec => []VerifierInv` |
| | `SettledRefusal` | `VerifierSpec => []SettledIsRefused` |
| | `VerifierImplementsSync` | `VerifierSpec => Spec` |
| | `VerifierPromise` | `VerifierSpec => CacheSpec` |
| `HealthProofs` | `HealthImplementsSync` | `HealthSpec => Spec` |
| | `HealthyVouches` | `HealthSpec => []HealthyMeansSettled` |
| `LockLifecycleProofs` | `TypeCorrect` | `Spec => []TypeOK` |
| | `MarkInvariance` | `(\E l : Lock = {l}) => (Spec => []MarkInv)` |
| | `MarkHonest` | `(\E l : Lock = {l}) => (Spec => []MarkMeansScanned)` |
| `SequentialProofs` | `GuardInvariance` | `OneAtATime => (Spec => []GuardInv)` |
| | `GuardsHonoured` | `OneAtATime => (Spec => GuardsHoldUnlessUnread)` |
| | `SeqInvariance` | `Patient => (Spec => []SeqInv)` |
| | `ServesConfigured` | `Patient => (Spec => []ServesConfiguredLock)` |
| | `SilentAfterReset` | `Patient => (Spec => []SilentWhenReset)` |
| | `KeepsPromise` | `Patient => (Spec => PromiseSpec)` |
| `DeploymentSearchProofs` | `SearchInvariance` | `SearchSpec => []SearchInv` |
| | `SearchIsExact` | `SearchSpec => []FindsDeployment` |
| `BootstrapProofs` | `BootstrapFindsDeployment` | `BootstrapSpec => []FindsDeployment` |
| | `BootInvariance` | `BootstrapSpec => []BootInv` |
| | `BootstrapTypes` | `BootstrapSpec => []BootstrapTypeOK` |
| | `FirstScanIsComplete` | `BootstrapSpec => []FirstScanComplete` |
| | `RecommendationIsFit` | `BootstrapSpec => []RecommendationFits` |

They hold for all values the named assumptions of the modules admit
(`HybridSyncAssumption`, `HealthAssumption`, `LockLifecycleAssumption`,
`DeploymentSearchAssumption`, `EnvironmentAssumption`, `ChoiceAssumption`): natural numbers,
positive ranges and thresholds, constants that are told apart, and environments whose
numeric variables hold an integer, NaN or nothing. TLC evaluates each of them in the runs.

Some theorems have a hypothesis, because the code does not keep the property without it;
each has the run that shows so:

| Hypothesis | Means | Without it |
|---|---|---|
| `\E l : Lock = {l}` | the process only ever sees one lock | `stale_scan` |
| `OneAtATime` | `Patient`, or one request at most is served at a time (it may still meet the boot) | `two_inits` |
| `Patient` | administrators wait for every answer, and for the boot | `boot_reset` |

**`HybridSync`.** `NoGapBelowMark` is not inductive by itself: `FinishSync` sets the
mark to a block number read long before, and `ConfirmDone` persists one that was
emitted earlier. `IInv` therefore says that *every position anything still carries* is
settled: both marks, each `toBlock` waiting in `confirming`, and for each scan all
blocks before its next chunk (`ScanInv`). It also says that a scan never looks beyond
the head, that logs are on the chain, and that handlers only work on revoked hashes
(which gives the refinement).

The argument goes over two facts. `AccountedStable`: no step makes an accounted
revocation unaccounted, a crash included, because what was in flight goes to
`failed`. `ChainStep`: blocks are only added above the head. Together they make
`Settled(b)` stable for every `b` (`SettledStable`), so an action has to be
looked at only where it creates a new position: `StartScan` takes the mark over
(`IdleScanInv`), `ScanChunk` emits what it found before it moves on
(`EmitAccounts`, `ScanChunkInv`), `FinishSync` turns the last position into the
mark (`FinishSyncInv`). `Preserve` collects the rest once for all other actions.

**`CredentialVerifier`.** `VerifierInv` is `IInv` and that every late credential has its
row. A verification becomes late only if its revocation is settled; then the mark
promises that it is accounted for, nobody is at work on it and nothing was cut short,
so the row exists (`SettledHasRow`), and it stays (`RowsStay`). Steps of the cache
preserve `IInv` by `StepInv`.

**`Health`.** What the reports add leaves the behaviours of `HybridSync` as they are
(`HealthImplementsSync`), so `IInv` comes for nothing. The rest is arithmetic
(`HealthyBound`): a healthy report means that the mark is less than the threshold
behind the block it rests on, so a revocation that far below it is below the mark.

**`LockLifecycle`.** The types are not inductive: clearing the interval must not count
below zero, and a row is read for the lock of a call made long before. `LInv` adds that
a handle belongs to a running interval, that a call which will write knows its lock, and
that once an `initialize()` has begun there is a lock id (a reset forgets none).
`MarkInv` does for the mark what `IInv` does in `HybridSync`: whatever carries a number that may
become the mark (the mark in memory, waiting completions, scans between two queries)
carries one up to which the lock has been scanned. It needs a single lock; with two, the
run `stale_scan` refutes it.

**`LockLifecycle`, one request at a time.** `GuardsHoldUnlessUnread` compares what a guard read before an
await with what is there after it. `GuardInv` keeps the comparison: one request at most is
under way, the lock in memory is the stored one, one is stored that is not in memory only
if it could not be read, a request that is saving still finds no
configuration, and one that is authorised or deleting still finds the lock whose key it
took. The boot may be anywhere in `initialize()` meanwhile, as that writes neither.
`SeqInv` adds the listener, for which the boot must be over too: it is `Serving` (one
subscription on a live connection, one interval with its handle, all for the configured
lock) or `Silent`, and which of them is decided by the point the one call under way
has reached. `InitializeEnds` takes it from silent to serving, or leaves it silent where the filter
throws, `ResetSilences` takes it back,
and everything between the two keeps it silent (`InitializeGoesOn`, `StopGoesOn`);
scans cannot disturb it (`ScanSteps`). Then `ServesConfiguredLock` and `SilentWhenReset` are the
two cases of `SeqInv` with no call under way, and `StepPromise` maps each action: `ConfigSaved` is
`Configure`, or `Replace` where the row was not read, `ConfigNotRead` is `Overlook`, `ConfigFound`
is `Restore`, `RowRead` is `Serve` unless the filter throws, `ConfigDeleted`, which
detaches the listener in the same callback, is `Reset`, `Start` and `Exit` are `Start` and `Stop`, and all others stutter.

**`DeploymentSearch` and `Bootstrap`.** `SearchInv` is the loop invariant: no code before
`left`, code from `right + 1` on, and that block is the one remembered. Setting up the
service next to the script is a stutter of the search.

**`Environment`.** On numbers the operators of JavaScript are those of arithmetic (`Numbers`), with
NaN every comparison is false and every sum NaN (`NotNumbers`); an environment that passes
`validate()` gives a batch size that is NaN or positive and a start block that is NaN or any
number (`ValidNumbers`). Where both are numbers `ServiceInv` is the invariant of two nested loops: from the start block to where the
scan stands every block has been queried and no other, `innerFrom` is at most one past
`outerToBlock`, and that is at most the head. `ChunkKeepsInv` and `OuterLoopKeepsInv` are its
two steps. Where one is NaN, nothing is queried (`NoOuterLoop`). `BootInv` joins it with `SearchInv` and with where the recommended line came
from, which is what `RecommendationFits` needs.

### Only model-checked

Liveness: `EventuallyHandled`, `MarkConverges`, `RevocationTakesEffect` and `HealthRecovers`,
as fairness and `ENABLED` are beyond the prover. Every invariant and every other property
of the passing runs is stated by a theorem, those of `sequential` and `one_lock` under the
hypotheses above, which are also those of the runs.

## 5. Not modelled

- The fields of a row other than its key (`blockNumber`, `revokedAt`), the counters of
  the statistics, and logging.
- The cryptography and the access level: the verdict is a free choice.
- Chain reorganisations: `MineBlock` only extends the chain. The code has no
  confirmation depth (`CONFIRMATIONS` is parsed and never used), so there is no
  handling to check.
- The window at boot before `@OnEvent` handlers are registered, in which an event
  that is emitted reaches nobody: when they are is up to the framework.
- The first block: the code scans from START_BLOCK + 1, where `HYBRID_SYNC.md:36`
  says "from START_BLOCK". The models have the + 1, and the properties are about the
  blocks after it.
- Two concurrent `getOrCreate` for one lock, of which one meets the unique index:
  `GetOrCreate` is one step, and the failing caller is `InitFails`.
- A second save of the same revocation (the 5 s timer releases a hash that is still being
  saved; two handlers of one hash both find no row): the table is a set of hashes, in
  which the second save is invisible. In the database it writes the row anew or fails on
  its key.
- Providers that disagree: every provider answers from the one chain, so a scan that goes on
  through another provider than the one it asked for the block number cannot be told apart.
- What a listener becomes that is configured in the window between `stopHybridSync`'s await
  and `isListening = false`: only a request that does not wait for the reset's answer
  meets it, and `ServesConfiguredLock` is about those that wait.
- The period of the interval. `BATCH_SYNC_INTERVAL_MINUTES` that is no number passes
  `validate()`, and more than 35791 minutes overflow a timer of Node; either way the batch
  sync runs every millisecond. Time is not counted in any model, so nothing more can
  happen there than in `HybridSync`, where the timer may fire at any moment.
- A missing `MODE`, which `validate()` takes for `API` and `AppModule` for none of its three
  words: the server listens without a route. `Create` has both readings; no property
  says that they agree, because they do not.
- Variables of the environment that are only handed on (ports, paths, logging, DID, NFC
  and cache settings).
- The MQTT client: nothing in the repository calls `publish`, `subscribe` or `disconnect`,
  and nothing reads its state.
- `findDeploymentViaEtherscan`, `logSignatureEntry` with the audit trail, and
  `getLastSyncedBlock`, which nothing calls; the NFC adapter, whose methods only log; the
  wiring of the database, which is configuration; the generated contract bindings.

## 6. What could come next

1. A variant of `LockLifecycle` in which a scan keeps the lock and the contract it began
   with, checked against `MarkMeansScanned` with several locks: the remedy for
   `stale_scan`.
2. A confirmation depth in `HybridSync`, once the code has one.
