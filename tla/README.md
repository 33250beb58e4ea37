# Verification of the dezuxk gateway

TLA+ specifications of the gateway's concurrent core, TLC configurations that
check them on small instances, and TLAPS proofs for all values of the constants:
every invariant and every action property that a passing run checks is also a
theorem. The definitions are translated from the Go source;
`PROJECT.json` maps each of them to its lines.

## The system

dezuxk is an HTTP gateway that generates images through accounts of upstream
providers. Its parts, what each keeps, and how they interact:

| Part | State | Operations | Modelled in |
|---|---|---|---|
| **Account pool of a provider** `internal/pool/subpool.go`, `scheduler.go`, `lease.go` | list and index of accounts, round-robin cursor, FIFO of waiters, per account: status, `paused_until`, `inFlight`, cooldown timer; all under `sp.mu` | select, enqueue, cancel, release, mark, recover (timer callback), sign out, statistics | `SubPool` |
| **Pool manager** `internal/pool/manager.go` | maps provider → pool and account → provider under `m.mu` | `LeaseAccount`, `LeaseAccountWait`, `AddAccount`, `RemoveAccount`, `LoadFromRepository`, marks, `Close` | `SubPool` (per pool), `Gateway` (load, write-behind) |
| **Proxy engine** `internal/proxy/engine.go`, `dispatcher.go` | local variables of each request | `GenerateImage`: choose the provider, lease, dispatch, mark, release, retry, save, fall back | `ProviderChoice` (which provider), `Gateway` (the rest) |
| **Accounts table** `internal/storage/sqlite/accounts_repo.go` | a row per account | `SaveAccount`, `UpdateAccountStatus`, `ListAccounts`, `ListReadyAccounts` | `Gateway` |
| **Start** `cmd/server/main.go` | – | resolve the key, fill the registry, load the pool, serve; a crash may come anywhere | `Gateway`, `KeySources`, `ProviderBoot` |
| **Provider registry** `internal/provider/registry` | map of providers under `r.mu`, before the table | `Register`, `RegisterBatch`, `Unregister`, `LoadFromRepository`, `Get`, `DefaultProvider` | `Registry`, `ProviderBoot`, `ProviderChoice` |
| **Master key resolver** `internal/config/key_resolver.go` | key file, cache, lock per path | five tiers of sources; the last creates a file that several processes may race for | `KeySources` (all), `KeyResolver` (tier 5) |
| **Manifests** `internal/provider/manifest` | – | load and validate provider files; directory or embedded | `ProviderBoot` |
| **Configuration** `internal/config/config.go` | – | lay file, environment and arguments over the defaults | `Configuration` |
| **Ciphers** `internal/security/crypto.go` | the key | encrypt with the preferred cipher, decrypt by the blob's tag | `KeySources` |
| **Secrets table** `internal/storage/sqlite/secrets_repo.go` | a row of two blobs per account | save, read, delete | `KeySources` |
| **Features tables, database, tokens, HTTP routes, DTOs** | rows; none | SQL statements; pure functions | no |

A request (a goroutine of the HTTP server) calls the engine, which leases an
account from the pool by a call that may put it in the queue, and gets a clone
and a release func. The pool answers a waiter through a channel, under its
lock. Timers call back into the pool on goroutines of their own. After a
critical section, and outside it, the pool writes to the accounts table; the
engine reads and writes the same table directly. Nothing orders those writes.

What is hard here, and correct when it works:

* **Pool**: a hand-over (send under the lock) races with the waiter's timeout;
  a timer that has fired cannot be stopped; accounts are removed and added
  while leased. Leases must be conserved, exclusive and never lost, waiters
  served in order, cooldowns ended, the scan fair.
* **Engine and table**: a mark has to precede the release; the retry loop must
  end and leak nothing; rows lag behind memory, writes may be lost or overtake
  each other, and a crash leaves only the rows.
* **Registry**: table and map are written one after the other without a common
  lock; a batch may fail half-way.
* **Provider of a request**: chosen, looked up in memory and then in the table by
  separate reads, while others register, reload and remove.
* **Key resolver**: exclusive creation, then writing, then syncing; other
  processes read in between, and a crash or a failure may come between.
* **Configuration and secrets**: two modules decide together which of six sources
  names the key, and a setting may be kept in three fields; a process must come to
  the same key after every crash, or it cannot read the secrets of its own.

## Modules

* `SubPool` – one provider's pool. One action per critical section of `sp.mu`,
  per arm of a waiting caller's `select`, per runtime event. Hand-over and
  receipt, giving up and `cancel()`, a timer's firing and its callback are two
  actions each. A *slot* is a `poolAccount` struct, so that an ID that was
  removed and added again while it was leased is two slots; pointers to structs
  are slots, and a slot is reused only when nothing refers to it. A waiter is
  named by its caller, since a caller has at most one. A load of a cooling account
  takes three steps: it is added, its cooldown is read again from the struct the
  pool shares by then, without the lock, and its timer is armed.
* `LeaseService` – the abstract specification: who owns what and who waits, with
  a bound on leases and first come, first served. `SubPoolRefinement` gives the
  mapping: a lease belongs to a caller from the moment it is in the caller's
  channel, and the queue is the queue.
* `PoolRotation` – `SubPool` with a history variable that counts the grants of
  the scan that pass over an account which stays available.
* `Gateway` – extends `SubPool` (a composition that shares its state): every
  request is at a step of `GenerateImage`; rows, pending write-behind writes,
  the load at the start and crashes. Rows that are not rate-limited have no
  `paused_until`: the engine writes none. The server configures no wait timeout, so
  requests do not queue here; queueing is the business of the `SubPool` runs.
  `step` is the program counter, `copy` the request's account, `direct` says it
  came from the table. Each write to a row may fail, each error is ignored, as
  in the code. The dispatcher is the set of outcomes it can have: unreachable
  upstreams, missing URLs and odd statuses are successes with a dynamic image.
* `Registry` – operations of several writers on the table and the map; a batch is
  persisted row by row. The history variable `excused` collects the providers on
  which two operations overlapped or a batch failed half-way.
* `ProviderBoot` – extends `Registry` with `main()`: fill memory from the table
  (a failure is only logged), load the manifests of the directory or else of the
  binary, register them as one batch, serve; a failed row ends the process, a
  crash may come anywhere, and the next start finds the table as it was left and
  any directory. `LoadFiles` is the loader's loop: the first file that is
  `Rejected`, for itself or for an ID seen before it, ends it; `Sound` in the
  properties says independently of it what a usable directory is.
* `ProviderChoice` – extends `ProviderBoot` with the beginning of one request:
  default provider, `"flow"`, first row, then the blueprint from memory or from the
  table, one action per read. It ends where `Gateway` begins.
* `Configuration` – the layers of `config.go` as operators, without state: a layer
  is a function from the settings it mentions to values, and `Load` overrides them
  one by one with `++`, which is `@@` of the module `TLC` under a definition the
  prover can expand. Its second half is the reference: for each setting the list
  of the places that may name it, strongest first.
* `KeyResolver` – goroutines of several processes at tier 5, one action per file
  operation, with failing writes and crashes; `used` remembers every key ever
  returned.
* `KeySources` – extends `KeyResolver` with `Configuration`: the first four tiers,
  the process' key and cipher, and the row of secrets. Each process has sources of
  its own (`start`), which stay what they are over crashes. A blob is its tag and
  the key it was sealed with. `KeyOrder` in the properties is the order in which
  `Load` and the resolver together let the sources win, stated independently.
* `*Proofs` – the theorems and their proofs, see below: `SubPoolProofs`,
  `SubPoolIndexProofs`, `PoolTimerProofs`, `PoolRotationProofs`, `GatewayProofs`,
  `ProviderProofs`, `KeyResolverProofs`, `KeySourcesProofs`.
* `MC*` – the instances TLC checks. `(* Fault: ... *)` marks operators that are
  used by no specification: each is a definition changed as a plausible bug would
  change it, and the property it belongs to (`PROJECT.json`, `mutants`) fails
  with it.

## Runs that pass

| Run | What it shows | Instance |
|---|---|---|
| `PoolQueue` | `LeaseConservation`, `SendNeverBlocks`, `NoWaiterDropped`, `WaiterProtocol`, `ExclusiveLease`, `ImplementsLeaseService`, `OnlyReadyGranted` | three callers, one account with `MaxInFlight` 2, all of `Next` |
| `PoolReAdd` | `CooldownHasTimer`, `SignedOutIsSticky`, `CooldownEnds` under fair timers | one caller that leases and releases but never queues, one ID with two structs, `MaxInFlight` 1, two timers: an old timer, an old struct and new ones coexist |
| `PoolService` | `WaiterServed` under fairness | two callers, two accounts, two timers, the clock 0..1; marks, sign-outs and removals at any time; restricted as said below |
| `PoolRotation` | `TypeOK`, `NoAccountStarved` | three accounts, two callers, additions and removals |
| `GatewayRequests` | `GTypeOK`, `EndedRequestsHoldNothing`, `NoGrantBeforeVerdict`, `SettledSignOutLasts` | two requests, one account, two attempts, one crash |
| `GatewayCrash` | `RequestAnswered`, `StoredCooldownEnds` under fairness | one request, one crash, rows that start ready or cooling |
| `RegistrySync` | `CTypeOK`, `ServesSynchronized`, `BlueprintFound`, `StartsWithAllOrNothing`, `BatchAppearsWhole` | start, two writers, one request at a time, any number of crashes; two IDs, two versions of one provider (one disabled), batches with a repeated ID; directories that are missing, empty, sound, broken, with a repeated ID; rows that differ because operations on them overlapped, a batch failed or the start could not read them are excused by `ServesSynchronized` |
| `KeyShared` | `STypeOK`, `KeyIsPersisted`, `OneCreator`, `StrongestKeyUsed`, `SettingsByPrecedence`, `SecretsReadable`, `CallReturns` under fairness | two goroutines in one process, one in another, writes that fail before or after a part of the key, failing syncs, one crash, 138 pairs of installations: every set of sources for the key, every way to name the manifests directory in a file, both preferences of cipher |

`PoolService` is smaller than the pool, because `WaiterServed` is not true of all of
it (`ServingNext`, `TimersComeFirst` in `MCSubPool`). What it leaves out is:

* loads and additions while somebody is in a call: `AddAccount` wakes nobody. The
  gateway does both before it serves;
* `Close`, after which no cooldown ends;
* the statistics, and scans between the end of a cooldown and the callback of its
  timer: both end the cooldown themselves, stop the timer and wake nobody. This is
  a fault of the code, and `PoolLostWakeup` below shows it.

What it has is the rest of the pool in any order: a holder whose account is signed
out, marked or removed returns it and hands nothing on, timers fire late or for an
account that has changed, waiters give up with a lease in their channel. A waiter
is then left alone only when no account of the pool is ready or cooling, as
nobody can serve it.

Bounds: the clock stops at `MaxTime` (1 or 2: a cooldown can end, and a second
one can begin before or after that); `Durations` are the cooldowns callers pass;
`Timer` bounds the timers that are armed or waiting for the lock at once (two: a
stale one and its replacement, and in the code the stale one's slot has no
reference left either); in `PoolService` the clock stops at 1, so that the cooldown of a mark
and one that is loaded end, and 429s do not come for ever; `Slot` bounds the structs that are referred to; crashes
are counted. The callers of a run are interchangeable and so are the timers,
hence the symmetry of the safety runs; liveness runs use none. Three callers are
enough for the queue because an error in it takes one holder and two waiters
(the one that leaves and the one that must be served): with two leases allowed,
one caller holds a lease while its account is rate-limited and two wait.
`PoolReAdd` has one caller: it holds the lease of the old struct while a new one
is marked, and its subject are timers, not the queue. `KeyShared` has one crash,
which is enough to die at any point of the creation or after having saved a
secret, and to start again; a process installed without a key keeps racing with one that
has its own. `GatewayRequests` has one account on purpose: contention for it is the hard
case, and rotation among several is `PoolRotation`'s subject. At the end of
the clock no 429 arrives any more (`Dispatch` needs room for the cooldown).

Fairness (`Fairness`, `GFairness`, `KFairSpec`, `SFairSpec`): goroutines that can run do, due
timers fire and their callbacks run, the loader goes on, the clock advances, a caller
that is to receive, to give back or to cancel does so, and one that holds a lease returns it (the
engine releases on every path, and its HTTP client has a timeout), the boot goes
on, and a waiter for a Go mutex gets it eventually (strong fairness; Go's mutex
hands over to a starving waiter). `PoolReAdd` takes only the part about timers and the
clock (`TimerFairness`): a cooldown ends even if no caller ever moves. No fairness makes a waiter give up, a request
start or a writer fail. `StoredCooldownEnds` supposes in addition that 429s do
not go on for ever: each starts the cooldown again.

## Where the code does not do what is said of it

Four runs must find their property violated; `PROJECT.json` quotes the claims.

| Run | Claim | What happens |
|---|---|---|
| `PoolStaleTimer` | an overwritten cooldown is not ended early (a test's claim) | the old timer had fired already; its callback checks its own expiry only |
| `PoolLostWakeup` | a call waits while the pool is busy | the statistics make the account ready, stop the timer that would have served the waiter, and serve nobody; the waiter sleeps until its timeout beside an idle account |
| `GatewayExclusive` | the table is asked only without a pool or with an empty one | it is asked when the pool is busy, and gives out the account in use |
| `KeyCrash` | an empty key file is transient | its creator has crashed; every later start fails |

The models also have these behaviours, each seen in a TLC trace while they were
written, and the properties above are stated so as to say what holds in spite of
them:

* `AddAccount` too makes an account ready without waking a waiter
  (`subpool.go:48-53`), and a scan that finds a cooldown elapsed leases the account
  to its own caller, with no timer left to wake those who wait for another lease
  of it (`scheduler.go:35-40`).
* `recoverAccount` ignores a timer that finds the clock before its expiry and arms no
  other (`subpool.go:250`). In the models the clock never goes back and the exit is not
  taken; setting the wall clock back after a cooldown was loaded would take it.
* `LoadFromRepository` reads the status and `paused_until` of an account it has put
  into the pool, without the lock (`manager.go:171`). A sign-out between two of these
  reads makes the last one dereference nil; in the model they are one step, and
  `main()` loads before it serves.
* An account that is removed while leased and added again has a new struct and
  a new counter, so its ID can be leased twice (`subpool.go:65-87`).
* `SaveAccount` after a success writes the clone of the lease's beginning, status
  included, over a 429 or 401 that came meanwhile (`engine.go:143-148`).
* With no account and no error the engine returns a synthetic image, where
  `TEST_INFRA.md:99` wants an HTTP error (`engine.go:158-171`); `TEST_INFRA.md:172`
  speaks of an exponential backoff the engine does not have.
* Two calls of `Register` for one provider, none of which fails, can write the row
  in one order and the map in the other, and `Unregister` between `Register`'s two
  writes leaves the provider in memory only (`registry.go:183-193`), where
  `PROJECT.md:24` speaks of an "automatic SQLite synchronization". `Synchronized`
  excuses both, until the next start.
* An unusable manifests directory is replaced by the embedded manifests with a
  log line (`main.go:104-110`), where `LoadWithFallback`, which `main()` does not
  call, reports it (`loader.go:203-206`).
* `Validate` trims an ID before it looks at it, the loader and the registry do
  not: `" flow"` is accepted, and is another provider than `"flow"`
  (`validator.go:91`). `IDOf` in the models is the ID that is used, untrimmed.
* A manifest replaces the row of its provider at every start, its status
  included (`main.go:118`).
* The two comments about keys contradict each other: `key_resolver.go:118-123`
  puts every key before every key file; `config.go:174` lets a key file of the command
  line override "JSON config and ENV master keys", but the resolver reads the
  environment's key itself, and first, so that the exception holds against the
  JSON file's key only. `KeyOrder` is what comes out.
* `"manifests_dir": ""` in a file is a change like any other and wins over
  `providers.manifests_dir`; all three fields become empty and the default is used
  (`config.go:137-139`, `66`).
* `AESGCMCipher.Decrypt` accepts blobs without a tag by looking at their first
  byte, which is random in such a blob (`crypto.go:85`); no `Encrypt` of today
  writes one.
* The fallbacks of the engine take `"flow"` or the first row whatever its status,
  and between `DefaultProvider` and `Get` the provider may have been replaced by a
  disabled one (`engine.go:71-92`). A request whose provider is nowhere is answered
  with a synthetic image (`dispatcher.go:51`).
* Deleting a provider takes its accounts and their secrets out of the tables
  (`ON DELETE CASCADE`), while the pool goes on leasing them.
* `AddAccount` under another provider leaves the account in its first pool
  (`manager.go:99`): it can be leased from both. Nobody does this today.
* A reader may take the key before the creator's `Sync` fails and removes the
  file, and it may take a part of it before the write fails: any text that is not
  blank is a key (`key_resolver.go:320-334`,
  `key_resolver_negative_durability_test.go:592`). Both are the exception in
  `KeyIsPersisted`.
* A 429 that arrives after its account was signed out makes it cool down and come
  back ready (`subpool.go:229-230`), and a clone of a lease that began before a sign-out writes the
  row back to ready. `SignedOutIsSticky` is about one step of the pool,
  `SettledSignOutLasts` about accounts no request works with any more.

## Proofs

Each theorem holds for every value of the constants that meets the named
assumptions of its modules. Those say what the constants are (`ConstantsAssumption`,
`GatewayAssumption`, `RegistryAssumption`, `BootAssumption`, `ChoiceAssumption`,
`KeyResolverAssumption`, `KeySourcesAssumption`, `WindowsAssumption`: types, model
values that differ from what they stand beside) and, for three of them, something
of the installation: the manifests in the binary load (`EmbeddedAssumption`; the
build's tests see to it), what is loaded is among the batches considered
(`ManifestsAssumption`), and all processes have one data directory, which is
what makes them share a key file (the last conjunct of `KeySourcesAssumption`). TLC
evaluates all of them on every run of their modules.

### The pool

`SubPoolProofs`, for every set of accounts, structs, callers and timers and every
`MaxInFlight`:

* `TypeCorrect`: `Spec => []TypeOK`. Inductive as it stands: the cursor is part
  of it, and every action that changes the list or the cursor keeps it inside.
* `LeaseInvCorrect`, and from it `LeasesConserved`, `LeasesExclusive`,
  `SendsNeverBlock`, `WaitersNeverDropped`, `WaitersFollowProtocol`.
  `LeaseConservation` is not inductive alone: a hand-over puts a lease in a
  channel, and unless that channel is known to be empty a lease would be
  overwritten. `LeaseInv` adds that callers queue at most once (`QueuedOnce`),
  that queued waiters have an empty channel and are not done, that a caller
  outside the waiting steps is not queued and has an empty channel, that holders
  hold a real struct, and that the counters are within `MaxInFlight`; then every
  action changes the counter of a struct and its set of owners together. The
  lemmas about removing from and popping a queue without repetitions are stated
  once, before the actions that need them.
* `PoolImplementsLeaseService`: with `LeaseInv`, each action maps to a grant, a
  queueing, a service, a transfer, a return, an abandonment or a stutter.

`SubPoolIndexProofs` builds on it:

* `IndexCorrect`: `sp.accounts` and `sp.accountsByID` agree. An account is appended
  only while its ID has no entry, and leaves the list together with its entry; so
  the list holds no struct twice and every listed account is the one indexed.
* `GrantsAreReady`: `Spec => OnlyReadyGranted`. A scan takes its account from the
  list, which `IndexCorrect` relates to the index; a hand-over (after a return, a
  cancelled wait, a lease that came too late, or a timer) follows a look-up in the
  index and a check of the state. The run `PoolQueue` has a single struct per
  account; the theorem also covers the accounts that are removed and added again.

`PoolTimerProofs` builds on that:

* `SignOutSticks`: `Spec => SignedOutIsSticky`, action by action: only a cooling
  account is recovered, by whatever.
* `CooldownsHaveTimers`: `Spec => []CooldownHasTimer`, provided nobody adds an
  account that cools already (`"rate_limited" \notin AddStatuses`): `AddAccount` itself
  arms no timer, `LoadFromRepository` does afterwards. `TimerInv` strengthens the
  property: a load that has not read the cooldown yet counts only for the struct it
  is going to read and if that read will not turn it down (`Covered`). It adds that
  one account is loaded at a time, that the timer a struct points to is for the struct's ID, so that
  stopping it takes no other account's timer away (this is where `IndexInv` comes
  in: two pooled structs have two IDs), and that a timer which has fired is due, so
  that a callback that finds its account cooling does end the cooldown, unless the
  account was marked anew, and then a younger timer is there.

`PoolRotationProofs`: `ScanStarvesNobody`. The number of grants that have passed over
an account and the way the cursor still has to go to reach it add up to less than
the length of the list. The lemmas before it are arithmetic round a circle; a
scan that grants an account before `p` leaves the cursor nearer to `p` by at least
one.

### The gateway

`GatewayProofs`, for every number of requests, accounts, attempts, crashes and rows:

* `GInvCorrect`: `GInv` has the pool's `LeaseInv` and `IndexInv`, the types, that
  nobody waits in the queue (the server has no wait timeout), and for each request
  that it is at one of the steps that hold a lease exactly if the pool has a
  lease of its out (or its account came from the table). The pool's part is not
  proved again: a gateway step is a step of the pool without `AddAccount` of a
  cooling account, or a crash, which leaves the pool as `Init` does.
* From it `GatewayTypes`, `GatewayLeases`, `NoLeaseOutlivesItsRequest`, and the action
  properties `VerdictBeforeNextGrant` and `SignOutLasts`. The second of these has one
  case per step that writes a status or a row; each either needs a copy, a pending
  write or a cooling row of the account, which a settled sign-out excludes, or reads
  the row and finds it signed out. `VerdictBeforeNextGrant` is for
  `MaxInFlight = 1`, what the server configures: the bound on leases is the reason.
* `GatewayCooldownsHaveTimers`: here `CooldownHasTimer` needs no proviso, because the
  load is the only one that adds cooling accounts.

### Providers

`ProviderProofs`, for every set of providers, writers, batches and directories:

* `BInvCorrect`: `BInv` says what holds in each phase of the start (memory is empty;
  the rows that were read are the rows of the table; table and memory agree on all
  that is not excused; of the manifests' batch what is written is in the table) and,
  while the gateway serves, that an operation works alone on whatever is not excused
  and keeps its own promise there (`Coherent`): of a batch the written providers are
  rows, of a removal there is no row, rows that were read are still the rows.
  `OpStepLocal` proves once, per operation, that it changes nothing it does not touch
  and keeps `Local`; `ServeKeepsBInv` then needs only to know who touches an ID.
* `MemoryFollowsTable` (`ServesSynchronized`), `StartIsAllOrNothing`
  (`StartsWithAllOrNothing`; its second half says that a start writes no row but those
  of its manifests) and `BatchesAppearWhole` (`BatchAppearsWhole`) follow;
  `WhatIsRegistered` relates the loader's loop to the definition of a sound
  directory, for directories of any number of files.
* `RequestsOnlyRead`: `CSpec => BSpec`, so the three theorems above hold of the
  specification the run checks.
* `ChoiceTypes`, `StoredProviderIsFound`: `Chosen` adds to the types that a
  provider which has stayed in the table is the request's, and that it has been
  found when the request is ready.

### Keys, secrets and settings

`KeyResolverProofs`, for every number of processes, goroutines and crashes:
`KeysPersisted` and `CreatorIsUnique`. `KeyInv` relates `file`, `key` and `pc`: of all
callers one at most is between the creation and the end of its call; the file is
what it has put there so far; and until a write or a sync fails whatever is cached, about to be
cached or was ever used is what the file holds, so that while it is empty nobody has
a key.

`KeySourcesProofs` builds on it: `SecretTypes`, `KeysPersistedAmongSources`,
`StrongestKeyIsUsed`, `SecretsStayReadable` and `SettingsAreByPrecedence`. `SecretInv`
adds that only processes without a given key call tier 5, and that the key of a
process and the key a blob was sealed with are the ones their sources say. Most of the module is about
`Load` as a function: for all files, environments and arguments, laying the layers
over each other gives each setting what the reference list gives it, and the key of
the resolved configuration is the one `KeyOrder` names.

### What stays with TLC

Liveness under fairness: `WaiterServed`, `CooldownEnds`, `RequestAnswered`,
`StoredCooldownEnds`, `CallReturns`. Everything else a passing run checks is proved.
That an account re-added under another struct stays apart from the first is shown by
the theorems only (`LeasesConserved`, `LeasesExclusive`, `GrantsAreReady`), as
`PoolQueue` has one struct. The inductive invariants were checked by TLC on the
instances of the runs before they were proved. The modules that are proved about have
no `RECURSIVE` operator: loops that look for the first of something use `SelectInSeq`.

## Plan

1. `SubPool`, `LeaseService`, `SubPoolRefinement`, `SubPoolProofs`,
   `SubPoolIndexProofs` – done.
2. `PoolRotation`; `Gateway` on top of `SubPool`; `Registry` and `ProviderBoot`;
   `KeyResolver` – done.
3. `Configuration` and `KeySources` on top of `KeyResolver`; `ProviderChoice` on
   top of `ProviderBoot`; sign-outs across crashes in `Gateway` – done.
4. Proofs of the safety properties of timers, rotation, gateway, providers, keys
   and settings – done.
5. An abstract specification of the key resolver (a register that is written once)
   and of the registry (a table with a cache), and the refinements.
6. A module for several pools (`m.pools`, `m.accountProvider`), should the gateway
   ever add, move or remove accounts while it serves. Today it does not: the maps
   are filled once, before the first request.

## Not modelled

The bytes of ciphers, tokens and keys, SQL beyond the rows' meaning, the features
tables (nobody reads them), migrations, HTTP parsing and routing, header
formatting, the SVG of a synthetic image: pure functions or the business of
libraries. That a request ignores an error of `GetAccountSecrets` and goes out
without credentials (`engine.go:115`). The maps of the pool manager over several
providers, which do not change while requests run. `SetDefault`, `LoadWithFallback`,
`DeleteAccount`: no caller in the gateway. Times of the last check and lease counters, which the pool writes and
never reads. The graceful shutdown ends requests before it closes the pool;
`Close` is an action of `SubPool`, at any time.

## Running

    tlc -config PoolQueue.cfg MCSubPool
    for m in *Proofs.tla; do tlapm $m; done
