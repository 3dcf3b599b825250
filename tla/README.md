# Verification of oast

TLA+ specifications of the oast server (out-of-band interaction collectors,
their storage and the admin API), the TLC runs that check them on small
instances, and TLAPS proofs for every instance: of the event bus, the shutdown
of the process, both stores, the admin API's tokens and its login, and the zones
from the configuration to the name of a request. Paths below are relative to the
repository's root (`src/`).

    tlc -config EventBus.cfg EventBus.tla       # one line per run of PROJECT.json
    tlapm SeqFacts.tla                          # lemmas on sequences and sets
    tlapm EventBusProofs.tla
    tlapm ShutdownProofs.tla
    tlapm MemoryProofs.tla
    tlapm SQLiteProofs.tla
    tlapm AdminTokensProofs.tla
    tlapm AccessProofs.tla
    tlapm BootstrapProofs.tla

## 1. The system

A DNS collector (UDP and TCP) and an HTTP collector (HTTP and HTTPS) answer
whatever arrives for the configured zones, find the callback token in the labels
before the zone, and hand an *interaction* to the event bus. The bus batches
interactions and writes them to a store: an in-memory one or SQLite. An
administrator's browser talks to the admin API, which creates tokens and lists
and deletes interactions through the same store. Three sweepers mark and purge
tokens, purge refresh tokens and enforce retention.

    DNS udp/tcp --+   domain trie      +--------+  batches  +-----------------+
                  +-> token matching ->|  bus   |---------->| store           |
    HTTP/HTTPS ---+   (reads tokens)   +--------+ N workers | memory | SQLite |
                                                            +-----------------+
    browser -> admin API (login limiter, visitor cookie) ------^      ^
    sweepers: tokens 10 min, refresh tokens 1 h, retention 5 min -----+

| Component | State | Operations | Hard behaviour | What makes it correct |
|---|---|---|---|---|
| Event bus, `internal/interaction/bus.go` | channel, context, per-worker batch, counters | Submit, worker loops, flush, Stop | N workers, ticker and Stop interleave; the store fails; drain | an accepted event is in one place; bounded loss; Stop is a barrier and drains |
| Process, `cmd/oast/main.go` | order of start and stop, budgets | deferred shutdown | slow handlers outlive their budget; Submit after close | no Submit after close; shutdown ends |
| Bootstrap, `cmd/oast/main.go`, `internal/config/config.go` | the file's domains, the store's rows of domains | Load, validate, bootstrapDomains | a restart on an old SQLite file with an edited configuration; a domain that cannot be stored; a crash half-way | trie, rows and file agree; a token handed out can be called back |
| Collectors, `pkg/dnsserver`, `pkg/httpserver` | listeners, requests in flight | handle, Shutdown | shared five-second budget, recovered panics | a late request costs itself only |
| Memory store, `internal/storage/memory.go` | five indexes of interactions, two of tokens, other tables | add, evict, delete, sweep, reads | index consistency, two nested caps, clock steps | indexes agree; caps hold; reads are scoped |
| SQLite store, `internal/storage/sqlite.go` | tables, write lock | transaction, enforceCaps, deletes | caps enforced after the commit, by separate statements; crash | batches atomic; caps at rest; only the oldest are evicted |
| Admin API, `internal/api/server.go` | requests in progress | handlers of tokens and interactions | each handler is several store calls | caps, ownership and scope under interleaving |
| Login limiter, same file | failures per peer | allow, fail, prune | check and record are separate | bounded failures, no lockout for ever |
| Login, same file | session cookie, visitor cookie, and the browser's jar | login, logout, the two middlewares | parallel requests whose answers overtake each other; cookies that end | the gate needs a recent login; a visitor keeps its tokens |
| Domain trie, `internal/domain/manager.go` | nodes | Add, Resolve | nested zones | the longest zone wins |
| Token matching, `internal/token/token.go` | none | MatchToken | a scan of lookups while tokens change | a registered token is not missed |
| Accounts, refresh tokens, projects, logs | tables of both stores | single critical sections | | used by nothing but tests (section 7) |
| Legacy authentication, web console | | | | not modelled (section 7) |

The hazards this leads to are listed, each at its line and with the properties
that cover it, in `PROJECT.json` under "hazards".

## 2. Modules

| Module | Models | Corresponds to the code as |
|---|---|---|
| `Delivery` | what ingestion promises to its producers | the abstract specification of the bus |
| `EventBus` | `bus.go` | `pos[w]` is the loop a worker is in (outer select, drain select, returned), `call[w]` how far its flush() is inside AddInteractions; one action per case of each select and per step of flush and Stop |
| `SeqFacts` | | lemmas on sequences, on the newest elements of a set, and on sorting one |
| `EventBusProofs`, `ShutdownProofs`, `MemoryProofs`, `SQLiteProofs`, `AdminTokensProofs`, `AccessProofs`, `BootstrapProofs` | | the proofs (section 6) |
| `Shutdown`, `MCShutdown` | main's deferred shutdown and the collectors, EXTENDS `EventBus` | `asked`/`down` count the servers whose Shutdown was called / returned, in main's order; every event is one request |
| `InteractionLog` | a capped store as its callers see it | the abstract specification of the memory store |
| `MemoryStore` | interactions in `memory.go` | all five indexes; every iteration of a loop under the write lock is a step, and `lock` names the loop that holds it |
| `MemoryReads` | the queries over those indexes, EXTENDS `MemoryStore` | one operator per query, with the path (owner scope, token, global list) the code takes; `Sorted` is `sort.Slice`, the i-th element being the one that i - 1 others precede |
| `SQLiteStore` | `AddInteractions` and `enforceCaps` in `sqlite.go` | `job[w].pc` is the statement that comes next; a transaction is invisible before its commit; retention takes any rows, because the stamps need not grow with the ids |
| `AdminTokens`, `MCAdminTokens` | token and interaction handlers of `api/server.go` over the token calls of both stores, and the token sweeper | `req[r].pc` is the store call that comes next, with what the handler remembers from the calls before; in SQLite every call may fail |
| `AdminLists` | `handleListInteractions`, EXTENDS `AdminTokens` | `list` is the list in progress, between its two store calls |
| `LoginLimiter` | `loginLimiter` | allow and fail are one step each, what lies between them is a login in progress; a peer's list, which the code only filters, appends to and counts, is the set of its failures |
| `AdminAccess`, `MCAdminAccess` | `handleLogin`, `handleLogout`, `authMiddleware`, `visitorMiddleware`, and the browser, EXTENDS `LoginLimiter` | `call[r]` is a request with the cookies it was sent with, or its answer on the way back; `jar` is what the browser keeps of the answers, in the order they arrive |
| `Resolution` | `domain/manager.go`, `MatchToken` | the trie is the set of its nodes' paths; each label's lookup is a step |
| `Bootstrap`, `MCResolution` | `config.Load` and `validate`, `bootstrapDomains`, the domain calls of both stores, the domain of a new token; EXTENDS `Resolution` | `cfg` is the file of the running process, `at` the domain the bootstrap is at; `Down` ends the process at any point and keeps what the store keeps |

How they compose: `Shutdown` adds the process to the bus's own variables and
takes the bus's actions as they are. `EventBus` writes to an abstract store,
whose AddInteractions either stores a batch whole or fails; `MemoryStore` shows
it for the one store by refining `InteractionLog`, where a batch appears at
once, and `SQLiteStore` shows it for the other (`AnswerIsTrue`). `AdminAccess`
takes the limiter's steps as they are and adds what the browser knows. `Bootstrap`
takes the trie and the scan of `Resolution` and says where the zones and the
tokens come from: the file, the rows, and the admin API. `AdminTokens` takes
of the stores' interactions what a handler sees of them: one is stored under a
label, or the oldest goes (`Callback`, `Evict`).

What is abstracted everywhere: an interaction is its identity, token and stamp;
ids are numbers, and only their order is used (the memory store takes the ids of
all its tables from one counter, so those of the interactions may have gaps); a
label is a model value or a short string, and no white space surrounds a name
(`normalize` would trim it). Formatting, JSON, logs and answers do not appear.

Definitions marked *Fault* are plausible mistakes in the code. Nothing uses
them; each is there to be put in the place of the definition that follows it,
when a property is tested for its power to tell the two apart (`PROJECT.json`,
"mutants").

## 3. Runs

"V" marks a run that ends in a counterexample (section 4).

| Run | Module, cfg | Shows |
|---|---|---|
| bus | `EventBus`, `EventBus.cfg` | ExactlyOnce, StopIsBarrier, TotalIsExact, every worker returns, the bus implements Delivery |
| bus_stop_ctx V | `EventBus_stop_ctx.cfg` | StopDrains with the repository's stores |
| bus_stop_drain V | `EventBus_stop_drain.cfg` | StopDrains with a store that ignores the context |
| shutdown | `MCShutdown`, `MCShutdown.cfg` | one worker keeps the order; late Submits need an overrun; no DNS crash; clean exit; shutdown ends |
| shutdown_late V | `Shutdown_late.cfg` | NoLateSubmit |
| memory | `MemoryReads`, `MemoryStore.cfg` | IndexesAgree, CapsHold, reads, sweep, retention, refinement of InteractionLog |
| memory_clock_set_back V | `Memory_clock_set_back.cfg` | SweepRemovesAllOld |
| sqlite | `SQLiteStore`, `SQLiteStore.cfg` | atomic batches, caps at rest, bounded overshoot, oldest first |
| tokens | `MCAdminTokens`, `MCAdminTokens.cfg` | ValuesUnique, CapUnderConcurrency, TokensGoForAReason, DeletesWhatItChecked, SweepIsComplete (SQLite, whose calls may fail) |
| value_reused V | `AdminLists`, `AdminLists_disclosed.cfg` | NeverOthersData, when a value is given out again |
| limiter | `MCAdminAccess`, `MCAdminAccess.cfg` | bounded failures, refusals justified, the gate needs a login (GateNeedsLogin), a visitor keeps its tokens (ToldTokenVisible) |
| resolution | `MCResolution`, `MCResolution.cfg` | LongestZoneWins, ScanFindsSteadyToken, TrieInSync, TokenIsServed |

### Bounds, and why they are enough

* **bus**: three events, two workers, capacity 2, batches of 2. A full channel,
  a full batch, a partial batch left to the ticker, both workers draining at
  once, and a late worker that finds the channel closed in either loop all
  occur. The theorems of section 6 hold without these bounds.
* **shutdown**: one DNS request, a slow HTTP request and an HTTPS request behind
  it in the same budget, which is what it takes for the overrun of one server to
  reach the other. One worker, so that the order of the rows is determined.
* **memory**: caps of 3 and 2, batches of up to 2, four ids: a batch can exceed
  either cap, both caps can evict in one batch, and both tokens (one stands for
  "no token", which the memory store treats like any other) can compete. Three
  instants and retention of one: fresh, boundary and old; the clock may be set
  back at any point.
* **sqlite**: two workers, three batches of up to 2, caps of 3 and 2, one fault
  (a failed statement or a crash, at any point). Two workers are what it takes
  for a COUNT to be stale when its DELETE runs.
* **tokens**: two visitors, two requests at a time, at most one token each; three
  values, so that both requests of a visitor pass the cap test and a third token
  can follow, and a value can be freed by a visitor and taken by the other while
  a request is in progress; four ids for tokens and interactions together
  (`MaxIds`), enough for three tokens, and for a token and two interactions, the
  second of which would have the first one's id, were ids reused; one create whose
  list fails (`MaxUntested`). A lifetime of one, no grace period and a clock of
  three instants: a token is active, at its end, and past it, where the end of the
  grace period is. Other grace periods are for the theorems. It is the SQLite
  store; a CreateToken of the memory store is the two statements of SQLite's one
  after the other, so its behaviours are among these. Visitors, values and slots
  are interchangeable, and the properties are safety properties, so the run uses
  symmetry (2.6 million states).
* **limiter**: the browser and one other peer, two requests at a time, limit 1,
  window 2, three instants, visitor cookie of 2, session of 1, two visitor ids.
  Two requests are what it takes for answers to overtake each other and for a
  login to pass the limiter beside another; a limit of 1 and two slots let the
  overshoot happen; three instants let a window, a session and a cookie end. The
  slots are interchangeable (symmetry). About 5.4 million states.
* **resolution**: two starts, each with one of ten files: nested zones in either
  order and three levels deep, the same zone in other letters, with a final dot
  or with another address, the root, and four files that validate refuses. The
  process may go down at any point, also in the middle of the bootstrap. Names
  inside and outside the zones with none to three labels before them; two token
  values, one of which is also the label of a zone inside another.

`CHECK_DEADLOCK FALSE` stands in the runs whose bounds stop the system (ids,
calls and the clock run out). The bus and the shutdown run are checked for
deadlock: their only final states are the named ones (`Finished`, `Ended`).

### Fairness, and why the code justifies it

* **EventBus**: a worker goroutine that can run does (`WF` per worker). It is
  not assumed that a particular case of a select is chosen, nor that Stop is
  ever called. A Stop that has begun goes on (`StopClose`, `StopDone`); its
  drain timeout may fire or not. `Delivers` needs the ticker: without it a
  partial batch would wait for ever.
* **Shutdown**: handlers return (`WF`), except those in `Slow`, of which nothing
  is assumed; timers fire; main goes on once shutdown has begun. That the signal
  comes is not assumed.
* **MemoryStore**: a loop that holds the lock goes on; the sweeper's ticker
  fires (`WF`); the sweeper gets the lock if it is free again and again (`SF`),
  because Go's `sync.RWMutex` blocks new readers and its mutex does not starve a
  waiter for ever. Under weak fairness alone the writers could keep it out.

The other modules state no fairness, and claim safety only.

## 4. What does not hold

1. **Stop loses what it is told to drain** (`bus_stop_ctx`). `Stop` cancels the
   bus's context first (`bus.go:97`), and that is the context flush() hands to
   AddInteractions, which both stores refuse once it is cancelled. Every flush
   from then on is an error, logged and discarded, although the comment on
   `Stop` says that workers "drain remaining events". Shortest run: one event is
   accepted, Stop cancels, the worker drains it, the store refuses it, Stop
   returns in time and the event is in no row.
2. **The drain loop forgets its batch** (`bus_stop_drain`). When it finds the
   channel closed it returns without flush() (`bus.go:151`), unlike the outer
   loop in the same case. With a store that ignores the context, as the one in
   `bus_test.go` does, an event received inside the drain loop is lost.
   `TestBus_StopDrains` does not see it because it sleeps before Stop.
3. **A late Submit is possible** (`shutdown_late`). main explains that collectors
   must be gone before the channel closes, but gives each five seconds while a
   handler may read for thirty. What the run `shutdown` adds: it needs an
   overrun, it costs only the requests of the web collector, whose panics
   net/http recovers, and never the process.
4. **A sweep can leave old interactions** (`memory_clock_set_back`).
   `DeleteOldInteractions` walks the insertion order and stops at the first
   element that is not old. Stamps are wall-clock times without a monotonic
   reading; once the clock has been set back an old interaction can hide behind
   a newer one. Without a step the sweep is exact (`SweepIsExact`).
5. **A value given out again shows what it heard before** (`value_reused`).
   Scoping is by value: whoever has a value sees every stored interaction that
   came for it, also those of an earlier owner, although `visitorMiddleware` says
   that "different browsers can never see each other's data". It takes that
   `Generate` draws a value a second time while its interactions are still there.

Met while modelling, without a run of their own: SQLite's `enforceCaps` "mirrors
the memory backend", but spares interactions without a token from the cap of a
token (`sqlite.go:750-752`; `CapsHoldAtRest` says so); `NewMemoryStore` speaks of
a default of 4096 where the code uses 512; `Bus.Total` does not count what was
accepted but what was stored; the token alphabet has 31 symbols where its comment
says 32.

Of the tokens: the comment in `handleDeleteToken` says that the interactions of a
deleted token remain visible (`server.go:638-639`), but every read of the API is
scoped to the values of tokens that exist. `handleCreateToken` tests its cap only
if `ListTokensByUser` succeeds (`server.go:575`): a visitor whose lists fail has
as many tokens as it likes, and `CapUnderConcurrency` counts those creates beside
the cap. `MatchToken` takes every error of a lookup for "not registered"
(`token.go:96`). With SQLite the database may be busy, or the client of a web
request gone and its context cancelled: the request is then recorded under a
label farther away, or under one that is no token. `ScanFindsSteadyToken` says
that this costs no more than the failed lookup's own label.

Of the start: `bootstrapDomains` says that an existing row is loaded "so the
in-memory trie stays in sync" (`main.go:237-238`). It does for the zones of the
file (`TrieInSync`), but in SQLite the row keeps the address of its first start,
so that an edited `response_ip` is ignored; rows of domains that left the file
stay, are offered by the API, and are the default for a token without a domain
when they are the first row, although nothing serves them. `TokenIsServed` holds
in memory, and in SQLite as long as the file still has the token's domain; in
both it leaves out a token whose value is the label of a zone inside its own
domain, where the longer zone wins, which `CreateToken` does not exclude.
`validate` folds case but not the final dot, and lets "." pass, which the trie
then never finds.

Of the login: the visitor cookie is set once and never renewed, so a token
created late in its life outlives the cookie that leads to it; the property
`ToldTokenVisible` counts from the first request.

Of the two stores, where `sqlite.go` says that its "Semantics mirror
MemoryStore": ListLogs defaults to 50 rows in one and 100 in the other, adding a
member again resets its time of joining in memory only, and UpdateUser leaves the
password hash alone in memory only. Nothing in the program calls these operations, so
no module has them. `max_page_count` is set on one connection of a pool, and
SQLite keeps it per connection.

## 5. What the passing runs establish

* Whatever the interleaving of workers, ticker, store failures and Stop, an
  event that Submit took is queued, in one batch, stored once, or in a batch
  that was given up (**ExactlyOnce**). Loss starts only with shutdown or a broken
  store, and a pending event does not stay pending (**Delivers**).
* The five indexes of the memory store agree after every single eviction, which
  is what keeps the "stale list element" branch of `DeleteOldInteractions`
  unreachable: it would loop for ever under the write lock (**IndexesAgree**).
  Seen from outside the lock, batches are atomic and caps take the oldest
  (**IsLog**).
* In SQLite the caps may be exceeded while batches are in flight, by no more than
  those batches (**OvershootIsInFlight**), and hold when all workers are idle and
  nothing failed (**CapsHoldAtRest**). After a crash or a failed statement they
  need not hold until the next batch; the property exempts that case and the
  hazard list names it.
* Parallel requests may take a visitor past the cap of tokens, by fewer than
  their number, and by one for each create whose list of its tokens failed
  (**CapUnderConcurrency**); likewise parallel logins and the limit
  of failures (**FailuresAreBounded**).
* Two creates may race past SQLite's COUNT for one value; the UNIQUE index
  decides (**ValuesUnique**). A delete looks a token up by value and removes it
  by id, which is why it cannot remove another visitor's token that took the
  value meanwhile (**TokensGoForAReason**).
* A delete of an interaction removes none but one whose owner was checked, because
  ids are never reused (**DeletesWhatItChecked**).
* A purge leaves no token that had outlived the grace period at the last marking,
  also when calls of earlier sweeps failed (**SweepIsComplete**).
* Whatever file the operator leaves at a restart, every zone served is a row of
  the store and a domain of the file (**TrieInSync**), a name resolves to the
  longest zone that it lies in (**LongestZoneWins**), a callback is not lost to
  tokens that come and go during the scan, nor to the failing lookup of another
  label (**ScanFindsSteadyToken**), and the
  name a token was handed out under can be called back (**TokenIsServed**, with
  the provisos of section 4).
* In whatever order the answers to logins, logouts and creates reach the browser,
  nobody creates a token without having given the password no longer ago than a
  session lasts (**GateNeedsLogin**), and a browser sees the tokens it was told of
  while its visitor cookie lasts, unless two first requests were out at once
  (**ToldTokenVisible**).
* Slow uploads cost their own requests, never the process (**NeverCrashes**), and
  without an overrun the process ends with nothing pending (**CleanExit**).

## 6. Proofs

All theorems hold for every value of the constants that satisfies the ASSUMEs of
the component's module, and rest on nothing else. The bounds of the models
(`MaxId`, `MaxTime`, `MaxStarts`, ...) are constants like any other there, so a
theorem holds for every bound.

| Theorem | States | Inductive invariant, and why it is needed |
|---|---|---|
| `EventBusProofs!TypeCorrect` | `Spec => []TypeOK` | `TypeInv`: TypeOK and `BatchRoom` (a worker that may receive has room). TypeOK alone does not exclude that a full batch receives once more. |
| `EventBusProofs!ExactlyOnceCorrect` | `Spec => []ExactlyOnce` | `OnceInv`: TypeInv and ExactlyOnce; with the types it is inductive as it stands. One lemma per action that moves an event; `OnceSame` serves the others. |
| `EventBusProofs!StopIsBarrierCorrect` | `Spec => []StopIsBarrier` | `StopInv`: `closed` and `ctxDone` follow the phase of Stop; no worker leaves the outer loop before Stop has begun; a worker returns only when the channel is empty, and it stays so. |
| `EventBusProofs!BusDelivers` | `Spec => D!Safety` | `RefInv`: OnceInv and StopInv. Every step of the bus is a step of Delivery or a stutter under the mapping of `EventBus!D`. |
| `EventBusProofs!WorkersRunOut` | `Spec => ClosedBusRunsOut` | `TypeInv`: a bound on the steps a worker has left (`WorkLeft`) falls with each of its own and rises with nobody's, once the channel is closed. It is what `WorkersReturn` rests on besides fairness. |
| `EventBusProofs!TotalIsRight` | `Spec => []TotalIsExact` | `TotalInv`: the counter and the batches that are stored and not yet counted add up to the rows, and no event is in two of these batches, so that counting one takes away exactly its length. |
| `EventBusProofs!OrderIsKept` | `Spec => []OneWorkerKeepsOrder` | `LineInv`: rows, batch and channel are each in the order of acceptance, and everything in one of them comes before everything in the next. |
| `ShutdownProofs!OrderIsKeptToTheEnd` | `ProcSpec => []OneWorkerKeepsOrder` | `ShutInv`, which takes up the invariants of the bus. |
| `ShutdownProofs!OverrunIsToBlame` | `ProcSpec => []LateSubmitNeedsOverrun` | `OverrunInv`: a request still busy at a server that is down belongs to a collector whose budget ran out. |
| `ShutdownProofs!SlowUploadsDoNotCrash` | `ProcSpec => []NeverCrashes` | `OverrunInv` and `PanicInv`: only a slow request's collector overruns, and a crash is a panic over DNS. |
| `ShutdownProofs!ExitIsClean` | `ProcSpec => []CleanExit` | `ShutInv`: without an overrun no Submit comes between cancel and close, so StopInv holds; with TotalInv the total is exact. |
| `MemoryProofs!MemTypesHold`, `IndexesAlwaysAgree` | `MemSpec => []MemTypeOK`, `[]IndexesAgree` | `IndexInv`: both, the ids are among those given out, and a loop that adds has something to add. The lemmas `InsertFacts` and `EvictFacts` say what one insertion and one eviction do to all five indexes. |
| `MemoryProofs!CapsAlwaysHold` | `MemSpec => []CapsHold` | `CapInv`: between an insertion and the test of its token's cap that one list may be one too long, no other; the whole store may be until it is trimmed. Lists are ascending, hence free of repetitions, and as long as the set of their ids is large. |
| `MemoryProofs!SweepsAreExact` | `MemSpec => SweepIsExact` | `StampInv`: while the clock was not set back later ids carry later stamps, so that nothing old is behind the element the walk stops at. |
| `MemoryProofs!ReadsStayScoped` | `MemSpec => []ReadsAreScoped` | `IndexInv`: the list of each token holds its ids and no others, each once. Of sorting it takes that the ranks of the n elements of a strictly ordered set are 0 to n - 1 (`SeqFacts!RankFacts`), so that the sorted list has each element once. |
| `MemoryProofs!ReadsShowTheNewestFirst` | `MemSpec => []ReadsAgreeOnOrder` | `IndexInv` and `StampInv`: the insertion order is the order of the ids, and while the clock was not set back that of the stamps, with ties broken by id. |
| `MemoryProofs!StoreIsLog` | `MemSpec => IsLog` | `LogInv`: behind the store stand the log with the batch so far and no cap applied, and what the token caps have left of it; of each token they have taken the oldest, and so has the trim of the rest (`BatchInv`); a sweep has taken what lay before its cutoff (`SweptInv`). That what remains when the lock is released is the `Capped` log comes from `SeqFacts!NewestUnique`. |
| `MemoryProofs!LoopsUnderTheLockEnd` | `MemSpec => HolderGoesOn` | the same `MemInv`: a bound on the steps the holder of the lock has left (`StepsLeft`) falls with each of them. It is what `RetentionIsEnforced` rests on besides fairness, and what an element left behind in one index would break. |
| `SQLiteProofs!SQLTypesHold`, `AnswersAreTrue` | `SQLSpec => []SQLTypeOK`, `AnswerIsTrue` | `TxInv`: the types, what each worker knows at its statement (`Sound`), and that the write lock's holder is in its transaction and has inserted a prefix of its batch. |
| `SQLiteProofs!CapsAtRest`, `OvershootsAreInFlight` | `SQLSpec => []CapsHoldAtRest`, `[]OvershootIsInFlight` | `CapsInv`: unless something failed, the rows that belong to no batch in flight are within the store's cap, and a token above its cap has a worker that still counts or trims it. A COUNT that is stale when its DELETE runs does no harm, because the DELETE selects the newest again. |
| `SQLiteProofs!CapsEvictTheOldest` | `SQLSpec => CapsTakeTheOldest` | `TxInv` and the facts on the newest elements of a set. |
| `AccessProofs!LimiterTypesHold`, `FailuresStayBounded`, `RefusedWithReason` | `AccessSpec => []LimiterTypeOK`, `[]FailuresAreBounded`, `[]RefusedForItsFailures` | `LimiterInv`: a peer's list has all its failures of the last window, and those together with the logins being compared stay below the limit and the slots (`BoundInv`), which is what a failure uses up. |
| `AccessProofs!ToldStaysVisible` | `AccessSpec => []ToldTokenVisible` | `BrowserInv`: as long as no two first requests overlapped, every request and answer that went out with a visitor cookie agrees with the jar, and no token was told for a visitor that is not in it (`VisitorInv`). |
| `AccessProofs!GateIsClosed` | `AccessSpec => GateNeedsLogin` | `GateInv`: every session stamp in the jar, in a request or in an answer, unless it has aged, is no newer than the last right password (`Backed`). |
| `AdminTokensProofs!AdminTypesHold`, `ValuesStayUnique` | `AdminSpec => []AdminTypeOK`, `[]ValuesUnique` | `AdminInv`: what a handler remembers from an earlier call stays true enough (`Sound`): an id it looked up, if it is still a token, has the owner that was checked; a callback it looked up, if it is still there, has the value that was checked; in a sweep that has marked nothing active had expired before the marking. |
| `AdminTokensProofs!TokensAreKept`, `DeletesAreChecked`, `SweepsAreComplete` | the action properties of the tokens run | the same invariant. |
| `AdminTokensProofs!CapHolds` | `AdminSpec => []CapUnderConcurrency` | `CapInv`: a visitor's tokens and the creates it has in progress are together fewer than the cap, the slots and the creates whose list failed. The slots must be finite (`SlotsAssumption`). |
| `BootstrapProofs!TrieIsRight` | `BootSpec => []LongestZoneWins` | `TrieInv`: the nodes are closed under prefixes, and the terminal nodes are exactly the reversed zones that were added. From this a lemma derives that the last terminal node on the walk is the longest zone; that there is a last one comes from `WFMin` of the library, used on the distance to the end. |
| `BootstrapProofs!TrieStaysInSync` | `BootSpec => []TrieInSync` | `RowsInv`: rows are numbered in order, and in memory all come from the running file. |
| `BootstrapProofs!TokensAreServed` | `BootSpec => []TokenIsServed` | `ServedInv`: the last token's domain is a row with the name it was given, and every domain that the bootstrap has passed is a zone of the trie unless it was left out. With `TrieInv` the longest zone of the token's name is then its domain. |
| `BootstrapProofs!ScanIsRight` | `BootSpec => []ScanFindsSteadyToken` | `ScanInv`: the labels already passed over are not steady, or their lookup failed. |

`Spec` lets nobody Submit once Stop has begun, as the bus asks of its callers,
whereas in `ProcSpec` a slow handler may. The proofs about the bus therefore speak
of two wider next-state relations: `AnyStep`, which `OnceInv`, `TotalInv` and
`LineInv` survive, and `CalmStep`, without a Submit between cancel and close,
which `StopInv` needs. `ShutdownProofs` uses their lemmas as they are.

`SeqFacts` has the lemmas the above cite: the range and injectivity of Append,
Tail and concatenation, the cardinality of a range, the n newest elements of a
set (what a cap keeps, which is determined by its size and by being newer than
the rest), and the ranks in a strict order (what sorting yields).

Of the assumptions on constants these are more than ranges: the markers for
"nobody" and "nothing" are no members of the sets they mark the absence of
(`SQLWorkerAssumption`, `PeerAssumption`, `NilAssumption`); a token's value is in
lower case, as `Generate`'s alphabet is (`LabelAssumption`); the slots of
concurrent requests are finitely many.

Only model-checked:

* liveness (`WorkersReturn`, the liveness half of `Delivers`, `ShutdownEnds`,
  `RetentionIsEnforced`), which the proof system does not reach under fairness.
  Proved of them is what takes no fairness: no loop spins (`WorkersRunOut`,
  `LoopsUnderTheLockEnd`).

Every safety property of a passing run is a theorem.

## 7. Not modelled

* **Legacy authentication** (`internal/auth`): no route of the server uses it, and
  it is mostly library cryptography. The session cookie of the admin API is
  signed and stateless.
* **Configuration** beyond the domains: defaults, the YAML itself, the tests of
  single numbers; flags, log set-up, the web console: sequential, run once or
  static.
* **Collectors**: the contents of DNS answers and HTTP responses, `shouldRecord`,
  truncation of fields.
* **Stores**: users, projects, members, logs and refresh tokens of both stores.
  No operation there has a caller outside the tests, except that
  `bootstrapAdmin` may create one user, which nobody reads, and that a sweeper
  purges the empty table of refresh tokens. A model would need an environment
  that the program does not have. Filters of a list other than scope and token,
  and its pages. SQLite's own locking and recovery, taken as one writer at a time
  and atomic commits.
* `RevokeToken`, `UpdateTokenStatus` and `Manager.Create` have no caller in the
  program.

## 8. Plan

*Done*: the bus, the process from start to shutdown, both stores' interactions,
tokens and domains, the login, and the resolution of names; the theorems of
section 6, which state every safety property of the passing runs.

Left, in this order:

1. For the shutdown what `WorkersRunOut` says of the bus: a bound on the steps
   that the process has left once the signal came, with the slow handlers'
   budgets, as far as it goes without fairness.
2. The composition of bus and store would follow an event from Submit to the
   table through a crash. `EventBus` already lets the store fail at any batch, and
   `AnswersAreTrue` and `StoreIsLog` say that each store does what `EventBus`
   assumes of it, so a composed module would repeat these more than add to them.
