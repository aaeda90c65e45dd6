# Verification of the P2 governance knowledge graph

TLA+ specifications, TLC configurations and TLAPS proofs for the satellite
(`src/p2_satellite`) and the part of core it talks to (`core-side-patch`).

## 1. The system

The satellite derives which obligations and controls apply to an AI system and
pushes its derivations to core; core derives them again from its own tables and
only links what it agrees with ("satellites compute, core decides").

| Component | State | Operations | Talks to |
|---|---|---|---|
| Event listener (`event_listener.py`) | accepted notifications (background tasks), replay cache of signatures seen | webhook route, `process_ai_system_changed` | guard, graph builder, traversal, ingest client |
| Safety-net poll (`scheduler.py`) | the APScheduler job | `_run_safety_net_poll`, start, stop | the same |
| Processing guard (`concurrency.py`) | `_locks`: one lock per AI system | non-blocking acquire, release | - |
| Ingest client (`ingest_client.py`) | - | push a derivation, a batch, the structure; retries | core's ingest routes |
| Graph builder (`graph_builder.py`) | - | three export GETs, `build_graph`, `serialize_graph_structure` | core's export routes |
| Traversal (`traversal.py`) and core's reference (`reference_traversal_cte.py`) | - | depth-bounded walk | - |
| Ingest routes (`patent_ingest_p2.py`, `models.py`, `validation.py`) | nodes, edges, traversal results, links, audit log, mismatch metric | derivation, batch, structure | database |
| Rate limiter (`rate_limiter.py`) | one window per key | `allow`, `allow_n` | - |
| Change events (`change_event_outbox.py`) | outbox rows | emit, emit manual | database |
| Knowledge-graph routes (`patent_knowledge_graph_p2.py`, `graph_query.py`) | the same tables | derive on demand, manual edge, sync, gaps, browse | database, outbox, limiter |
| Exports (`patent_exports_p2.py`, `data_providers.py`) | - | three GETs | database |
| Embeddings, metrics, logging, RBAC stubs | - | - | - |

What is hard about it: two kinds of thread (tasks and the poll) that share
locks and a rate limit; POSTs whose answer is lost, which are retried while core
may still hold the first attempt; notifications that get lost, come again or are
dropped; three exports read one after the other; restarts; core's query-then-write code with no unique constraints; and two
implementations of the derivation that must agree exactly.

`PROJECT.json` lists the hazards, each at its line, with the properties that cover
it.

The properties that make each component correct:

- *trigger and guard*: one run per system at a time; no lock outlives its run; a
  task never works on data older than its event; a validated newest result has exactly
  its links; whatever was missed is made good by a later poll, unless core's rate limit
  or its tables refuse the poll for good.
- *webhook*: a notification is acted on once per process, and one that is refused as
  a repetition has had its task.
- *fetch*: a graph that is used has all three exports; one that is torn between two
  versions of core's data does not by itself make core flag a derivation, and what a
  notification told of ends up in core's tables.
- *client and limiter*: a sweep fits the budget it is sized for; a burst is at most
  two limits in a window less the longest wait for the lock, and three in
  `window_seconds`; refused callers get in again.
- *derivation*: both implementations return exactly what is within reach.
- *ingest*: core links only what its own graph supports, a result and its links
  appear together and account for each other, a post records an item at most once, every
  result has its audit entry unless a failure came just before it, core's answers are true, duplicate links do not pile up, and a reported coverage gap is one.
- *structure*: pushes land whole; nothing accepted is lost or refused later; a
  manual edge re-derives every system it changes.

## 2. Modules

| Module | Models | Kind |
|---|---|---|
| `ProcessingGuard` | what `concurrency.py` promises: disjoint sets of systems held by runs | abstract specification |
| `HybridTrigger` | tasks, poll, locks, retrying client, what core does with each push, late requests, restarts | component |
| `FixedWindow` | one window of `rate_limiter.py`: operators shared by the next two | operators |
| `RateLimiter` | threads and keys on the limiter, the clock read before the lock | component |
| `SafetyNetSweep` | one sweep's POSTs, pauses and retries against one key | composition of poll, client and limiter |
| `Webhook` | allowlist, freshness, replay cache, accepted tasks | component |
| `ExportFetch` | three exports fetched one by one, the structure push, core's own derivation of the result | component |
| `EventPath` | from the webhook over a task's fetch to core's graph tables | composition of the two |
| `DerivationLedger` | what core's tables promise: results and links change together, and account for each other | abstract specification |
| `CoreIngest` | the derivation routes and on-demand derivation, statement by statement, with the retrying client; coverage gaps | component |
| `Walks` | what a derivation is meant to return | reference definition |
| `Derivation` | the loops of `traversal.py` and `reference_traversal_cte.py` | algorithm |
| `GraphStore` | what the graph tables promise: whole snapshots, edges with nodes | abstract specification |
| `GraphStructure` | structure pushes, manual edges and syncs, statement by statement | component |

`MC*` modules give the small instances, `*_proofs` modules hold the theorems.
A definition whose comment begins with "Mutant:" is a variant of the action below
it with a plausible bug in it. No specification uses one: each is there to show
that some property notices that bug (`PROJECT.json`, "mutants").

How they fit together: `HybridTrigger` treats a structure push and a derivation
push as one step of core each. `CoreIngest` and `GraphStructure` open these two
steps up and show, by refinement, that core's interleaved statements still amount
to single steps on results and links (`DerivationLedger`) and on the graph
(`GraphStore`); that the graph only grows is what the other two assume of it.
`Derivation` justifies that they take a derivation for a function of the graph
that both sides compute alike. `HybridTrigger` shows in turn that the locks are
those of `ProcessingGuard`, and `SafetyNetSweep` looks at the same sweep with its
contents abstracted and core's budget in detail. `HybridTrigger` takes a fetch for
one read of core's data; `ExportFetch` has its three reads, and shows which of the
conclusions survive. `EventPath` puts a task's fetch behind the webhook that
accepted it; its steps are steps of `Webhook` and of `ExportFetch`, so that what
these promise holds of the composition.

### HybridTrigger

The exported facts of a system are a version number; `Applies` gives what a
traversal derives from each. `queue` holds notifications whose background task
has not begun, `lock` is `_locks`, `batch[a]` the systems a thread's run covers,
`graph[a]` what it fetched, `call`/`tries` the POST under way, `late[a]` an
attempt the client gave up on and core still holds. On core's side, `structure`
is what is reachable in its tables, `doubled` the edges among that which have two rows,
`latest` the newest result, `links` the links.

Two kinds of failure are not for the next attempt to make good, and the model has both.
Structure pushes are under no common lock, and each looks for an edge before it inserts
it. `met[a]` holds what a push met in core's tables when it was sent: which of its edges
were new, and whether one of them had two rows. When it lands (`LandStructure`), any edge
that was new then and has come in since may get its second row; from then on every push
that has this edge fails. And `Overrun` names the chunks of a sweep that core's rate limit
refuses each time: none for settings as in `sweep_sized`, the second one as shipped
(finding 2). Such a chunk is never accepted (`OverLimit`).

| Action | Code |
|---|---|
| `CoreWrite` | a watched field changes, `emit_change_event`; the notification may be lost |
| `TaskAcquire`, `TaskSkip` | `process_ai_system_changed`: lock taken, or event dropped |
| `PollFire`, `PollVisit`, `PollSend` | `_run_safety_net_poll`: fetch and push first, then a lock and a derivation per system, then chunks; all locks are kept to the end |
| `Fetch`, `FetchFail` | `fetch_and_build_graph`, all or nothing |
| `Post`, `CoreAnswers`, `CoreAnswerLost`, `Unreachable`, `CoreRefuses`, `Retry`, `GiveUp` | `_post_with_retry`: transient failures are retried, permanent ones not |
| `LateLands`, `LateDropped` | core handles an abandoned attempt after all, or never |
| `Restart` | the process and with it tasks, notifications and locks are gone, requests are not |

### Webhook, ExportFetch and EventPath

A notification is a signed pair `(t, hex)`: `Stamp` is its `t`. `seen` is
`_seen_signatures` with the expiry of each record, `tasks` the background tasks that
wait for a thread. The route awaits nothing after the body, so that a delivery is one
step: `Accept` (202), `Unreadable` (422, after the signature was recorded) or `Refuse`
(401 for a pair that is in the cache); each sweeps the cache first, `Room` is the cap,
`Record` the retention. 403, a wrong signature and a stale stamp change nothing. The
same notification may arrive any number of times, or never.

In `ExportFetch` each of the three exports has a version and contributes edges (`Facts`),
`source` is what core would list now, `got[a]` what a run has read. `GetOk`, `GetFails`
and `GetGivesUp` are `_get_json`; between two GETs core's data changes (`Change`).
`PushLands` and `PushFails` are the structure push, which the run survives,
`SubmitAndEnd` the derivation; `OtherPushLands` and `AddManualEdge` are everybody else
who writes to core's graph. `CoreAgrees` compares the run's derivation with core's.

| Action of `EventPath` | Code |
|---|---|
| `Arrives` | `ai_system_changed`; core sends a notification after it has committed the change |
| `BeginRun`, `SkipRun` | `process_ai_system_changed` begins: a run, or another run has the system |
| `Run` | a step of that run |
| `Restart` | cache, waiting tasks and runs are gone together |

### RateLimiter and SafetyNetSweep

`FixedWindow` has the age and count of a window, the reset in `allow` and
`allow_n`, and their admission test. In `RateLimiter` a call reads the clock
(`ReadClock`) some ticks before it gets the lock (`Admit`, `Refuse`). In
`SafetyNetSweep`, `Start` begins a sweep of any size in `Fleet`; each attempt at
a POST is `Accepted`, charged but its answer lost (`AnswerLost`), not delivered
(`Unreached`) or `Refused` with a 429, which is permanent; `WakeUp` ends the pause
between chunks; `OtherTraffic` is the tasks' use of the same key, `CoreRestart`
empties the limiter, `Tick` is time.

### CoreIngest

One handler is a thread of the request pool; `pc` names the next statement of
`_process_one_derivation`: `Dismiss`/`Reject` (422), `Validate` (catalog), `Compare`
(core's derivation), `Write` (which links are missing), `Commit`, `Audit`, `Answer`.
Single posts and batches go through the same statements. `Receive` covers retries
of a body whose earlier attempt may be under way, `Answer` may lose the answer,
`StatementFails` rolls one item back, `Restart` ends every handler,
`StructurePush` changes the graph between any two statements. `DeriveOnDemand` is
`derive_and_persist_traversal`, a customer's request that uses the same handlers and
tables but trusts core alone; `Commit` and `Tell` end it. `Gaps` is
`find_coverage_gaps`, evaluated in every state: it reads the newest result, whoever wrote
it and flagged or not, against links that only confirmed results have.

### Derivation

A stack entry is the walk to its node. `SatelliteExpand` is a turn of `_traverse`
(a target counts, then the depth is tested; the cycle guard sees the whole walk);
`CoreExpand` and `CoreDrop` are a turn of `_derive_obligations_pure_python` (the
depth is tested first; the guard does not see the current node). `Uncovered` is
`incomplete_coverage`. `Within`, the reference, is the recursive SQL query
without its bookkeeping.

### GraphStructure

`LookNodes`, `Flush` and `NodeConflict` are the node loop of
`upsert_graph_structure` under the unique constraint; `InsertEdge`, `UpdateEdge` and
`EdgeAmbiguous` the three outcomes of `one_or_none()` in its edge loop, which has
no constraint; `Commit` ends the push. `AddManualEdge` and `CommitManual` are
`create_manual_edge_endpoint`, `Sync` is `sync_ai_system`, which emits a change event for a
system that core knows, `Upstream` is `find_upstream_ai_systems`, `Fail` is any
other failed statement or a restart. The node loop's queries are one step and so
are its inserts: a node that is there stays there, so a query between two inserts
sees no more than the same query after them would decide upon.

## 3. Runs

| Run | Asks | Instance |
|---|---|---|
| `ht_fleet` | exclusion, lock leaks, stale events, refinement of the guard; is everything missed made good | 2 systems, one of them written to twice, 1 task, poll in chunks of 1, the second chunk of each sweep refused, fairness |
| `ht_tasks` | lock leaks, unsupported links, links of validated results, under retries, late requests and a restart | 1 system, 3 versions (an obligation comes, another goes), 2 tasks and poll, 2 attempts, late requests of the poll, 1 restart |
| `ht_removed` | is it made good when a relationship is removed (violated) | 1 system, 1 task, 1 attempt |
| `event_path` | repeated notifications, forgotten signatures, torn graphs, and where a notified change ends up | 2 notifications, cache of 1, skew 1, margin 1, 3 ticks, 1 task, 2 versions per export, 2 attempts, 1 manual edge |
| `limiter` | bursts, phantom units, starvation | 3 threads, 1 key, limit 2, window 3, lag 2 |
| `sweep_sized` | does a sweep fit its budget, does it end | limit 100, chunks of 16, 3 attempts, fleets of 0 to 70 |
| `sweep_defaults` | the same with the shipped settings (violated) | chunks of 50 |
| `ingest` | true answers, missing and extra audit entries, gaps, records per post, links matched with results, bounded link rows, refinement of the ledger | 2 handlers, a batch of 2 systems posted up to twice, 1 on-demand request, 1 failure, an obligation and a control |
| `ingest_once` | is a retried derivation recorded once (violated) | 1 handler, 2 attempts |
| `derivation` | are both walks exact | 5 nodes, every subset of 10 edges, bounds 1 to 4 |
| `structure` | whole pushes, nothing lost, bounded duplicates, notifications, refinement of the store | 2 handlers, 2 snapshots, 4 pushes, 2 manual edges, 1 sync, 1 failure |
| `structure_poison` | is an accepted snapshot always accepted (violated) | 1 handler, 2 pushes, 1 manual edge |

Why these bounds are enough. Two systems are needed for the poll to hold one lock
while it works on another, and a second chunk. Two writes to a system are needed for an
edge that one of them adds to be inserted twice and then to keep out what the other adds,
or for an obligation to come and another to go. One task against the poll, and two
against each other, are the pairs that can compete for a lock. Two attempts give a retry with the first attempt
still under way. The limiter needs a window boundary with lags across it and a size larger than
one: with three threads and waits of two ticks, calls that read the clock in the old
window can be charged to it after the new one began, which is how a third limit fits into
`window_seconds`. Its keys share nothing but the lock, so one is enough. `sweep_sized` takes the real limit, chunk and attempts and
only scales time: one tick is ten seconds, so that the 60 s window is six ticks and
a pause is three. In `derivation` the deepest chain build_graph makes has
four hops, and the bounds 1 to 4 cut it at each; the six other edges give every
kind of cycle, a self-loop, shortcuts to an obligation and a dead end. `structure`
needs two overlapping pushes for a conflict, three in a row to tell bounded from
growing duplicates, and two systems at different distances from a manual edge.
`event_path` has a cache that one notification fills and the other overflows, a stamp
one tick ahead of the clock, so that `note` is early, on time or late, and a change that
touches all three exports, so that any two GETs can straddle it. In `ingest` the body
and its retry, or the customer's request, occupy both handlers at once.
Where a theorem covers the property, the bounds only matter for finding mistakes
early.

Deadlock is checked unless a model really stops: `derivation` ends with an empty
stack, `ingest`, `structure` and their violations when the bounded requests are
used up, and `event_path` when its clock has run out. `SYMMETRY` is over handlers, tasks or systems that are interchangeable,
and only in runs without liveness properties.

### Fairness

- A thread that can take a step takes one (weak fairness of tasks, poll, sweep and
  limiter calls): operating-system threads run.
- A POST under way is answered, lost or times out, since the client has a timeout.
  Nothing is assumed of requests the client gave up on: core may hold them for ever.
- Exports and ingest routes are not down for ever: of the poll's infinitely many
  attempts to fetch, not all fail, nor do all its structure pushes that core's tables can
  take, nor all its pushes of a given system in a chunk that core's rate limit admits
  (strong fairness). No retry loop could do without.
- Time passes (`Tick`).

Nothing is assumed of notifications, which may all be lost, nor of event tasks, which may
all fail. Nothing is assumed either of pushes that this code itself makes fail for good:
where an edge has two rows, or a chunk is overrun, `CoreAnswers` is not enabled, and
strong fairness of it promises nothing. So these cases are not hidden but are the two
exceptions that `EventuallyReconciled` names, and it is false without either:

- `Blocked`: core's graph of the system is not what is exported, and an exported edge has
  two rows. Every structure push then fails, and the change never gets into core's graph.
  A system whose graph is up to date is not excused, since derivations still go through.
- `LeftOut`: the poll comes to the system in sweep after sweep, and every chunk it is in
  from some time on is an overrun one. A system that is in an admitted chunk again
  and again is not excused.

That the limit admits the other chunks is the code's doing: once the data stops changing
there is no event traffic, and a sweep has the key to itself. `SafetyNetSweep` shows which
chunks then fit (`QuietSweepNeverRefused`, and `SizedSweepNeverRefused` for all
parameters). With the shipped chunk size and pause `Overrun` is `{2}`, which `ht_fleet`
has, at one system per chunk.

Restarts and requests that outlive their client are left out of that run for its size
(`ht_tasks` has both, for safety). A restart takes the satellite back to its initial
state, so that what follows it is one more beginning.

## 4. What is proved

The theorems are listed in `PROJECT.json`. They hold for all values of the
constants that satisfy the modules' named ASSUMEs (finitely many handlers in
`CoreIngest` and `GraphStructure`, ends of edges among the nodes of their snapshot,
bounds natural numbers), and so for any number of systems, threads, retries and
restarts.

- `HybridTrigger_proofs`. `LocksMatchRuns` is inductive with the types: it says
  exactly who owns each lock, so that `MutualExclusion` and the refinement of
  `ProcessingGuard` follow from it. `EventSeesItsChange` needs `FreshInv`: what a
  notification announces is no newer than the facts, in the queue and in a task.
  `LinksSupported` and `ValidatedMeansLinked` are inductive together (`CoreInv`): with its
  links within its graph, a system whose derivation equals that graph is linked to exactly
  what it derived; that holds whether obligations come or go (`ValidatedLinks`).
- `SafetyNetSweep_proofs`. `SizedSweepNeverRefused`: if K pauses last a window and
  the structure push and K chunks, in every attempt, fit into the limit, a sweep
  alone with its key is never refused. `QuietInv` bounds the window's count by
  what the POSTs since it began can have cost; it is needed because the count does
  not say which chunks it is made of.
- `RateLimiter_proofs`. A window is never charged beyond the limit, whatever clock
  reading a thread comes with (the types). `BooksInv` relates what was granted lately to
  the window: the ticks since `MaxLag` after its beginning are covered by its count, one
  `Window` further back by one limit more, two `Window`s by two. It needs both the age of
  the window, since one begins only when its predecessor has elapsed, and `MaxLag`, since a
  call is at most so far behind and an elapsed window takes no charge later than that.
  Hence `BurstsAreBounded` (two limits in `Window - MaxLag`, three in `Window`) and
  `CountsAreGranted`, for every window, lag and number of threads.
- `EventPath_proofs`. For the webhook, the cache is described by when a notification last
  passed: a record expires `Skew + Margin` later, and one that is gone has expired or has
  made room after `Cap` others passed. That gives `AcceptedOnce` and
  `RefusalsAreHonest` for every cap and clock (`WebhookPromises`). For the fetch, what a
  run has read lies between the sources at its beginning and now (`WholeGraphs`). Under
  `Growing`, which says that data is only added to, core's tables then hold exactly the
  run's graph if no other push or manual edge came in between (`TornGraphsAgree`);
  likewise the change of a notification is in them after its run (`ActedOnIsStored`).
  `EventPathIsBoth` is the refinement of both components.
- `CoreIngest_proofs`. `CoreInv` ties each handler to the tables: what it is about to
  write is supported (`InFlight`), what it has put into its reply is recorded,
  audited and linked (`ReplyHonest`), so is what was answered (`AnswersHonest`).
  `AnswersTrue` and `ImplementsLedger` follow. `AuditsMatch` counts the
  handlers between their commit and their audit entry: results are entries written plus
  entries owed plus those that failures between the two have cost, and a failure costs
  no more than one per handler. `GapsOpen` rests on
  the rows of a confirmed result being there for good. `LinkRowsFew` counts: the rows of a
  link and the handlers that are about to add one are never more than the handlers, since
  a handler decides to add only when it sees none. `PostsRecordOnce` counts too: the
  records of a derivation and the handlers that have yet to commit it are at most the
  posts that carried it (`PostInv`). `RecordedOnceWithoutRetries` draws the conclusion:
  with one attempt and bodies without repetitions nothing is recorded twice, so that the
  retry is the whole cause of finding 3. `LinksAccountedFor` is shown of the ledger's steps
  and carried over by the refinement.
- `Derivation_proofs`. Soundness: every stack entry is a walk from the system that is
  short enough (`Entry`), and one hop more is within reach (`OneHop`): `DerivationsSound`.
  Completeness: whatever is within reach has a shortest walk, that walk visits no node
  twice (a repetition could be cut out, `CutCycle`), so that the cycle guards never stop
  it; and of every such walk either the end was recorded or a beginning is still on the
  stack. That holds initially and in every turn of either loop; an empty stack
  then means that everything was recorded. With the two halves: `DerivationsExact` and
  `GapReportsExact`, for every graph, bound and order of expansion. The shortest walk comes
  from the well-foundedness of the naturals (`LeastNumber`), which the library states over
  sets and not over operators.
- `GraphStructure_proofs`. For each handler nothing of its snapshot can go missing
  between its look at the nodes and its commit (`NodesCovered`, `EdgesCovered`), and
  an idle one carries nothing over (`Clean`). Hence `ImplementsStore` and
  `AcceptedStays`. `AffectedAreTold` is about the graphs: a walk that exists only
  with a new edge reaches the source of that edge first (`ReachesTheEdge`). `DuplicatesFew` counts
  like `LinkRowsFew`, with the manual edges on top. `SerialRepushIsSafe` and
  `SerialManualEdgesTell` are the counterparts of what goes wrong under concurrency: if
  requests are served one at a time and no manual edge repeats a stored one (`Serial`), no
  snapshot that core accepted is refused later, and every system that a manual edge changes gets its
  change event. `SerialInv` says that there is one row per edge and that each
  handler has seen the tables as they are.

Only model-checked is liveness (`EventuallyReconciled`, `SweepEnds`,
`RefusedInTheEndAdmitted`), which the prover does not do under fairness. Every other property
of a passing run is stated by a theorem.

Assumptions beyond the named ones are written in the theorems: `Growing` (data is only
added to; finding 1 is what happens otherwise), `Serial`, a single attempt, and the size of a
sweep.

## 5. Where code and documents disagree

1. **Removed relationships** (`ht_removed`). Structure pushes never deactivate an edge;
   once a relationship is gone upstream, core keeps deriving through it and flags
   every later derivation of the system.
2. **Default sweep settings** (`sweep_defaults`). Two chunks of 50 and the structure
   push cost 101 of 100 units in one window; the second chunk is refused and a 429 is
   not retried; systems in it are left out sweep after sweep (`LeftOut` in
   `EventuallyReconciled`). A chunk size of 49 would fit without retries; 16 fits with three
   attempts each.
3. **Deduplication** (`ingest_once`). Core stores a retried derivation a second time;
   nothing looks at the hash. Without retries it is stored once
   (`RecordedOnceWithoutRetries`).
4. **Manual edge over an existing one** (`structure_poison`). It makes a second row, and
   from then on every structure push of the satellite fails with a 500. So do two pushes of
   the satellite's own, a task's and the poll's, that overlap while an edge is new (`models.py:268`
   says it is not safe; nothing keeps them apart): then changes stay out of core's graph
   for good (`Blocked` in `EventuallyReconciled`). Served one at a
   time and without such edges, what was accepted stays acceptable (`SerialRepushIsSafe`).

## 6. Limits of the models

- The poll reads the exports before it locks, and a late request outlives its lock:
  `HybridTrigger` has both, and the guard promises nothing about requests core still
  holds.
- In `HybridTrigger` an obligation stands for one edge. Pushes that are sent before core
  has any graph double nothing there: they collide on the nodes, whose keys are unique,
  before they come to an edge. `GraphStructure` has them statement by statement.
- Obligations and controls are one set in `CoreIngest` and `HybridTrigger`; hashes,
  weights, other properties and the `graph_path` evidence are left out.
- `rate_limiter.py` accepts a burst across a window boundary as an imprecision.
  That counts arrivals; a thread that waits for the lock across the boundary is charged to
  the window in which it read the clock, which is why `BurstBounded` has two clauses.
- One organisation. Every query is scoped to one.
- Core's database is READ COMMITTED with Postgres' blocking on unique keys; deadlocks
  it resolves are failed statements.
- `HybridTrigger` takes the three exports for one read. `ExportFetch` has three, but
  one run of the satellite at a time competes with others only through core's tables.
- `Webhook` identifies a notification with its signature. Two notifications of one
  system in the same second with equal bodies are one for it, as they are for the code:
  the second is refused, and what changed between them is left to the poll.
- An accepted notification whose run fails is not retried, and a sender's repetition is
  refused. `RefusalsAreHonest` promises its task, not its success.
- Core is taken to send a notification after it has committed; the code leaves the
  consumption of the outbox to core. The mutant `ArrivesAnyTime` shows that
  `ActedOnIsStored` needs it.
- The comment on a record's retention (`event_listener.py:153`) says that a signature at
  the edge of the window cannot be replayed as its record expires. That holds of stamps
  less than `Margin` ahead of the satellite's clock, which is the exception
  `AcceptedOnce` names: with a sender's clock 5 s or more ahead the pair is still fresh
  when its record goes.
- Manual edges make core derive what the satellite cannot. `FlagsNeedARival` excludes
  them (`manual = {}`): afterwards core may flag derivations of the systems concerned.

## 7. Not modelled

- Embeddings: a pure computation that no derivation uses.
- Metrics, the mismatch metric, logging: no decision depends on them. The metric counts
  an ingest before its commit, and so also one that is rolled back.
- Rendering and browsing of the graph: reads whose answers nothing depends on.
- Dependency and permission stubs: they stand for core's own services.
- The migration: its constraints are those of `models.py`.
- Consumption of the outbox: nothing here marks an event consumed.
- Start, stop and misfire of the poll's job: APScheduler's. Its default of one
  instance per job is what `HybridTrigger` has as one poll at a time.

## 8. Plan

Done, in this order, the most important behaviour first: `HybridTrigger` with its guard;
the limiter and the sweep; core's ingest; the derivation; the structure tables; the
webhook and the fetch with their composition; on-demand derivation, gaps and sync; the
proofs of exactness, of the limiter's bounds and of the books that ingest keeps.

Next:

1. Manual edges composed with the satellite's derivations, and what a compliance officer
   sees of the flags they cause.
2. Start, stop and misfire of the poll's job.
3. Two runs of different systems in `ExportFetch` with the poll's own fetch among them.
4. Proofs: how much other traffic on its key a sized sweep bears without a refusal.

## 9. Running

    tlc -workers 2 -config HT_fleet.cfg MCHybridTrigger
    tlapm HybridTrigger_proofs.tla

The configuration and module of each run are in `PROJECT.json`.

