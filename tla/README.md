# Verification of the research backend

This directory holds TLA+ specifications of the parts of the backend that keep
authoritative records (Campaigns, Evidence and Theses, Frozen Decisions, trades,
their origin and the positions derived from them, the facts of the Fact Lake) and
of the parts that run long work for many callers (the daily review, model tasks,
segmented reviews). TLC model-checks them on small instances; TLAPS proves their
main safety properties for every value of the constants.

    tlc -config commit_race.cfg MCDecisionCommit     # one run
    tlapm DecisionCommitProofs.tla                   # one proof module

`PROJECT.json` lists the runs, the theorems, the mutant that each property must
catch, the source lines behind each definition, and the hazards.

## 1. Inventory

The backend is a FastAPI process (several may run over one data directory) with
handlers in threads. Each authority is a SQLite file of its own; **no
transaction spans two files**. What is decided over several of them is protected
by process locks, by `BEGIN IMMEDIATE` reservations of one file held while
another is written, by compare-and-set on a status or a revision, or not at all.
That is where the hard behaviour of this system is.

| component | state | operations | interacts with | what is hard | correct when |
|---|---|---|---|---|---|
| Campaign ledger (`campaign_store`, `campaign_service`) | `campaigns`, `campaign_transitions`, `campaign_thesis_bindings` | create, transition (compare-and-set), activate over a trade, bind a Thesis, writer reservation | reads the evidence ledger, trade ledger, attribution store and positions before it writes | checks and the write are in different files; instants are taken before the lock is waited for | the audit rows are the walk to the status; one Thesis per Campaign for ever; ACTIVE rests on a BUY |
| Campaign lineage | none | derived closing instant, parent checks | the audit rows | ties and swapped instants | a derived instant is the instant of the closing transition |
| Evidence and Thesis ledger (`evidence_thesis_*`) | Thesis rows, links, Evidence rows, revisions with snapshots, deltas | create/update/archive, link/stance/unlink, Evidence edit and delete, begin/confirm/freeze/archive formalization, deltas | the formal projection, the commit path, binding | clients edit what they read earlier; Evidence is shared and edited on its own; the reader refuses rows that disagree | no lost edit; frozen = reviewed; no legal sequence makes a Thesis unreadable |
| Formal decision commit (`decision_commit_runtime`) | none; `_COMMIT_LOCK` | preview, commit, replay | every ledger below and above it | authorities are read one by one without a snapshot; two processes; busy timeouts; crashes; lost answers | one row per proposal, none for a terminal Campaign, none from later knowledge |
| Frozen Decision ledger (`frozen_decision_*`) | append-only `frozen_decisions` | guarded append and guarded history read | the commit path | instants versus insertion order, the review boundary | rows in commit order, inside `review_by` |
| Decision Challenge (`decision_challenge_*`) | append-only packets | finalize | reproduces a preview, is bound by a commit | runs beside the commit it must precede | a BUY has a packet that is not younger |
| Decision proposal and Thesis projection | none | pure projections | the commit path | a Thesis younger than `as_of` | look-ahead is refused |
| Trade ledger and attribution (`trade_*`, `formal_trade_attribution*`) | trades, attribution rows, origin rows, `TRADE_RESOLUTION_LOCK` | create, void, attribute, mark unplanned, reconcile | Frozen Decisions, Campaign activation, positions | one authority per trade kept in two files under a guard in a third; stores created in two steps | a trade has one origin, for ever, and every answer stays true |
| Position and account reality (`position_reality_service`, `account_event_store`, `cash_event_service`) | `account_events` beside the trades in one file | bootstrap, correct, void with cascade, cash event, derive | the trade ledger | a reader takes two queries; a correction outlives its target; a tolerated future instant arrives | corrections always resolve and chain; a derivable ledger stays derivable; a read is one state |
| Fact Lake (`fact_lake_store`) | staging and publication rows, content-addressed blobs, artifacts | store observation, normalize, publish, snapshot | the collectors | crash between row, file and row; two writers | committed rows have their bytes; vintages are unique |
| Research data plane | tasks, leases, budgets | schedule, lease, resume | the collectors | leases and restarts | a task is done once |
| Daily review (`daily_review*`) | in-process cache, flights, rounds, marks, one file | fresh read, explicit refresh, background refresh | the sources, the HTTP handlers | a slow build after a newer one; leader fails or waiters time out | an older package never replaces a newer one; marks tell the truth; nobody waits on a thread that is gone |
| AI chat and model tasks (`chat`, `agent_runtime`, Node runtime) | slots, mailbox, events | bounded streaming tasks, API coroutines | providers, the Node line protocol | threads that cannot be killed, callers that go away | a slot covers its work; done means complete; the worker never runs ahead |
| Segmented short-line reviews (`shortline_review_*`, `app`) | `_ACTIVE`, append-only versions | generate, cancel, retry | the archives, model tasks | retries of lost answers, cancellation against commit, double release | one complete version per generation; the capacity comes back |
| HTTP caches (`app`) | TTL entries, flights | single flight | sources | waiters, failing owners | one fetch per key |
| Backup and restore | bundle files | create, restore, publish without replacing | all stores | a crash half way | the target is the old or the new bundle |
| Alerts, signals, inbox, feedback, portfolio, native intelligence, documents, credentials, frontend, tools | append-only logs, settings, projections | | | little of their own | see `components` |

`PROJECT.json` names the files of each component, its status and what is left out.

## 2. Modules

| module | models | proofs |
|---|---|---|
| `CampaignLifecycle` | the lifecycle graph, shared by two modules | |
| `DecisionLedger` | abstract: an append-only ledger of decisions of open Campaigns, once per proposal | |
| `DecisionCommit` | preview, challenge and commit over the Campaign, Thesis and packet authorities; implements `DecisionLedger` | `DecisionCommitProofs` |
| `CampaignLedger` | the commands that write the Campaign ledger | `CampaignLedgerProofs` |
| `TradeResolutions` | abstract: a write-once origin per standing trade | |
| `TradeResolution` | attribute, mark unplanned, reconcile, and the guard; implements `TradeResolutions` | `TradeResolutionProofs` |
| `ThesisLedger` | the Evidence and Thesis ledger and its clients | `ThesisLedgerProofs` |
| `FactArchive` | abstract: items are archived once and read the same for ever | |
| `FactLake` | the write path of observations and canonical publications; implements `FactArchive` | `FactLakeProofs` |
| `PositionLedger` | account events, corrections, voids and the derived position | `PositionLedgerProofs` |
| `ReviewRefresh` | the shared builds, refresh rounds and stores of the daily review | `ThreadProofs` |
| `TaskStream` | slots, worker and mailbox of model tasks | `ThreadProofs` |
| `VersionArchive` | abstract: one complete version per generation, never replaced | |
| `ShortlineReview` | requests of segmented reviews; implements `VersionArchive` | `ShortlineReviewProofs` |
| `MC...` | constants for TLC | |

### DecisionCommit

`Requests` are handler threads, each at home in one of the `Backends` (processes).
A handler walks through `pc` labels; each label is one read of another file, one
lock operation or one write. `commitLock[b]` is `_COMMIT_LOCK` of process b and
`reservation` the `BEGIN IMMEDIATE` of the Campaign file, which all processes share.

| label / action | code (`decision_commit_runtime.py` unless named) |
|---|---|
| `Arrive` | a preview, challenge or commit request is accepted |
| `lock` | entering `_COMMIT_LOCK` |
| `campaign`, `frozen`, `thesis`, `build` | the proposal is rebuilt from the present authorities (`Evaluated` and `Candidate`, joined by `Composed`); a commit compares the result with the proposal asked for (`ProposalStaleError`) |
| `finalize` | the challenge packet, unique per proposal |
| `hold` | the Campaign writer reservation; may be refused as busy |
| `marker`, `stamp`, `validate`, `insert`, `readback` | look for an existing row, take `committed_at` and check `review_by`, re-check the Campaign and the packet, append, read back |
| `BeginActivation`, `FindDecision`, `ActivateCampaign`, `AbandonActivation` | the activation command (`campaign_service.py:261`): it reads the Campaign, then the decision in another file, and writes later under the writer lock, comparing only the status again; trade, attribution and position are in `CampaignLedger` |
| environment actions | Campaign transitions, Thesis binding, late-stamped deltas, market moves, the clock, process crash |

Abstractions: a proposal is the content its fingerprint covers, so equal
fingerprints are equal records; `market` stands for the candidate authorities,
Evidence and hard risk; a delta and a binding are stamped before their own
write transaction, so they may become visible later than their stamp; Campaigns
start as DRAFT; the clock is monotone. `get_committed_decision` (a pure
re-evaluation) and the AI draft witness are left out.

### CampaignLedger

Each handler runs a transition, an activation or a binding. The transition is
one compare-and-set transaction (`PersistTransition`); activation first reads
trade, attribution and position in separate steps; binding reads the Thesis,
then inserts. The Thesis, trade and position side are environment actions of
this module (a frozen Thesis keeps its revision, an attributed trade keeps its
Campaign, a trade may be voided and a position may change at any time).
Transition ids are random in the code: `Ids` gives them an arbitrary order. The
`bound_at` column and the read-back at the end of a command are left out:
nothing depends on them.

### TradeResolution

A request takes the process lock, then the write reservation of the trade
ledger, checks again that the trade stands, reads the other store, reads its own
store, creates the file and the table if needed, inserts, and releases. A
reconciliation reads the three files without the guard. Not-executed trades are
left out (they are never resolved), as are corrections. `ProcessDies` drops every lock of a process
and leaves the files as they are.

### ThesisLedger

Every operation is one `BEGIN IMMEDIATE` transaction, so one action; what is
not atomic is a client, which holds the aggregate it read and sends
`expected_revision` back later. The content of a Thesis is the set of edits it
contains, each named by the revision it made: an update replaces the content by
the client's view plus its own edit, so a lost edit is visible. Evidence is
edited under an edit token that names its version; `ready` stands for the gates
of confirmation. `PassesReadChecks` is the conjunction of the
four validators every read runs before it answers: the row, the revisions it
rests on, the whole history, the deltas. `reviewed` is a history variable:
what was read by the confirmation. Event reviews, migration and the backup
copy after a commit are left out.

### FactLake

The control database has rows that are STAGING or COMMITTED; the bytes are files
beside it, raw blobs under the hash of their bytes and artifacts under a path of
their publication. `synced` is the set of paths whose directory entry is durable:
a file that is linked and not synced is seen by every process and may be gone after
a power failure (`PowerFails` keeps every row, every synced entry and any
subset of the others; `ProcessDies` loses nothing on disk).

| labels | code |
|---|---|
| `lock`, `stage`, `blob`, `sync`, `commit` | `store_observation`: the process lock is held to the end; staging row, blob by link without replacing, directory fsync, COMMITTED row, verified read |
| `reserve`, `artifact`, `link`, `sync`, `readback`, `publish` | `publish_tushare_daily_canonical_fact`: staging row with the next vintage, candidate file and link, directory fsync, read-back against the row, COMMITTED row with the hash. The lock is taken for each transaction only, so publications interleave inside a process too |
| `NormalizeObservation` | `store_normalization`, one transaction |

An observation is an id and a payload; a payload is the hash of its bytes. An
artifact is a record (vintage, source observation) in one of `Encodings`, because
two Parquet writers need not produce the same bytes for the same record.
Taken as given: SQLite commits are durable, fsync of the parent directory makes the
entry durable (new directories above it are not synced by the code), hashes do
not collide, and a normalizer version is a function of the observation. Left out:
snapshots, reconciliations, publication selection, listings, and
the FAILED and ABORTED states, which no code sets.

### PositionLedger

No position is stored: it is replayed from the active account events and trades.
Every writer checks and writes in one `BEGIN IMMEDIATE` transaction of one file,
so it is one action (`Bootstrap`, `RecordTrade`, `Correct`, `Void`, `CashEvent`);
the reader is two (`ReadEvents`, `ReadTrades`), and between them a writer must
wait, because the file has a rollback journal and the reader's transaction holds
the shared lock. `Holding`, `NeverOversold` and `Derivable` are the replay: what
matters of it is the sum after each trade in the order of `trade_order_key`, taken
over functions from facts to shares.
One stock code is modelled (the replay never mixes two), one correctable field per
fact, and `Amounts` of money that only corrections of cash facts use. `created_at`
of a correction is stamped under the write lock and the wall clock does not go back, so
row order is correction order; `created_at` of a trade is stamped before the
lock, so it may lie behind other rows.

### ReviewRefresh

A thread serves one call after another: `Generate` (fresh read or shared build),
`LeadRound`/`JoinRound` (explicit refresh), `KickBackgroundRefresh` (a worker). A
step is one region under a lock, or one read without. Memory and file are written
in one step because every store holds `_review_lock`. A package is the generation that
built it and its grade. `failedRound` is a history variable: the round whose failure the
mark reports. The finish of an attempt is one step with the refusal before it; a restart is `RefreshInit` and
left out, because nothing but the file survives it; a thread that cannot be started is left out (the code then
leaves `_bg_refreshing` set, `daily_review.py:609`). Its specification is named `RefreshSpec`,
because one proof module extends it beside `TaskStream`.

### TaskStream

Streams (`_bounded_task_events`) and coroutines (`stream_api_messages`) share a
semaphore. Positions of the caller's generator, the worker thread, the coroutine
and its preparation thread are separate variables; a step is one operation on an
Event, the queue, the semaphore or the preparation lock. The model is external: it
may send any event, end, fail or exhaust the budget at each read. Deadlines
(`Expire`) and disconnects may come at any time. Timed waits are modelled by what
follows them, without durations. Nobody must resume or close a generator.

### ShortlineReview

A request is a position and its locals; `_ACTIVE`, the table and the write lock are
shared. The stages of a run record only whether a section was generated, flagged
or skipped. `Cancel` is the client's disconnect or the timer of a section; the
history variable `unwanted` collects generations stored by a run that was
cancelled before its second look. The registration is given back twice, by
`EndIterator` and `EndResponse`, with the last body part between them. A version found
before the run is answered without a look at the cancellation (`app.py:3379`); the events
of a run are dropped once it is cancelled. `Restart`
drops every request and rolls an open transaction back.

## 3. What the runs check

| run | instance | shows |
|---|---|---|
| `commit_race` | 2 processes, 1 handler each, one proposal, one delta, clock to 2 = the review instant | `BuyIsChallenged`, `ActiveRestsOnBuy`, `AnswersNameTheirRow`, `LedgerInTime`; the commit path implements `DecisionLedger` |
| `commit_live` | 2 handlers of one process, a Thesis that is bound and invalidated, fair handlers | `NoLookahead`; `LocksAreReleased` |
| `campaign` | 2 handlers, 1 Campaign, 1 Thesis, 1 trade | `AuditMatchesStatus`, `ClosedAtIsSound`, `ActiveHadBuy`, `AnchoredToFrozenRevision` |
| `resolution_race` | 2 processes, 1 trade, 2 decisions, 2 instants, fair requests | `NoHindsight`, `AnswersStand`, `GuardIsReleased`; implements `TradeResolutions` |
| `thesis_edit` | 2 clients, 1 Thesis, 1 Evidence, 2 stances, 6 revisions | `NoLostEdit`, `FrozenAsReviewed`, `ReadsNeverFail`, `RevisionNamesState`, `FrozenReadsAreFinal` |
| `fact_lake` | 2 processes, 1 request each, 2 observations, 2 payloads, 2 publications of one key, 2 encodings | `CommittedIsDurable`, `ManifestMatchesArtifact`, `RefusalsAreEarned`; implements `FactArchive` |
| `position_ledger` | 2 trades, 3 event rows, quantities 1 and 2, 2 instants, 1 reader | `TargetsResolve`, `AuditChain`, `StaysDerivable`, `ReadsAreSnapshots` |
| `review_refresh` | 3 request threads, 1 worker, bounded builds and rounds | `NewestWins`, `SuccessIsStored`, `MarkIsCurrent`, `NothingIsOrphaned` |
| `task_stream` | 1 stream and 1 coroutine for 1 slot, 2 events | `SlotCoversWork`, `DoneIsComplete`, `NoRunAhead`, `SlotsComeBack` |
| `shortline_review` | 3 requests of 1 generation, 2 states of the materials, capacity 1 | `NoCommitAfterCancel`, `AnswersNameTheirVersion`, `CapacityComesBack`; implements `VersionArchive` |
| `store_after_crash`, `review_capacity` | | a statement of the repository that the code does not keep (section 6) |

Each property has a mutant: a plausible slip in one mapped definition
(the definitions marked *Mutant* in the modules) with which TLC finds the
property violated on the same instance. The type invariants, and properties that follow from a
refinement (`UniqueProposal`, `NoTerminalDecision`, `OneAuthority`, `VintagesAreDistinct`, `BindingsAreFinal`),
are proved instead of run.

### Bounds, and why they are enough

- **Two handlers.** The protocols are compare-and-set, mutual exclusion and
  check-then-write; an interference needs a victim and one other actor, and the environment
  actions (transitions, deltas, voids, crashes) come on top. The proofs remove
  the bound for everything that is proved.
- **Two processes or one.** `commit_race` uses two, so that only
  the reservation orders them; `commit_live` uses one, so that the process lock is contended too.
- **Clock 2.** One instant before and one at or after each boundary (`review_by`,
  `as_of`, closing instants); ties happen with one instant.
- **Ids 1..4** give the four transitions DRAFT to CLOSED every order under one instant.
- **6 revisions, 2 deltas** let one Thesis be created, linked, edited by
  both clients, confirmed, sent back, confirmed again and frozen.
- **Two of everything in the lake**: one observation id used for two payloads (a
  conflict), two payloads of one publication path or of two, two vintages of one
  key, two encodings that meet at one link; failures are unlimited.
- **One slot, capacity one.** A slot released too early is wrong at once when there is only one;
  a second registration of a generation needs no second generation.
- **Three requests** in `shortline_review` and `review_refresh`: a run, its retry, and the
  one that profits from their disagreement.
- **Two trades** give a replay every order of a buy and a sell, by execution
  instant, recording instant and id; three event rows are an opening with its
  position and one correction, or an opening and two corrections of one fact.
- `MaxPreviews`, `MaxDeltas`, `MaxEdits`, `MaxVersions` bound counters
  that the code leaves unbounded; they occur as guards and are named there.

Deadlock is checked except in `task_stream` and `review_refresh`, whose tasks and
calls come to an end.

### Fairness

`FairSpec` of `DecisionCommit` and of `TradeResolution` is weak fairness of each
handler's own step: a thread that can go on does go on, and a wait for a SQLite
lock ends, because `busy_timeout` bounds it and the refusal is a step of the
model. `TaskStream` assumes
that threads and the event loop run on, that the deadline of a stream's budget passes
(`Expire`), and that each read of the model returns (its transport has finite timeouts).
`ShortlineReview` assumes that an accepted request runs on: every model call and
the wait for the lock are bounded. Nothing is assumed of clients, of the environment, of
crashes, or of *who* gets a lock. The liveness properties therefore say that
locks are given back, not that a given request is served.

## 4. What is proved

All theorems hold for any (also infinite) sets of handlers, processes, tasks,
Campaigns, Theses, trades, generations and decisions under the named `ASSUME`s of each
module: subset and typing facts about the constants, and that `None` is none of
the other values.

- **DecisionCommitProofs.** `CommitInv`: from its final Campaign check to its
  insert a handler owns the reservation, and what it checked under it (the
  Campaign is open, no row carries the marker, the instant is inside the
  boundary and not before the last row, the packet binds) still holds. Each of
  these is false without the ownership, so none of the properties is inductive
  alone. From it: types, `UniqueProposal`, `LedgerInTime`, `BuyIsChallenged`, `NoTerminalDecision`, and
  the refinement of `DecisionLedger`. A second invariant, `RestInv`, builds on it: rows
  and deltas are only appended, and a delta lands with the stamp it was given, so the BUY
  row an activation has found in one step is still there when it writes in a later one
  (`FoundIsBuy`; the write does not look at it again), and a Thesis state that could be known at
  `as_of` when a commit read it (`KnownBy`: a prefix of the chain, stamped by then) can
  be known at `as_of` for good. From it `ActiveRestsOnBuy`, `NoLookahead` and
  `AnswersNameTheirRow`.
- **CampaignLedgerProofs.** `LedgerInv`: what a command has read in another file is
  *stable* (a frozen revision, an attribution) or is checked again by
  the write (the status). The audit is the walk to the status because both are
  written in the compare-and-set transaction. Nothing leaves CLOSED, so the row that closes
  is the last of the walk and the only one (`ClosingIsTheEnd`). The derivation sorts the rows
  by stamp and id; the model says so by rank (the k-th row has k - 1 rows before it), and
  `HistoryIsTheSort` shows that this lists every row once and in order: rows with different
  ids have different ranks, so the ranks are a bijection. The last row of the sorted
  history is then a row of the audit, and if it leads to CLOSED it is the closing one:
  `ClosedAtIsTheClosing`, whatever order the stamps give the rows.
- **TradeResolutionProofs.** `ResolutionInv`: from the second check on a
  request owns the reservation, no void or other resolution can happen,
  and what it found absent stays absent until it writes. From it
  `OneAuthority`, `NoHindsight`, `AnswersStand` and the refinement of `TradeResolutions`.
- **ThesisLedgerProofs.** `ThesisInv`: each Thesis is sound on its own (row,
  links, revisions, deltas and review agree), and every client's revision number
  names what it has read, also when Evidence is shared by several Theses and
  edited through none of them (a case too large for a run). `FrozenReadsStay` needs
  the link between `reviewed` and the stored snapshot.
- **FactLakeProofs.** `LakeInv`: short of a power failure rows and files only grow
  (`Grows`), so what a request has found (its row, its file, its durable entry) stays true
  until it commits; a power failure takes only what is not synced, and no request
  survives it to be wrong. The lock plays no part in the argument: the
  properties hold for writers in different processes. From it every property of
  the run and the refinement of `FactArchive`, which becomes a fact
  about rows alone once `CommittedIsDurable` is known.

- **PositionLedgerProofs.** `LedgerInv`: only corrections are voided, every other
  one resolves and chains, and the events stay as an open reader read them (a writer
  waits). `StaysDerivable` does not come from it: a new trade is
  replayed at `Forever`, and what is derivable with every fact is derivable at
  every earlier instant, because the facts of an instant come before
  the later ones in `Precedes`, so each of their prefix sums is a prefix sum of
  the whole (`ForeverCoversAll`). The largest element of a chain of corrections is found
  by well-founded induction on Nat (`MaxIsMember`).
- **ThreadProofs, the model tasks.** `StreamInv`: until a caller leaves, one event at a time is
  handed over (`Handshake`: each position of the worker fixes where the event is,
  what `resume` says and how many events are delivered), and the free slots and
  the tasks that hold one add up. `SlotCoversWork` follows because work is done
  only by holders; no bound on the number of tasks is needed, since the
  set of holders stays finite one step at a time.
- **ThreadProofs, the daily review.** `RefreshInv`, for any number of callers, workers,
  builds and rounds: `committed` lies between what is stored and the last
  generation (`Fence`), and a caller stores only the package of the newest generation, so
  `NewestWins` compares no times. Only the last round can be running and one
  thread leads it until it publishes; so when a round fails, or a late waiter marks
  it, every round that succeeded has a smaller number (`MarkIsCurrent`). The thread that
  clears a flight has ended its build, so it never takes away the flight of a
  successor (`NothingIsOrphaned`). `BuildsInOrder` counts the calls that may still lead a
  build; it carries the bound `MaxBuilds`, not a property of the code.
- **ShortlineReviewProofs.** `ReviewInv`: what a request has found stays true until
  it has answered, because the table only grows and from the look at the table to the
  commit the write lock is the request's own. The registration plays no part:
  two runs of a generation may overlap (section 6) and the table is still right.

Every safety invariant, action property and refinement the runs check is proved. Only
model-checked are the liveness properties `LocksAreReleased`, `GuardIsReleased`,
`SlotsComeBack` and `CapacityComesBack`: liveness under fairness and ENABLED are out of the
prover's reach.

## 5. Plan

Done, most important first: `DecisionCommit` with `DecisionLedger`; `CampaignLedger`;
`TradeResolution` with `TradeResolutions`; `ThesisLedger`; `FactLake` with
`FactArchive`; `PositionLedger`; `ReviewRefresh`; `TaskStream`; `ShortlineReview` with
`VersionArchive`.

Next:

1. The cash derivation and the reconciliation beside `PositionLedger`, with
   the reader that takes two connections.
2. Composition of `TradeResolution` with the activation of `CampaignLedger`.
3. The creation protocol of the Campaign file; backup and restore; leases of the
   research data plane; alert rule revisions.

## 6. Findings

- **store_after_crash.** A process that dies between the creation of a resolution
  store's file and of its table leaves a file every later request refuses
  (`trade_origin_store.py:127`, `formal_trade_attribution_store.py:236-278`).
- **review_capacity.** A request of a segmented review gives its generation back
  when its iterator ends (`app.py:3391`) and again when the response is over
  (`app.py:3361`). A retry of the generation that registers in between loses its
  registration to the second release, so more runs than `MAX_ACTIVE` are admitted,
  against `docs/verification/2026-10-12-segmented-review.md:32`.

Observed while modelling, without a run of their own:

- A commit recomputes its proposal before it looks for the existing row
  (`decision_commit_runtime.py:1692`). If an authority has moved since, the retry
  of an exact, already committed request is told the proposal is stale, although
  `docs/research/DECISION_COMMIT_INTERLEAVING_20261025.md:23-24` promises the
  row. The ledger stays correct; the client does not learn it.
- A Thesis archived between the check and the insert of `bind_campaign_thesis` is
  bound, against the docstring at `campaign_service.py:409`. The activation command has the
  same window: it re-reads trade and position (267-268) before the transaction
  of the transition (361). The proved `ActiveHadBuy` says what remains true: there *was* such a BUY.
- Evidence edited while a Thesis is confirmed changes what is read without a
  revision (`evidence_thesis_service.py:471`), against the comment at 1003.
- The cash derivation reads events and trades in two connections
  (`account_reality_service.py:296`), so unlike the position derivation it can mix two states.
- The gate that refuses holding edits after the bootstrap checks the authority and
  writes `portfolio.json` afterwards (`app.py:1033`), so an edit can follow a bootstrap.
- A failure mark set by a background worker may follow the success of a later explicit
  refresh: `MarkIsCurrent` is about the marks of rounds only.

## 7. Not modelled

Network clients, parsing, ranking, prompts and rendering (data, no protocol);
read-only projections over the ledgers; append-only logs with a single writer and no
later decision over them (feedback, signals, cockpit); credentials and settings files. The
components of the plan that are not reached yet carry `not_modelled`. The admission limit
of 10000 rows per Campaign (`decision_commit_runtime.py:1051`) is beyond a checked instance.
