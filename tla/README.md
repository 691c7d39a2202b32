# WhiteRadar in TLA+

A verification development for WhiteRadar Incident, the read-only blockchain monitor in this
repository. TLC checks the modules on small instances; TLAPS proves the main safety properties
for every instance.

## The system

WhiteRadar is a set of Python processes around one SQLite file (`storage.py`): the `daemon` that
scans confirmed blocks, a `run-once` or `check-invariants` an operator starts beside it, the
pending observer, and the commands of the incident team. Nothing else coordinates them. Each
`with connection` block is a transaction; a `SELECT` before the first write of a block runs in
autocommit and sees only the rows of that moment.

| Component | State it keeps | Operations | What makes it hard | What makes it correct |
|---|---|---|---|---|
| Confirmed scanner (`monitor.py`, `_scan_once` and `cmd_daemon` in `cli.py`) | cursor, deployments, profiles, identity graph, heartbeat | a cycle: flush, cut a window, logs, blocks, cursor | retry of half-done blocks, crash between any two commits, a second scanner, lagging endpoints | the cursor passes nothing, evidence precedes the event, the cursor is confirmed |
| Alert outbox (`storage.py`, `telegram.py`) | `alerted_at` of the events | `pending_alerts`, `send`, `mark_alerted` | at-least-once delivery, an outage, the row limit | marked only after delivery, every eligible event goes out |
| Incident workflow (`storage.py`) | incident row, append-only history | `open_incident`, `transition_incident` | read and write of a move are not atomic | history legal, replayable, terminal states final |
| Invariant engine (`invariants.py`, `monitor.py`) | `invariant_states` | evaluate at the safe head, replace the row, record the transition | two checkers, a check cut short, calls that fail | true alarms, none missed, none repeated |
| Pending observer (`mempool.py`) | telemetry, events, heartbeat | connect, subscribe, handle a message, back off | reconnects, a heartbeat task, awaits between reads and writes | bounded backoff, no stale "ok", one case per transaction |
| RPC client (`rpc.py`, `http.py`) | the active endpoint | `call` with retries and failover | endpoints that disagree within one command, methods only some of them offer, connections that break off mid-answer | every endpoint used before a call gives up, none twice |
| Profile refresh (`monitor.py`, `enrichment.py`) | contract profiles and their age | re-enrich the oldest due profiles, report drift | a profile replaced while another process compares, reads that fail, a kill between row and event | every stored change on record, no profile starved |
| Policy and scoring (`policy.py`, `scoring.py`) | none | `assess_pending`, `score_*` | caps and thresholds | monotone and within 0..100 |
| History and reconstruction (`history.py`, `reconstruction.py`) | frontier, visited sets, coverage | bounded multi-hop expansion | limits, partial answers, duplicates | bounded, no transaction twice, honest coverage |
| Investigation (`investigation.py`, `state_diff.py`, `simulation.py`, `proxy.py`, `token_metadata.py`) | the evidence of one case in memory | eleven kinds of calls, then derivations with limits | a reorganisation or failover between two reads, cut traces, optional sources that fail | one view of the transaction, true effects, every gap told |
| Case bundles (`case_bundle.py`, `reconstruction_bundle.py`) | files of a case | write files, then the manifest | a kill between two files, an earlier bundle in the directory | a manifest vouches for one complete case |
| ABI resolver, fingerprints | ABI catalog cache | derivations from provider answers | failing optional sources | results independent of optional sources |

The components meet in the database. The scanner, the observer, the invariant checks and the
profile refresh all end in `add_event` and `open_incident`; the scanner and the observer flush the
same outbox; the incident team works on the rows that `open_incident` creates. `investigate` stands
apart: it reads the chain through the RPC client and writes a directory.

`PROJECT.json` lists under `hazards` each place where a test would hardly reach, with its line.

## Modules

| Module | Models | Correspondence |
|---|---|---|
| `CaseLedger` | what the radar promises about cases | abstract: record, open, deliver, mark |
| `AlertOutbox` | events, incidents and outbox tables | one operator per transaction or call to Telegram; `batch[c]` is the list `_flush_alerts` iterates over |
| `ChainScanner` | `ChainScanner.scan` in any number of processes | `pc[p]` is the place in the cycle, `next`/`last` the window, `work` the log entries or transactions left, `item`/`links`/`other` the one in process |
| `IncidentWorkflow` | incident rows and history | `move[o]` is what `transition_incident` has read and validated |
| `InvariantMonitor` | `_scan_invariants` in any number of processes | `result` is the tuple of `check_policy_invariants`, `previous` what `record_invariant_state` returned |
| `PendingObserver` | `watch_pending_transactions` of one chain, beside scanners that flush the outbox | `phase` is the place in the connection loop or in `_handle_message`, `beat` the heartbeat task, `tx`/`todo` the transaction in process and its graph writes |
| `AddressHistory` | the indexed and the JSON-RPC history source | operators; a ledger is a set of records, a failing request a member of `lost` |
| `Reconstruction` | `reconstruct_attack_case` | `addressHops`, `queried` and `cases` are the code's; `evidence` holds what the `_Candidate`s collect, and their hop, rank and sources are read from it |
| `RpcFailover` | `JsonRpcClient.call` over `request_json` | `active` is `_active_endpoint`; `call` is the loop of the running or last call: its `offset` among the endpoints, the `attempt` of `request_json` |
| `CaseBundle` | `write_case_bundle` | a file's content is the number of the run that wrote it, `written` the length of the list `written` |
| `Investigation` | `cmd_investigate --single-transaction`, composed of the two above | `step` is the call that is open or the derivation under way, `ev` the branch each piece of evidence came from, `stack` and `kept` are `stack` and `frames` of `_flatten_trace`; transfers, entities and findings are operators over them |
| `ProfileRefresh` | `refresh_profiles` in any number of processes, over `AlertOutbox` | `todo[r]` is the batch with its rows, `seen[r]` the new values, `order` the profiles by `last_enriched_at` |
| `AlertOutbox_proofs`, `ChainScanner_proofs`, `IncidentWorkflow_proofs`, `InvariantMonitor_proofs`, `PendingObserver_proofs`, `ProfileRefresh_proofs`, `Reconstruction_proofs` (with `AddressHistory`), `Investigation_proofs` (with `RpcFailover` and `CaseBundle`) | theorems | |
| `MCChainScanner`, `MCIncidentWorkflow`, `MCInvariantMonitor`, `MCPendingObserver`, `MCReconstruction`, `MCInvestigation`, `MCProfileRefresh` | chains, graphs, traces and symmetry sets for TLC | |

Modelling decisions:

- An action is one RPC answer or one SQLite transaction. `BeginCycle` joins `block_number` and
  `get_cursor`: the answered head may be up to `MaxLag` blocks old, which covers what happens
  between the two calls and an endpoint that trails.
- The order of transactions in a block, of logs in a window and of an event's relations is left
  open; the code's order is one of them. The direction of an edge is dropped.
- An event is its `stable_event_id`; a score is any member of `Scores`. Similar bytecode is a
  given relation `Similar`; `similar_contracts` reads the part of it that has a profile, from at
  most `RowLimit` rows (2000 in the code) and at most `SimilarLimit` of them (8). Which ones the
  limits leave is open (`CutAt`): the code goes by refresh time and degree of similarity.
- `pending_alerts` orders by `observed_at` and `rowid`; the model orders by insertion.
- `Sendable` joins `should_send` and the dry run, in which `send` returns `False`.
- A failed delivery may or may not have reached the chat. A failing `mark_alerted` is caught by the
  same handler and is the case "reached".
- `Unanswered` deployments are those whose receipt or trace the provider may not return; the code
  passes over them and `lost` remembers it.
- `ChainScanner` is a chain without invariant policies; `InvariantMonitor` is the invariants of one
  policy and leaves the flush that follows to `AlertOutbox`.
- In `InvariantMonitor` what a contract returns at a block is fixed (`truth`); a call can fail. The
  policy's `alert_on_error` is chosen in `Init`. A connection that breaks off during a call is not
  among the errors `check_invariant` catches, and is a `Crash`.
- In `PendingObserver` a transaction is an event (it carries evidence), routine or foreign; its score
  is any member of `Scores`. A stage is one await or one transaction, and the heartbeat task runs
  only where the main task awaits. `up` is the set of endpoints that accept a subscription,
  `mute` the set of those that answer pings and never acknowledge one; both change at any time. The
  wait for the acknowledgement (`mempool.py:121`) has no timeout, so the observer stays at a mute
  endpoint. A start begins with the chain id over HTTP, which may fail and end the process
  (`StartFails`). A break is an error of the stream or of any step outside the delivery
  handlers, a close is one the websocket library reports as the end of the stream (any number of
  them, as often as the provider likes), a stop is the
  cancellation of the task, a crash a kill or an error while an error is being recorded. The
  ABI resolver and the simulation write nothing the properties speak of.
- In `Reconstruction` the ledger is fixed while the case is built. The order of the addresses of a
  frontier, of equally ranked candidates and of the new addresses of a transaction is left open; the
  code sorts them by their text. A failing log query or a capped log inventory is any subset of the
  logs. `partial` remembers that an answer may lack records, from the causes the code has: a failed
  request, a page or record limit, a capped window or scan, records the source cannot see. An answer
  that breaks off on its way ends the command (`Dropped`), like any error outside the caught ones.
- In `RpcFailover` an attempt is one HTTP request. What it may meet is what the code tells apart: a
  result, error -32601, another JSON-RPC error, a failure that is retried (5xx, 429, timeout, a
  connection that cannot be opened, no JSON), one that is not (another 4xx, a body that is not an
  object), and an answer that is dropped: `RemoteDisconnected`, `ConnectionResetError`,
  `IncompleteRead` or a body that is not UTF-8 is none of the errors that `http.py:67` catches, so
  it leaves `request_json` and `call` at once (`Drop`).
- In `Investigation` an endpoint follows a branch of the chain that holds the transaction, or shows it
  pending, or does not know it, and may change its view while a call is open. A branch fixes the
  block, the receipt's status and logs, the frames and the state diff. The calls of `inspect_proxy`,
  the code lookups and the token lookups are one call each, because one failure of each kind has one
  effect; `simulate_transaction` is two, because a failure of the first is a warning and of the
  second a "reverted" replay. The transaction calls a contract: a creation skips the proxy. Events
  are the kept logs. What becomes of one is its fate (`Fates`): it is read, its decoding fails with a
  warning, or `_transfers_from_logs` passes over it without one. A dropped answer ends the command;
  in the reads whose handler takes a `ValueError` (`Lenient`), a body that is not UTF-8 counts as a
  refusal instead. "CREATE" stands for `CREATE2` too; a frame has a value or not.
- In `ProfileRefresh` the nine compared columns are three: the bytecode, whose failed read ends the
  command, a proxy slot, whose failed read is stored as none, and the verification, whose failed read
  is stored as not verified. `Abort` is an error of the chain id or of the bytecode, or an explorer
  answer that breaks off, which is no `HttpError`; the row is then untouched. An event is its id: the address and the new values of the changed
  columns. `Age` lets a profile pass the minimum age; ties of `last_enriched_at` are not modelled.
- Definitions commented "Mutant" are faulty versions of the definition after them. No
  specification uses them; putting one in its place must break a property.

## Runs

| Run | Instance | Shows |
|---|---|---|
| `scanner_one` | 1 scanner, 3 similar deployments in 2 blocks, `SimilarLimit` 1 for 8, 1 failure, lag 1, deliveries that may fail for ever, `FairSpec` | `NoBlockSkipped`, `SimilarLinked`, `CursorMonotone`, and `CatchesUp`, `Recovers`, `EligibleAlerted` |
| `scanner_two` | 2 scanners, a deployment and a log, 1 failure, lag 1 | `EvidenceBeforeEvent`, `CursorConfirmed`, `UpgradesReported`, `NoDanglingEdge`, `CompleteUnlessCut`, and the refinement `LedgerSpec` |
| `workflow_race` | 3 operators, 1 incident, 4 moves | `HistoryLegal`, `ResolvedWasAcknowledged`, `HistoryChains`, `OwnerIsFirstMover`, `TerminalFinal` |
| `invariants_two` | 2 checkers, 1 invariant, a good and two bad values, 2 blocks, lag 1, 1 check cut short | `ViolationReported`, `AlarmsAreTrue`, `AlarmsPromoted`, `RecoveryAfterAlarm` |
| `observer_stream` | the observer and 1 flushing scanner, 1 case, 1 routine and 1 foreign transaction, 2 messages, 2 endpoints that come and go or stay mute, any number of closes, backoff up to 3, 2 failures, `FairSpec` | `OutageVisible`, `CasesCompleteUnlessCut`, the refinement `LedgerSpec`, `Reconnects`, `EligibleAlerted` |
| `reconstruction_cases` | 4 small ledgers, 4 transactions, 4 addresses, 12 settings (hops 0 to 3, each limit met in turn, 3 sources), window limit 4, scan limit 3, 2 failures | `EvidenceChain`, `NothingDroppedSilently`, `CompleteWhenClean` against a breadth-first search |
| `investigation_case` | 2 endpoints, 2 retries, the two debug methods missing at one endpoint, 2 faults, 2 branches with different traces, 2 changes of view, every limit met on some branch, 2 runs into one directory | `OneView`, `EffectsTrue`, `KeptIsPreorder`, `GapsTold`, `FailoverCovers`, `VerifiedIsOneCase` |
| `profile_drift` | 2 refreshers, 2 profiles, limit 1, 1 change of the chain, 1 failing read or delivery, 1 kill, `FairSpec` | `DriftOnRecord`, `NoProfileStarved` |
| `outbox_starved`, `invariants_repeated`, `reconstruction_frontier`, `investigation_dropped` | smallest instances | disagreements between code and documentation, below |

Why the bounds are enough: a window of two blocks has a first, a last and a boundary to the next
window; with two items per block one can be done and the other not; the third of three similar
contracts finds more matches than it may take; two messages let the provider
repeat a transaction, two failures of the observer let a dead heartbeat task meet a stop; the
ledgers of the reconstruction hold a cycle, a hub, a record listed for a third address, a record
outside the window and one whose transfer was rolled back, three hops deep; one failure per run of two
scanners puts a cut cycle against an intact one; two changes of view let the three first reads of an
investigation come from three views; traces one frame longer than the limit, with a failed frame in the
middle, put a cut below, at and above a failure; two runs are what it takes to mix two cases in one
directory, and two refreshers with a limit of 1 to overwrite each other and to starve a profile. `MaxLag = 1` lets an endpoint show a head below the cursor. The theorems remove the
bounds for the safety properties.

`CHECK_DEADLOCK FALSE` stands in the workflow, reconstruction and investigation configurations only:
when an incident is terminal the team has nothing left to do, and the commands end with their case. A scanner and a checker can always start another cycle.

Fairness (`FairSpec`): weak fairness of a scanner's own steps. `cmd_daemon` loops for as long as it
runs, every RPC call and SQLite statement has a timeout, and the service unit restarts the process
(`deploy/systemd/white-radar.service`, `Restart=on-failure`). `NewBlock`, `Abort` and `Crash` get
none, and `MaxFailures` bounds the failures. `EligibleAlerted` has its own premise, `Delivering`:
Telegram does not refuse a message for ever. `CatchesUp` holds without it.
The observer has weak fairness of its own steps and of the flushes: it loops for as long as it runs,
and `deploy/systemd/white-radar-pending@.service` restarts it after a failure; after a stop nothing
does. Two of its awaits have no timeout. A message of the stream need not come (`Receive` gets no
fairness). Nor need the acknowledgement of a subscription: at a mute endpoint no step is enabled,
and `Reconnects` has the premise that from some time on no endpoint is mute (`<>[](mute = {})`).
Breaks, closes, stops and endpoints that come and go get no fairness, and closes no bound.
A refresher has weak fairness of its steps because a timer starts the command again and again
(`deploy/systemd/white-radar-refresh@.timer`), and time has it (`Age`); failing reads, kills and
changes of the chain get none and are bounded.

The type invariants of `IncidentWorkflow`, `InvariantMonitor` and `ProfileRefresh` (all three proved)
and of `Investigation` are definitions no run lists: the other properties of those runs do not hold
for their shape alone.

## What holds, and under which condition

- **The cursor.** Every deployment and every proxy control log between the first block and the
  cursor has been stored, and every log reported, whatever is aborted, killed or run twice at once.
  The exception is a deployment for which the provider returned no receipt or trace (`lost`): the
  code goes on, although `docs/ARCHITECTURE.md:136` calls the cursor "the last completely processed
  confirmed block".
- **One scanner or two.** With one scanner the cursor never goes back. With two it can: the slower
  one stores its lower block. What it passes again is idempotent, so `NoBlockSkipped` and the
  ledger survive. `SimilarLinked` needs one scanner: two can each miss the other's profile. Its other
  exception are the limits of `similar_contracts`: a contract with eight ties may be left without an
  edge to a ninth, and profiles beyond 2000 rows are not compared.
- **Cut cycles.** Rows are committed one by one. A cycle cut between `add_deployment` and
  `add_event` leaves a deployment that is never reported, because the retry returns at the known row
  (`monitor.py:502`, although line 116 says that a failed block "can be retried"); one cut between
  `add_event` and `open_incident` an urgent event without an incident; `CompleteUnlessCut` says
  that nothing else does. `ViolationReported`, `AlarmsPromoted` and `RecoveryAfterAlarm` have the
  same condition (`crashes = 0`), because `record_invariant_state` commits before the event exists.
- **The outbox.** A message can go out twice, and is never marked before it went out. All eligible
  events are alerted as long as the query reaches them; events below the Telegram threshold are
  never marked, so 100 of them hide everything newer (`outbox_starved`, with 1 for 100).
- **The workflow.** However operators race, the history is legal and ends in the row's status, and
  nothing is resolved that nobody took up. A stale move can reopen a closed incident,
  although `docs/POLICY_AND_INCIDENTS.md:124` calls such an incident terminal; `TerminalFinal` says
  that nothing else can.
- **Invariants.** A failing call with `alert_on_error` records an event at every new block
  (`invariants_repeated`): the stored `NULL` is read as the text `None`.

- **The observer.** While it waits to reconnect the health row says so. Repeated messages add nothing
  to a case. An interruption between `add_event` and the last edge
  leaves the case without an incident or relations, and the next message for the transaction does
  not repair it (`CasesCompleteUnlessCut`). If one endpoint stays up and none stays mute the observer
  streams again; a direct delivery that failed is made up for by a scanner's flush. A stream that is
  closed properly is reopened at the same endpoint without rotation or delay, where
  `docs/OPERATIONS.md:99` speaks of rotation "after disconnects". Three things the model allows:
  an endpoint that never acknowledges holds the observer for ever, the other endpoints untried; a stop
  during the delay leaves "degraded" in the row; a stop after the heartbeat task has died ends in a
  reconnect.

- **Reconstruction.** Each part of a case hangs on the seed by a chain of evidence as long as its hop,
  whatever fails. Counterparties of history records enter the frontier without a look at the
  transfer's effect (lines 683 to 686), although `docs/INVESTIGATION.md:143` says that "only transfers
  classified as `committed`" extend it (`reconstruction_frontier`). In a window where every record is
  confirmed by a committed transfer, and without limits, hubs and failures, the case is the
  breadth-first search of the ledger along committed transfers (`CompleteWhenClean`).
  What the loop leaves out is visible, with three things to know. The record and page limits of a
  history source cut its answer without a flag in the coverage, and are outside
  `NothingDroppedSilently`. When the last case fills the transaction limit and no candidate is left,
  `transaction_limit_reached` is false although later hops were not looked at; the number of
  transactions tells. A transaction is expanded once, from the evidence it was chosen for: an address
  found later does not lead on through its transfers. An answer that breaks off on its way ends the
  command without a case.

- **Investigation.** The transaction, the receipt and the block of a case are of one branch. What is
  read later (proxy, trace, state diff, code, replay) is whatever the endpoint follows then: the code
  does not compare it with the block. Effects stand nevertheless: a transfer is called committed only
  if neither its branch's transaction nor any frame above it failed, because `_flatten_trace` keeps a
  frame only after its callers, wherever the limit cuts. Missing parts are told by a warning, with
  three exceptions that leave a value unknown without one: code lookups and token lookups beyond their
  limits, and a failed lookup. Outside `GapsTold` are also the logs that `_transfers_from_logs` passes
  over in silence: a `Transfer` without indexed ends or with short data (lines 438 and 457), an
  ERC-1155 log with fewer than four topics (473 and 497). The documentation does not say what such
  a log should give. Every `RpcError` of the replay's `eth_call` counts as "reverted", an
  outage too.
- **The RPC client.** A call that gives up has used every endpoint once. A connection that breaks off
  while the answer is read ends the call with the other endpoints untried (`investigation_dropped`),
  where `docs/OPERATIONS.md:98` lets calls rotate on transport failures. An endpoint that answers with a
  JSON-RPC error other than -32601 ends the call at once, although another endpoint might answer.
- **Bundles.** A directory whose files match its manifest holds one case, after any number of runs one
  after another and a kill anywhere. Not so for two runs at the same time: the manifest hashes the
  files on disk, whoever wrote them.
- **Profile drift.** A stored value that is not the first one is on record, whoever overwrote whom,
  unless a process was killed between the row and the event: the next refresh then compares with the
  new row. When a value comes back and changes again in the same way, the second change has the id of
  the first event and adds nothing; a failed read counts as such a change.

## Proofs

Every safety property that a run checks is also a theorem, for all values of the constants that meet
the modules' assumptions. A theorem of the form `Spec => []P` rests on an inductive invariant; what
follows says which, and why `P` alone does not do.

**`ChainScanner_proofs`**: any set of scanners, any finite set of events, any chain, any settings
(`OutboxAssumption`, `ChainAssumption`, `SettingsAssumption`). `TypeOK`, `CursorConfirmed`,
`NoBlockSkipped`, `UpgradesReported`, `EvidenceBeforeEvent` and `NoDanglingEdge` follow from `IndInv`:

- `Typed`: types, and which items a stage can work on;
- `WindowOK`: the cursor and every window lie below the safe head. The safe head of the whole chain
  only grows, so it bounds every window, however old the answer it was computed from;
- `CoverageOK`: deployments below a scanner's position are handled. `NoBlockSkipped` alone is not
  inductive, because a second scanner may sit in the middle of a window that the cursor has left;
- `ReportedOK`: a log of a scanner's window is reported, or still in its `work`;
- `EvidenceOK`: what the item in process has stored so far, stage by stage.

`RacesLoseNothing` (`CompleteUnlessCut`) adds `CompleteOK`: a row whose event or incident is missing is
in the hands of a scanner that is about to write it, which is where the loser of a race leaves it.
`ScannerImplementsLedger`, that is `Spec => LedgerSpec`, shows that every step of every scanner is a
step of `CaseLedger` or leaves the ledger alone; it adds `RowsOK`: a batch holds recorded rows, and a
scanner about to mark has delivered. `SimilarIsTied` and `CursorNeverGoesBack` are about one scanner
(`Alone`, a hypothesis of the theorems: a second scanner stores an older cursor after a newer one, and
reports a contract that the first did not see as similar). `AloneOK` says that it is ahead of the cursor
and that no contract is reported between its reading of `similar_contracts` and its own event, and
`TiesDue` that what its answer lacks of the similar contracts, a limit of the query cut off.

**`AlertOutbox_proofs`** holds what the proofs of its users share: the types of the tables after an
event is added or the outbox flushed, and `Numbered`, that rows are numbered without a gap, so that the
next number is new.

**`IncidentWorkflow_proofs`**: any number of operators. `TypeOK`, `HistoryMatchesStatus`,
`HistoryLegal`, `ResolvedWasAcknowledged`, `HistoryChains` and `TerminalFinal` need `MovesOK` (a pending
move was legal from the row that was read, and that row was acknowledged if it was active) and
`OpeningOK` (no history before the row). `FirstMoverOwns` (`OwnerIsFirstMover`) adds `ActorsNamed`:
every entry but the first names an operator, so that an incident nobody owns is one nobody moved.

**`InvariantMonitor_proofs`**: any number of checkers and invariants, any values. `ViolationReported`,
`AlarmsAreTrue`, `AlarmsPromoted` and `RecoveryAfterAlarm` are not inductive: a checker compares its
result with a row that others have replaced since, and whether the violation in that row was reported
depends on the checker that wrote it. `ViolationInv` and `RecoveryInv` therefore speak of every row,
stored or in a checker's hands: its violation is reported, or a checker that stands before `add_event`
is about to report it.

**`PendingObserver_proofs`**: any transactions, relations, endpoints and flushing scanners. `TypeOK`,
`OutageVisible` (with `FrameOK`: the heartbeat task lives only while the stream is open) and
`CasesCompleteUnlessCut`, by `CasesInv`: every case is complete but the one being written, and what that
one lacks is in `todo`. `ObserverImplementsLedger` shows that the observer beside any number of flushing
scanners implements `CaseLedger`; `RowsOK` is the counterpart of the scanner's.

**`ProfileRefresh_proofs`**: any number of refreshers, profiles and values. `DriftOnRecord` by
`DriftInv`: a value is the first one, shown by an event, or about to be. It must hold of the copies in
the batches too, because a refresher that finds its copy confirmed writes it back without an event, over
whatever the others have stored since. `ProfileAssumption` says that two readings that differ have a
drift event.

**`Reconstruction_proofs`**: any ledger, limits and outages. `ReconstructionAssumption` says that a
ledger is a finite set of records, that a record is listed under its own ends, and that limits are
numbers.

- `WindowHoldsAnchor`: the block window of the JSON-RPC source lies in the request, holds the seed block,
  and is as wide as allowed;
- `ReconstructionTypeCorrect`, `CaseHangsOnSeed` (`EvidenceChain`) and `GapsAreReported`
  (`NothingDroppedSilently`) rest on `Sound`: which addresses are known, and asked, at which hop
  (`Levels`), and that the candidates of past hops have been investigated (`Settled`). `EvidenceChain`
  needs the levels, because the hop of a new case is that of the loop, while its chain is read from
  the addresses;
- `CleanIsComplete` (`CompleteWhenClean`): while nothing is cut, the state is a stage of `Walk`, the
  search that takes the other end of a record whether or not the transaction confirms it, as the code
  does. That every query returns every record uses that a page, a merged list and a block window are
  not cut when nothing says so. `WalkIsNear` shows that in a window of confirmed records `Walk` is
  `Near`, the search along committed transfers that the property speaks of.

**`Investigation_proofs`**: any branches, traces, logs, state diffs, limits, endpoints and files.

- `FailoverCoversAll`: the RPC client by itself. The strengthening says which endpoints were given up:
  those `offset` steps from the active one, all distinct because `offset` stays below their number.
  A call that ends with a dropped answer is not one that gave up, and the theorem does not say that
  it used every endpoint;
- `CommandUsesClient`: the command implements `RpcSpec`, so that what is proved of the client holds in
  it (`CommandFailsOver`). `ClientInv` says that no derivation runs while a call is open;
- `CaseHasOneView`, by `ViewInv`: the types of the evidence and that the receipt's branch is known
  before the block is asked for;
- `BundleIsOneCase`, by `BundleInv`: the first `written` files are this run's, and a whole manifest
  holds hashes of its own run only. `VerifiedIsOneCase` alone says nothing about a half-written
  directory;
- `CommittedIsTrue` (`EffectsTrue`), by `TraceInv`: every frame that is kept or waiting on the stack has
  all frames above it among the kept ones. `TraceAssumption` says that a trace is a finite tree with
  numbered children, `TransactionAssumption` that its root fails exactly when the transaction reverted;
- `FramesInOrder` (`KeptIsPreorder`), by `OrderInv`: what is kept lies before what waits, frames that wait
  part from each other with the next one to the left, and until the loop is cut every frame is kept or
  lies below one that waits. A frame's descendants come before its right siblings only because the
  children are pushed in front of the stack, in order;
- `CaseTellsItsGaps` (`GapsTold`), by `GapInv`: each part of the command has given its warnings when the
  next one begins, and later steps forget none. Logs that the decoder passes over are not counted
  among the transfers. `InvestigationAssumption` gives the logs and slots
  their types.

Induction. The library's induction theorems take an operator, which the provers cannot instantiate.
`SetInduction` (from `WFMin` on the naturals) takes a set instead, and is enough for recursive functions and
for the folds: a fold is shown to be a function on the sets of positions, its equation is unfolded, and
what holds of the start and of every step holds of the result. So are proved that `Follow` and `Walk`
compute what they say, that the transfers and slots of a case without a warning are as many as the
receipt and the state diff record, and that `FlattenSeq` loses no address.

Model-checked only: the liveness properties `CatchesUp`, `Recovers`, `EligibleAlerted`, `Reconnects` and
`NoProfileStarved`. They need fairness and `ENABLED`, which the prover does not support. The violation runs
are counterexamples and need no proof.

## Plan

Order of the work; the first eleven are done.

1. `AlertOutbox`, `ChainScanner`, `CaseLedger`: the core, checked.
2. `ChainScanner_proofs`: the inductive invariant and the safety theorems.
3. The refinement of `CaseLedger` by the scanners.
4. `IncidentWorkflow` and its theorems.
5. `InvariantMonitor`, checked.
6. `PendingObserver` over `AlertOutbox`, beside a flushing scanner, checked.
7. `AddressHistory` and `Reconstruction`, checked; the window proved.
8. `RpcFailover` and `CaseBundle`, composed in `Investigation`; checked and proved.
9. `ProfileRefresh` over `AlertOutbox`, checked.
10. `Investigation_proofs`, the RPC client with it.
11. Proofs of every safety property the runs check, and of the observer as an implementation of
    `CaseLedger`.
12. `RpcFailover` composed with the window of the scanner, for the logs an endpoint has not seen.
13. `PendingTriage`: `assess_pending`, `score_pending` and the telemetry threshold as operators over
    bounded inputs; score bounds and monotonicity proved. Health verdicts (`health_snapshot`).
14. Proofs: the type invariant of `Investigation`; that the refreshers implement `CaseLedger`.

## Not modelled

- The ABI resolver: its catalog cache changes which names a report shows and nothing the properties
  speak of.
- The timeline of a case, the aggregation of finished cases in a reconstruction, malformed provider
  payloads, and contract creations as the investigated transaction.
- The heartbeat of `refresh-profiles`, `health_snapshot`, `identity_neighborhood`: planned or read-only.
- Two runs writing into one directory at the same time.
- Rendering (`reporting.py`, Telegram text, HTML, GraphML, CSV), TOML parsing, logging, hashing and
  SimHash, byte-level ABI decoding. They keep no state and no property above depends on their detail.

Hazards that no property covers, besides those `PROJECT.json` lists: `transaction_limit_reached` of a
reconstruction (above), two `AdminChanged` logs of one proxy in one transaction, which share an
event id so that the second is dropped (`monitor.py:728`; events are their ids in the model), and the block scan of the JSON-RPC history source, which is cached with its gaps.
