# Formal verification of the Product Security Engineering Blueprint

This directory holds TLA+ modules for the parts of the repository whose correctness
depends on the order of events, TLC configurations that check them on small
instances, and TLAPS proofs of their main properties for every instance.
`PROJECT.json` has the machine-readable side: which definition models which lines,
which run checks which property, the mutants that show each property can fail, the
hazards, the findings and the theorems.

Run one check with `tlc -config PreToolGate.cfg MCPreToolGate`, one module of proofs
with `tlapm PreToolGate_proofs.tla`.

## 1. Inventory of the system

The repository is a catalogue of about fifty security controls
(`controls/<domain>/<control>/`), each with metadata, guidance, secure and insecure
fixtures, tests and usually one `scripts/verify.py`, plus tooling in `scripts/`. There
are two kinds of programs in it:

- *Programs with state*: the hook with its ledger and its audit file, the exposure
  monitor, the collectors of the SLSA evidence. They share files between processes, or
  talk to a service that changes under them.
- *Verifiers*: they read JSON documents once, evaluate checks and exit 0 (PASS), 1 (FAIL)
  or 2 (ERROR), and keep nothing. Their promise is about something that happened
  elsewhere: a retry, a containment, a rollout. That world is concurrent. Documents are
  taken at different times, in any order, by somebody who may be wrong, while the thing
  they describe goes on. Whether a PASS still says something true is what a test with
  one fixture can hardly ask, and what the models of verifiers are built for.

| Component | State | Operations | Interaction | What is hard |
| --- | --- | --- | --- | --- |
| **Managed PreToolUse hook** (`ai-coding-agent-runtime-hardening/scripts/pretool-gate.py`, `approval_core.py`) | one process per tool call; the managed files it reads | evaluate, load and check the approval, answer `allow`/`deny`, exit 2 | calls the ledger and the audit log; reads the issuer's inbox and the trust manifest; answers the agent runtime | processes race; the 5 s hook timeout kills anywhere; files change under the check |
| **Signed approval and ledger** (`signed_approval.py`) | SQLite table `approval_consumption` | `ensure_ledger_file`, `authorize_and_consume`, `consume_once` | shared by all hooks and by the command lines | write-lock protocol, uniqueness, crash between commit and answer |
| **Runtime audit** (`runtime_audit.py`) | an append-only JSON Lines file | `append_event` | shared by all hooks, before every answer | short writes, `flock`, size limit, fsync and crash |
| **Public exposure monitor** (`public-repository-exposure/scripts/monitor-public-exposure.py`) | a findings document on a state branch; snapshot and observation files | `state-read`, `collect`, `reconcile`, `seed-state`, `queries` | GitHub search, gist listing and contents API; a notification adapter; a reviewer | pagination over a changing listing, compare-and-swap, lost responses, cursor gaps |
| **SLSA evidence collectors** (`scripts/collect-*.py`), **adapter**, **assessor** | receipts, bundles, a catalogue, a report on disk | collect, pin, assemble, assess | files and digests from one to the next; the `gh` and OpenSSL commands | files of different runs, receipt read back from disk, death between two writes |
| **Fleet evidence** (`verify-fleet-evidence.py`, `verify-fleet-telemetry.py`) | a managed checkpoint | accept the exact successor, judge the coverage | signed snapshots of a collector; central ingestion | replay, reordering, loss, a collector that forgot |
| **Side-effect reconciliation** (`verify-side-effect-reconciliation.py`) | none | judge the record of dispatches | an executor, a backend with or without idempotency | a timeout racing a late effect |
| **Hook failure boundary** (`verify-hook-failure-boundary.py`) | none | judge a campaign of provoked failures | a gateway before the side effect | a failed hook stops nothing by itself |
| **Approval command lines** (`verify-approval.py`, `authorize-signed-approval.py`) | the ledger | judge, or authorize and consume | issuers, the trust manifest, an exported replay state | edited documents, repeated requests, a stated time |
| **Command broker, network boundary, runtime state** (`verify-command-broker.py`, `verify-network-boundary.py`, `verify-runtime-state.py`) | none | judge the evidence of a broker, a gateway, an endpoint | aliases, DNS, installed extensions, audit events | all of these change between check and use |
| **Rogue agent containment, resource budget, delegation** (`*/scripts/verify.py`) | none; a replay state kept by the consumer | judge an incident, a session, a pair of messages | operators, control plane, breaker, other agents | order of steps, several clocks, repeated messages |
| **Credential exposure, incident impact, exceptions, cooldown, artifact refresh, attack surface** (`*/scripts/verify.py`, `respond.py`, `check_npm_release_age.py`) | none | judge a response, an inventory, a register, a lockfile, a rollout, a domain | providers, registries, environments, DNS | inventories of different times, boundaries of time |
| **Runners** (`run-controls.py`, `run-assessments.py`) | result files | run, aggregate, replace two files | subprocesses | the two files of different runs |
| **The other verifiers** | none | field checks of one document | none | none of the kinds above |
| **Generators, frameworks, imports, metadata** (`scripts/`) | generated documents | render, compare, validate | none | none of the kinds above |

For each component the properties that make it correct:

- *Hook and ledger*: an approval and an exact request are let go at most once; only
  what was checked is consumed; what is burned stays burned; every failure blocks;
  no hook waits for ever.
- *Audit*: a record before every answer, whole, durable, on its own line; the size
  limit is never exceeded.
- *Monitor*: nothing that stays public is missed; nothing is announced twice; what is
  recorded is announced and the reverse; no run overwrites what it did not read.
- *Evidence pipeline*: a PASS rests on evidence that really held for the assessed release
  and was young enough; a bundle pins the receipt of its own observation.
- *Fleet evidence*: what is accepted is one unbroken history, and has no silent hole.
- *Reconciliation*: when it passes, the effect has happened at most once and never
  happens again.
- *Hook failure boundary*: a passed gateway holds without the hook.
- *Approval command lines*: only what was reviewed is authorized, once.
- *Broker, network, runtime*: what passed was run within policy; connected to an address
  of the allowed host; not drifted for longer than the inventory's age.
- *Containment, budget, delegation*: the old session is stopped in a bounded time, and for no
  longer than that beside the new one; who spent too much is stopped; a message is accepted
  once and gives no more than its sender had.
- *Credential, impact, exceptions, cooldown, refresh, surface*: the old credential is dead,
  and a session derived from it lives only where section 7 says; nothing affected is called clean; an exception is bounded; what is
  installed has aged; every environment was replaced; every name found is owned.

`PROJECT.json` lists every component, also the ones that are not modelled, with the
reason.

## 2. Modules

| Module | Models |
| --- | --- |
| `HookProcesses` | the set of hook processes shared by the next three |
| `ApprovalLedger` | `consume_once`: `BEGIN IMMEDIATE`, busy timeout, `INSERT` against the uniqueness of approval and request, `COMMIT`, errors, abandoned transactions |
| `RuntimeAudit` | `append_event`: lock, size test, full and short writes, fsync, failures, kills, host crash |
| `PreToolGate` | `main` and `authorize_high_impact`, **composing** the two above with the inbox, the trust manifest, the clock and the host |
| `SingleUseApproval` | the abstract promise: an approval for a request is spent in one atomic step, once; whoever spent it may act on it or lose it |
| `ExposureState` | the findings document and `reconcile_state` as pure operators |
| `ExposureMonitor` | overlapping runs of the monitor against GitHub, the public and the reviewer |
| `EvidencePipeline` | collectors, reviewer, adapter and assessor of the SLSA evidence |
| `ReleaseCooldown` | `verify.py`, the npm release age check and the package managers' own gates |
| `CredentialExposure` | the response to an exposed credential of each of the four classes, and its verdict |
| `IncidentImpact` | builds, SBOMs, records and the portfolio, and `respond.py`'s answer |
| `ExceptionRegister` | the directory of exceptions, the declared register and their verdict |
| `ArtifactRefresh` | inventories, risk, decision, replacement, rollout and their verdict |
| `AttackSurface` | names, three sources, the approved inventory and `reconcile` |
| `SideEffects` | executor, network and backend, and the reconciliation verdict |
| `FleetEvidence` | endpoints, ingestion, collector, checkpoint and the two fleet verdicts |
| `RogueContainment` | operators, control plane and old session, RRC-001 to RRC-011 |
| `CommandBroker` | aliases, resolution and decisions, and the broker verdict |
| `NetworkBoundary` | DNS, the gateway's connection, and the network verdict |
| `RuntimeEvidence` | installed extensions, hook events and the runtime verdict |
| `ResourceBudget` | sessions, meter, breaker and alerts, and the budget verdict |
| `AgentDelegation` | signed delegations and responses, the replay state and the verdict |
| `HookBoundary` | a campaign against gateways as built, and its verdict |
| `ApprovalCommands` | requests, signed documents and the two command lines |
| `Documents` | documents that differ from the wanted one in a single field |
| `MCPreToolGate`, `MCExposureMonitor` | small instances for TLC |
| `MCSupplyEvidence`, `MCAgentEvidence` | seven and ten of the components above, side by side |
| `ApprovalLedger_proofs`, `RuntimeAudit_proofs`, `PreToolGate_proofs`, `ExposureMonitor_proofs`, `EvidencePipeline_proofs` | the theorems of the module they are named after |
| `AgentMessages_proofs` | the theorems of `SideEffects`, `FleetEvidence`, `AgentDelegation` |
| `AgentControls_proofs` | of `ApprovalCommands`, `CommandBroker`, `NetworkBoundary`, `RuntimeEvidence`, `ResourceBudget`, `RogueContainment`, `HookBoundary` |
| `SupplyEvidence_proofs` | of `ReleaseCooldown`, `CredentialExposure`, `IncidentImpact`, `ExceptionRegister`, `ArtifactRefresh`, `AttackSurface` |

### How the hook's model corresponds to the code

A process is a value of `Procs`; `pc[p]` is where it is in `main`:
`ready` → `evaluate` → (`lookup` → `resolve` → `verify` → `consume`) → `record` →
`answered`, with `recordError` → `blocked` for the error handlers and `dead` for a kill.
A *routine* event is one that `evaluate` decides without an approval; every other
event is the digest of a normalised request. Each step of the code between two
accesses to shared state is one action: `LoadEnvelope` reads the file, `ResolveKey`
the manifest, `VerifyAndConsume` the pure checks (`verify_signature`,
`evaluate_approval`) and the call of `consume_once`. Inside the ledger and the audit
log the statements that other processes can come between are separate actions.
Any check that cannot be made is `EvaluationError`; the ledger and the audit file have
failure actions of their own. `AuditError` after a consumed approval leads to the second
`record_event` of the handler and then to exit 2.

What is abstracted: JSON shapes, path, owner and permission checks (one failing step),
OpenSSL (`signed`), the digests (values that are equal or not), the SHA-256 references in
a record. The actor, agent, class and time columns of a ledger row are left out: nothing
reads them. A record has two chunks, so that a write may stop between them, and the size
limit counts chunks. SQLite's commit is taken as durable (its default `synchronous=FULL`).

### How the monitor's model corresponds to the code

A run is `idle`, or in `collect`, `list`, `detail`, `written`. `ReadState` is
`state-read` and keeps the document together with its blob identity. `Search` takes
the collection time first, as `command_collect` does, and then all searches at once.
`ListPage` reads one page of `GET /gists/public?since=…`, `FetchGist` one gist's content;
the listing may change between any two of them. `PutState` is the conditional PUT with
`sha`: it succeeds when the document is still the one that was read. `Exit` is exit 1
or 0: only then may the adapter deliver `new-findings.json`. A fingerprint is an object
at a version, as the code derives it from the resource identity that includes the gist
revision or the update time.

What is abstracted: query syntax, per-search pagination and the `total_count` checks (a
failed search is `Fail`), page sizes (one gist per page, so that the page limit also
stands for `MAX_GISTS_PER_RUN`), the sanitised text of findings, `last_seen` and
`last_notified`. Both reviewed dispositions are one. `announced` counts NEW events;
reopening is a property of the document (`MovesForward`). The document's history is its
value: a reviewer who restores exactly the old content restores the old blob, as with
git's content addressing.

The reference workflow has a concurrency group, so that its own runs do not overlap.
The commands do not rely on it, and neither does the model: `Runs` may overlap each
other, and the reviewer's commits overlap them in any case.

### How a verifier's model corresponds to the code

The actions of such a module are of two kinds. The *world*: a broker runs a command, DNS
changes, an environment is rolled back. None of this is in `src/`; it is modelled from what
the verifier assumes of it, marked external in the map, and deliberately free: the
executor may do what its policy forbids, an adapter may be handed in as another, a
collector may miss something. The *verifier*: one action for the whole run of the program,
from loading to the verdict, with an operator for each function or numbered check.

- *What actually happened* is kept apart from *what the documents say*. Properties relate
  the verdict to the former; the verifier's operators read only the latter. Fields
  commented "history" exist for this and are read by no action of the code.
- A check of a static field (a policy value, a declared mode) is judged on `OneOff`: the
  document as the code wants it, and for every field one that differs in it. The verdict
  is computed for each of them, so that a check that is there has an effect and the
  product of all fields is not enumerated.
- `Forms` stands for what ends in exit 2 before any check: not an object, times without a
  timezone, inexact identities, paths outside the root, forbidden content. In
  `CredentialExposure`, `ExceptionRegister`, `RogueContainment`, `CommandBroker`,
  `RuntimeEvidence`, `ResourceBudget` and `HookBoundary` the verdict is then ERROR. In
  `ArtifactRefresh`, `AttackSurface`, `ReleaseCooldown`, `AgentDelegation`, `ApprovalCommands`
  and `FleetEvidence` a run that ends in exit 2 writes nothing and changes no state, and so
  is no step: the verifier's action is guarded by a form that it can read. There always is
  one, so that this guard documents the check and no property depends on it.
- A digest is the content, a signature is who signed, an identifier is a model value.
- In most modules a behaviour ends with its verdict; `SideEffects` goes on, because what
  arrives after the verdict is the point, and so do `FleetEvidence`, `AgentDelegation` and
  `ApprovalCommands`, whose verdicts change a state.

The seven and ten components share no state. `MCSupplyEvidence` and `MCAgentEvidence`
EXTEND all of theirs and add a variable `focus`, chosen in the initial state: only the
component in focus moves. The state spaces add up and do not multiply, and each
component's invariant is checked in exactly the behaviours of its own specification.

`EvidencePipeline` is the exception in kind: the collectors do write, in two steps. `Start`
is the validation of the policy, `Collect…` the observation and its judgement, held in
memory, `WriteReceipt` and `WriteBundle` the two atomic replacements, `Interrupted` an exit 2
or a death between any of these. The reviewer's pin, the adapter and the assessor follow.

## 3. What each run checks

| Run | Instance | Properties | Shows |
| --- | --- | --- | --- |
| `gate_race` | 2 hooks, 2 approvals of 1 request, file of 5 chunks | `GateTypeOK`, `RowsUnique`, `SingleUse`, `AllowRecordIsConsumed`, `SizeBounded`, `RecordsNotInterleaved`, `AnswerIsDurable`, `ImplementsSingleUse` | racing hooks, kills, host crashes, failures in both stores, two and a half records' room |
| `gate_validity` | 1 hook, 5 envelopes (good, unsigned, self-approved, not yet valid, too long-lived), 2 requests, clock to 2 | `ReleasedIsApproved` | the issuer replaces the file while the hook checks it |
| `gate_live` | 2 hooks, fair | `HooksEnd`, `BurnedStaysBurned` | no lock is kept by a failure; a burned approval is never let go later |
| `gate_retry` | 2 hooks, 2 approvals of 1 request | `ReplacementUsable` | **violated**, see section 6 |
| `gate_lines` | 2 hooks | `AnswerIsReadable` | **violated**, see section 6 |
| `exposure_race` | 2 overlapping runs, 2 gists, one page (the limit is hit), clock to 1 | `MonitorTypeOK`, `NewOnce`, `AnnouncedIsRecorded`, `RecordedIsAnnounced`, `MovesForward` | compare-and-swap against another run and the reviewer |
| `exposure_paging` | 1 run at a time, 3 gists on 3 pages, one of them with 2 versions, clock to 1 | `NothingSkipped` | publishing, editing and deleting under the pagination |
| `exposure_live` | 1 run, 1 search hit, 1 gist, a clock, fair | `EventuallyAnnounced` | failures and conflicts are made up for, for all but a gist older than the first look-back |
| `exposure_lost_response` | 1 run, 2 gists | `EmittedOnLaterRun` | **violated**, see section 6 |
| `exposure_slipped` | 1 run, 3 gists on 3 pages | `FollowedFromCursor` | **violated**, see section 6 |
| `supply_evidence` | one of 7 components at a time | `PassIsFounded`, `ReceiptBacksBundle`, `InstalledIsAged`, `ReadyIsContained`, `NothingAffectedIsClean`, `PassedExceptionsAreBounded`, `RemediatedEverywhere`, `PassedSurfaceIsOwned` | an accepting answer about builds, dependencies, incidents and exposure says something true |
| `agent_evidence` | one of 10 components at a time | `PassIsAtMostOnce`, `AcceptedIsOneHistory`, `AcceptedIsComplete`, `AcceptedContainment`, `PassRanWithinPolicy`, `PassedEgressIsBound`, `DriftIsNoticed`, `OverspenderIsStopped`, `AcceptedOnceAndBelow`, `PassedGatewayHolds`, `GrantedAsReviewed` | the same for agents, whatever executors, networks and people do |

`NothingSkipped` holds for a reason worth knowing. A deletion during pagination pulls
an entry onto a page that was already read, and that entry is not queued. But contents
are read only after the last page, the deleted entry was queued, its detail request
answers 404, and the whole run fails without moving the cursor. Skipping such a gist
instead of failing, an obvious "robustness" change, breaks the property (its mutant).

There is one case that this does not cover, and the attempt to prove the property found it.
A gist that comes to the front *after* its page was read is not queued; when it is
deleted again before the last page is read, it pulls an entry back just the same, and
nothing fails. It takes three pages, and with two TLC had not seen it. The history variable
`slipped` records that this has happened (`BehindUnlisted`); `NothingSkipped` excludes it, and
`FollowedFromCursor`, the promise of the documents, does not (`exposure_slipped`, finding 4).

### Bounds, and why they are enough

- `Procs` 2: every property of the hook relates at most two processes, and the locks
  are symmetric in the others. The theorems cover any number.
- `MaxChunks` 5: room for two records and for the odd chunk that a partial write leaves;
  4 and 2 in the runs whose properties do not depend on the limit.
- `MaxTime` 0 where time is not the question, 2 in `gate_validity` (before, at and after
  the expiry), `MaxTTL` 1.
- `Runs` 2, `MaxVersion` 1 or 2, `Gists` 2 (one matching, one that only moves it between
  pages), `MaxPages` 2 or 3, and 1 in
  `exposure_race`: with both gists in the listing the limit is hit and the run fails, and turning
  pages is the subject of `exposure_paging`.
- `exposure_paging` and `exposure_slipped` have 3 gists and 3 pages, which is what the entry
  that slips needs: a page before it, one behind it, and the gist that comes and goes.
  `OneRevised` keeps the former within a few million states: one gist is revised, any of
  them. The two gists that do not match are interchangeable. One run: what a second
  one does to the listing is nothing, and the document is the subject of `exposure_race`;
  the theorem is for any number.
- `exposure_live` has one gist, one search hit and a clock that moves past the look-back
  (`MaxTime` 1, `Lookback` 0): a gist that no run put on record in time is behind the reach
  of the first run and stays out (`OutOfReach`), and without that exception the run finds
  the property violated. The mutant that starts one second after the cursor is caught
  there. Liveness over a second gist takes longer than a run may; with two gists and no
  search hit (`MaxTime` 2, `Lookback` 1) it passes as well, outside the listed runs.

- `supply_evidence` and `agent_evidence`: limits of age and life are 1 and clocks stop at 1,
  2 or 3, so that every limit has a moment at and after it; with limits of 1 a
  document can be one step too old and two documents can have different ages. Two
  releases, versions, products, consumers, environments, people, adapters where a
  property compares two; one provider, session and hostname where it speaks of each
  separately (`reconcile` judges names one by one).
- `FreshRoles` 1: one of the five roles collects during the behaviour, any of them, up to
  twice; the others have been collected and pinned. Roles share no file, and the adapter
  wants all of them. `MaxDefects`, `MaxSlips`, `MaxFaults`, `MaxOddities`, `MaxLapses` 1:
  departures from a clean course in one behaviour. That a verifier notices two at once
  follows from its checks being a conjunction; one at a time shows that each check is
  there. The theorems of section 4 do not need any of these bounds.
- `MaxAuthorization` 1 and `MaxResponseTime` 2 in the credential response. The actions of a
  class that touch neither the credential nor its sessions are one, `other-actions`: they are
  checked alike. The class is chosen in the initial state, and all four are checked.
- Containment has two of the six required authorities, so that one may be revoked and the
  other not, and one unsettled request; all are treated alike. `MaxEvents` 4: an event of each of the three
  required decisions and one that is old.
- `MaxDispatches` 2, `MaxSnapshots` 3, `MaxAccepted` 2, `MaxDelegations` 2, `MaxResponses` 2,
  `MaxSigned` 2, `MaxGranted` 2, `MaxCollections` 2: one and its repetition, replacement or
  successor; three snapshots, so that one can be skipped.

`CHECK_DEADLOCK FALSE` is set for the hook, where all processes may have ended, and for the
verifiers, whose behaviours end with a verdict or a bound; the monitor is checked for
deadlock.

### Fairness

- `FairGateSpec`: weak fairness of `HookStep(p)`, the process's own steps. The operating
  system schedules a started process. No fairness of starts, of failures, of the issuer
  or of kills. `BusyTimeout` is one of the steps, so that nobody needs the lock to be
  granted; the `flock` has no timeout in the code and needs the holder to go on, be
  killed or fail, which weak fairness of all processes gives.
- `FairSpec`: weak fairness of `RunStep(w)`: the hourly schedule starts runs again and
  the runner executes them. `EventuallyAnnounced` assumes besides that failures and
  the reviewer's edits stop at some time (`DisturbancesEnd`); without that, every run may
  fail. It excludes an unheard PUT and a listing longer than the page limit, after which
  the code cannot recover alone, and a gist whose last update lies more than `Lookback`
  before the first collection: without a stored cursor that one starts at its own time minus
  one hour, and no run ever asks for anything older (`OutOfReach`).

## 4. What is proved

All for arbitrary sets of processes, approvals, requests, envelopes, runs, objects and
providers, and for arbitrary limits and bounds.

| Theorem | Statement |
| --- | --- |
| `LedgerRowsUnique`, `LedgerFirstUseOnly` | of the ledger alone under any client |
| `AuditSizeBounded`, `AuditNotInterleaved` | of the audit file alone under any writers |
| `GateStoresSafe` | both carry over to the composition |
| `GateTypeCorrect`, `GateSingleUse`, `GateReleasedIsApproved`, `GateAllowRecordIsConsumed`, `GateAnswerIsDurable` | the invariants of `gate_race` and `gate_validity` |
| `GateImplementsSingleUse` | the refinement of `SingleUseApproval` |
| `GateBurnedStaysBurned` | the temporal property of `gate_live` |
| `MonitorTypeCorrect`, `MonitorNewOnce`, `MonitorAnnouncedIsRecorded`, `MonitorRecordedIsAnnounced`, `MonitorMovesForward` | the properties of `exposure_race` |
| `MonitorNothingSkipped` | the property of `exposure_paging` |
| `PipelinePassIsFounded`, `PipelineReceiptBacksBundle` | the two invariants of the evidence pipeline |
| `CooldownInstalledIsAged`, `CredentialReadyIsContained`, `ImpactNothingAffectedIsClean`, `RegisterPassedAreBounded`, `RefreshRemediatedEverywhere`, `SurfacePassedIsOwned` | the other invariants of `supply_evidence` |
| `EffectPassIsAtMostOnce` | a passed reconciliation: at most one effect, ever |
| `FleetAcceptedIsOneHistory`, `FleetAcceptedIsComplete` | accepted snapshots are one history of the collector, without a silent hole |
| `DelegationAcceptedOnceAndBelow` | messages are accepted once, in order, with no more authority than their sender's |
| `CommandsGrantedAsReviewed`, `BrokerPassRanWithinPolicy`, `EgressPassedIsBound`, `RuntimeDriftIsNoticed`, `BudgetOverspenderIsStopped`, `RogueAcceptedContainment`, `BoundaryPassedGatewayHolds` | the other invariants of `agent_evidence` |

Every invariant that a passing run checks has a theorem.

*Assumptions* are the named ones of the modules, one or two for each:
`NoProcAssumption`, `NoUseAssumption`, `MaxChunksAssumption`, `GateAssumption`, `StateAssumption`,
`MonitorAssumption`, `PipelineAssumption`, `CooldownAssumption`, `CredentialAssumption`,
`ImpactAssumption`, `RegisterAssumption`, `RefreshAssumption`, `SurfaceAssumption`,
`DispatchAssumption`, `FleetAssumption`, `DelegationAssumption`, `CommandsAssumption`,
`BrokerAssumption`, `EgressAssumption`, `RuntimeAssumption`, `BudgetAssumption`, `RogueAssumption`
and `BoundaryAssumption`. They keep special values apart from others, and numbers natural or
positive; TLC evaluates all of them, and some no proof needs.

*The ledger.* `RowsUnique` is not inductive: `COMMIT` adds a row without testing again.
`LedgerInv` adds that whoever is between `BEGIN` and `COMMIT` holds the write lock
(`LockHeld`), so that the test of `INSERT` is still true (`InsertStillFresh`), and that
those who got `True` have distinct rows.

*The audit file.* `AuditInv` adds that only the holder of the `flock` extends the file
(`FlockHeld`), what the size test left (`RoomLeft`), and what the end of the file is
while the holder is between two writes (`HalfAtEnd`, `RecordAtEnd`).

*The hook.* The proof does not repeat these: `StepOfLedger` and `StepOfAudit` show that
every hook step is a ledger step or leaves it alone, and the same for the file, so both
invariants are inherited. `GateInv` adds the order of the stages (`Ordered`), that an
allow rests on `True` for exactly what was checked (`AllowRests`) and the converse
(`TrueMeansAllow`). The refinement maps `COMMIT` to the one atomic `Spend`, `Respond` to
`Release`, and kills, crashes and failures after the commit to `Forfeit`. `BurnedStaysBurned` is
a temporal formula within another; its core is that `Burned(p)`, the request is consumed and
`p` is not the one who does it, is kept by every step (`BurnedKept`), because the `INSERT` that
could end it is refused.

*The monitor.* `Counted` is the heart: what a run has put and not announced was
announced by nobody and is held by no other run. It rests on the compare-and-swap:
two runs cannot both replace the same document, and a finding in the document is not new
to a run that read it. `Times` orders the cursors.

*No gist is skipped.* `SkipInv` says where a matching gist is that a run must find (`Due`): in
its queue, already observed, or `Ahead` of it in the listing (`Reached`), unless the run is
`Doomed` because its queue holds a gist that no longer exists. The listing is ordered by update
and names each gist once (`Ordered`), so that on the last page nothing behind it is due.
Each step of the world has to answer for every run that is turning pages: a gist that comes
to the front moves others back, which takes nothing away from what is ahead; a deletion
moves what follows it to the front (`WithoutPlaces`, `WithoutOrdered`), where it may fall
behind the page only if the deleted gist was behind it too. Then it was listed, and the
run is doomed, or it was not, and the step sets `slipped`. Without the last case the invariant is
not inductive, and the counterexample to induction was a reachable state.

*Side effects.* What a passed verdict knows is about a moment, and dispatches arrive later.
`EffectInv` counts: an idempotent backend has changed once for each key it has booked
(`Counted`), only keys of dispatches are booked (`BookedWasSent`), and a passed verdict rests
on all dispatches having one key (`VerdictRests`), which no later arrival changes.

*Fleet.* A digest says which snapshot is meant because captures have different times:
`CollectorInv` has them increasing, each continuing an earlier one, so that contents are
injective (`ContentsDiffer`); `CheckpointInv` says that the checkpoint is the snapshot
accepted last. `CompleteInv` adds for each snapshot what was true of the endpoints when it was
taken (`SnapshotTrue`): exports are in the order of time, and without a gap everything up to
the latest record seen was seen. `LatestIsGreatest` is the one fact about a recursive idea,
the greatest of a bounded set; it is a use of the least-number principle (`WFMin` of
WellFoundedInduction on the differences), which the provers can take, as it has a set and
not an operator for its parameter.

*Delegation.* `SignedInv` and `ReplayInv` tie the replay state to what was accepted;
`InOrder` and `Below` are the property without what follows from them: equal messages have
equal sequence numbers, and the accepted ones increase.

*The pipeline.* `PipelineInv` follows a judgement from the collector's memory (`Judged`) to
the bundle (`BundleSound`) and the catalogue (`EntrySound`): wherever it says "pass", the fact
is known. `EffectiveInResults` then shows that no variant of the catalogue that the
assessor may be given makes a record count that the catalogue does not have as a pass, and
`ConclusionNeedsAll` that PASS needs every type of every requirement. A receipt that is
read back is the own one because a collector goes from one file to the other without
another collector in between (the last part of `Judged`).

*Verifiers of moments.* Nine of the remaining thirteen invariants need little more than the
property itself: that times lie in the past and documents have the form the program reads
(`CooldownTimes`, `RegisterInv`, `BudgetTypes`, `CommandsInv`), and that a document that was collected
was true of the world when it was taken: the answer of the portfolio (`KnownIsBuilt`), the
snapshot of a source (`SnapshotSound`), the second inventory and the risk evidence
(`RefreshInv`), the resolution (`EgressInv`), an inventory of extensions (`RuntimeInv`:
it was taken no later than the adapter was last as reviewed). One lemma per module then says
what a PASS compares (`PassedSurface`, `EvaluatedRefresh`, `MatchedSession`, ...). Two of them
carry arithmetic: `WholeHours` (hours that are cut off never make a release older) and
`ClientGate` (the settings of the package managers are the same limit in other units).

*Orders of operations.* Credential exposure is judged by receipts, and the invariant has to say
what the sequence of receipts tells of the authority: `AuthorityByReceipts` (a successful
disabling in the log means that the credential is dead; a live derived session, that after
each successful invalidation the credential was still alive for a while). It is kept by an
appended receipt (`ReceiptAtEnd`, `AuthorityKept`), because nothing can be derived from a
disabled credential; `ReadyVerdict` says what READY compares. `RogueInv` ties the numbers of the
two signed orders to the times of their issue, so that the authorization with the higher number
came later; with the two limits of application and authorization this gives the bound on how
long both sessions ran. That times follow numbers is a fact about the operators
(`NextSequence`), not of the code, which cannot see it.

*Grants.* `CommandsInv` has a row of the ledger for every grant, and one of the exported copy for
every grant that came before the copy; that a digest equal to another one means the same
request is in `NotReplayed`. `BrokerInv` has a case of the evidence for everything that ran, and
`BoundaryInv` says of each case which gateway and which failure made it (`CaseOf`).

*Only model-checked*: `HooksEnd` and `EventuallyAnnounced`. Liveness under fairness needs ENABLED,
which the prover does not have.

## 5. Assumptions about the outside

- The kernel releases a dead process's `flock`; SQLite's rollback journal works.
- One clock. Skew between runners is not modelled.
- The gist listing is ordered by update, newest first; `since` is inclusive; identifiers
  of deleted gists do not return. A search is one snapshot: what a shift between its
  pages hides is found by the next run, which repeats the search in full.
- The provider compares `sha` atomically with the replacement of the document.

## 6. Disagreements between documents and code

1. **A replacement approval is refused** (`gate_retry`). The documents let a retry after
   a `not-applied` outcome go with a distinct approval of the *same* request digest. The
   ledger declares `request_digest` UNIQUE, so that every later approval of that digest is
   a replay.
2. **A half-written record swallows the next one** (`gate_lines`). The audit file is
   JSON Lines with one record before each answer. After a short write that failed or was
   killed, the next hook appends to the same line, and its answer goes out with a record
   that no line-by-line reader can parse.
3. **A lost response loses the event** (`exposure_lost_response`). The monitor's
   specification says that a failed state update leaves the state unchanged and the finding
   is emitted later. When the provider applied the PUT and only its response was lost, the
   command exits 2, the finding is in the document, and no later run calls it NEW.
4. **A gist that nobody reads** (`exposure_slipped`). The specification says that a
   collection finishes the whole Gist delta before it returns 0 and skips nothing silently.
   The listing is read by page numbers while it changes. A gist that is published after the
   first page was read, and deleted before the last one is, moves the first entry of an
   unread page onto one that was read; the run exits 0 and its cursor passes the entry. It
   needs a full page of entries before it, and some seconds of bad luck; a later
   revision of the gist brings it back.

## 7. Not modelled, and the limits of what is

*Limits of the models*, each a simplification or a thing the code does not promise:

- Pipeline: one collector at a time on an output path. Two would make the read-back pin the
  other one's receipt; the runbooks have one path per role. The report's two files are one.
  Ages are relative to the catalogue's `assessed_at`, which nobody compares with a clock.
  A review's own expiry is judged by its collector only, and not again later. `Adapt` leaves out
  that the review is not later than the assessment and not by the collector's own role, and the
  assessor that the assessment is not later than the catalogue; the code is stricter by these.
- Credential: the log of states is a list of names in a fixed order with ascending times. Each
  outcome may be `NOT_REQUIRED`, for any state (`verify.py` 349, 360), and neither the log's
  times nor the order of the receipts nor the time of the probe is compared with anything; the
  receipts must only lie within the authorization. READY is therefore said of a response that
  invalidated the sessions first and disabled the credential afterwards, with a session
  derived in between still alive. `ReadyIsContained` names exactly this case; the response is
  meant to go in order (the `README.md` of the control, line 23). For `signing-key` and
  `short-lived-session` no invalidation is required (44-76), and nothing is said of
  sessions. Consumers, replacement and impact are statements of the evidence. The
  evidence must be of a dry run (`live_mutation` false): the model lets its operations act.
- Impact: the property finds missing pages and products known to one source only; if the test
  of the response's own freshness (311) were dropped, it would still hold. Freshness is measured
  against the response's own evaluation time; when a
  deployment was observed is not checked.
- Refresh: the ages have no lower bound, and both inventories must be within the limit of
  one evaluation.
- Surface: `as_of` is never compared with the clock, and the age of the state file is not
  checked.
- Containment: only the numbers of the containment command and the recovery authorization are
  compared (540), and the recovery's time with the authorization's (549). Neither is compared
  with the time of the stop, nor are the times in the plane's log of states (the secure
  fixture's differ from the documents' by a minute or more). An authorization that was signed
  before the stop is accepted, and so is a recovery that began before it; `AcceptedContainment`
  bounds the overlap by the application latency, provided that the operators number their
  orders as they issue them. The README of the control says both that a rogue session stops within 60
  seconds of the detection (line 23) and that the 60 seconds count from the command. The
  code does the latter and lets the command be issued up to 600 seconds after the detection;
  `AcceptedContainment` states the sum.
- Budget: which decisions need an alert is taken from the policy, whose list the code does not
  validate (379); the model has the list of the reference policy. The age of a session's observation is not bounded (that of the snapshot is), and
  enforcement has no maximum latency.
- Delegation: an expiry is compared with the response and not with the evaluation.
- Broker: a forced push is recognised by `--force` and `--force-with-lease`, also with a value
  (228-237). `git push -f` and a `+refspec` are classified as an ordinary push and pass with
  the approval of one, although the control's README (line 288) counts a forced push as
  rewriting history. An alias that is changed between resolution and run is not in the
  evidence. `PassRanWithinPolicy` says what is left.
- Hook boundary: a case of the class `invalid-permit` needs a permit that is not valid, not
  bound and not of a trusted issuer (260, 281-289). The permit may be missing altogether, and
  then a gateway passes that asks for nothing but a permit; where it is there, it is of another
  request *and* of an unknown issuer, so that a gateway that checks only one of the two passes.
  `PassedGatewayHolds` speaks of the permits that the campaign did present.
- Approval command lines: that the validation state is available, names the required binding
  fields and trusts the issuer (`approval_core.py` 213, 228-233, 279) is left out of
  `VerifyApproval`; the code is stricter by these checks. The time is what the caller states. `verify-approval.py` checks
  no signature and consumes nothing, so that its PASS is about a copy of the replay state.
- Hook: a new audit file is made durable by fsync of the file and not of its directory; the
  model takes a file that was ever there to be there. A failure of `print` after the record
  counts as a kill.
- Hook: when fsync fails after the record of an allow was written, the call is blocked and the
  file has an allow that nobody received; a key that is revoked or exchanged between the
  lookup and the call of OpenSSL is still used. Both are possible in the code, and no
  document says otherwise.
- Monitor: the review of a finding that expires reopens it only when a search returns the object
  again, as `reconcile_state` is meant to work.
- Hook and monitor: see also sections 2 and 5.

*Not modelled*, with the reason in `PROJECT.json`:

- Verifiers that check fields of one document and nothing over time: runtime profiles and
  capabilities, action integrity, memory lifecycle, extension governance, gateway egress,
  the GitHub Actions, container, IaC, signing, source-protection and dependency controls
  without a module above. A model of them would repeat the code line by line, and a test
  with a fixture per field checks them as well.
- `run-controls.py`, `run-assessments.py`: one fold over exit statuses, and a pair of files of
  which no document says that they belong together.
- Generators and catalogue imports (layout and conversion), metadata validation, text and
  Unicode scanners, controls that consist of guidance, and the cryptography of OpenSSL.

*Worth doing next*: an abstract register, in which a finding is recorded and announced in one
step, refined by `ExposureMonitor` with a history of the announcements still owed; two
collectors on one path, as soon as the documents say whether that is allowed.
