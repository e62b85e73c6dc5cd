# A TLA+ verification of AIGCCore

AIGCCore is a Rust core (`core/src`) with a Tauri desktop shell (`src-tauri/src`),
a React interface (`src/ui`) and command-line tools (`tools`). It turns evidence
items into a *bundle*, a deterministic ZIP archive, under a policy: a run is
evaluated against gates, exported, validated, and recorded in a hash-chained
audit log. A vault keeps encrypted data on disk. This directory holds its formal
model: TLA+ modules, their TLC configurations, and proofs that the TLA+ proof
system checks.

## 1. The system

### Components

| Component | Source | State it keeps | Operations |
|---|---|---|---|
| Vault storage | `core/src/storage/vault.rs` | the vault directory (`meta/.lock`, `vault_config.json`, `active_generation`, data generations); per handle `generation_root`, `dek`, the lock descriptor | `create`, `open`, `read_blob`, `write_blob`, `read_sqlite_bytes`, `write_sqlite_bytes`, `rotate_dek`, drop |
| Audit log | `core/src/audit/log.rs`, `event.rs` | an NDJSON file; per handle `last_hash` | `open_or_create`, `append`, `read_all_ndjson` |
| Run manager | `core/src/run/manager.rs` | the run state, the audit log handle, the output ZIP | `export_run` and its `transition`s |
| Export command | `src-tauri/src/export/mod.rs` | a private runtime directory, the reserved output file, two guards, the cached hash of the executable | `generate_evidenceos_bundle` |
| Evaluation gates | `core/src/eval/` | none (the registry is data) | `run_all_for_bundle`, `report_from_results`, `gate_satisfied_for_export` |
| Export policy gate | `core/src/policy/export_gate.rs` | none | `evaluate_export_gate` |
| Bundle validator | `core/src/validator/`, `tools/bundle_validator` | none; the archive it reads | `validate_zip`, its limits and its checklist |
| Bundle builder | `core/src/evidence_bundle/builder.rs` | the bundle directory and ZIP | `build_dir`, `build_zip` |
| Evidence authority | `core/src/evidence_bundle/authority.rs`, `commands/authority_integrity.rs` | none (a manifest is data) | `validate`, `evaluate_claim`, `bind_audit_log` |
| Desktop UI | `src/ui/App.tsx` | network snapshot, control library, the run in progress and its result | initial load, run export |
| Keys and cryptography | `core/src/storage/key_management.rs`, `crypto.rs` | the key encryption key, in an OS store or a file | `create_kek`, `get_or_create_kek`, `load_kek`, encrypt, decrypt |
| Network policy | `core/src/policy/{allowlist,egress,network_snapshot}.rs` | none | decisions over one request |
| Adapters | `core/src/adapters/` | none | one request to a model |
| EvidenceOS workflow | `core/src/evidenceos/` | none (the control library is data) | `generate_evidenceos_artifacts` |
| Determinism | `core/src/determinism/` | none | canonical JSON, ZIP, identifiers |
| Gate runner | `tools/gate_runner` | two bundles of its own | `run_pack_validation_cycle` |
| Logging, build provenance | `src-tauri/src/logging.rs`, `src-tauri/build.rs`, `core/src/run/lifecycle.rs` | none | operational support |

### Interactions

* The UI calls `generate_evidenceos_bundle` over Tauri's IPC. The command creates
  a runtime directory with its own audit log, reserves the output file, and hands
  the log to a `RunManager`.
* `RunManager::export_run` builds a preflight bundle, evaluates the gates on it,
  asks the export policy gate, builds the bundle, validates it, embeds the audit
  log read so far, builds and validates it again, and appends to the audit log
  before and after each of these. Every one of these calls may fail.
* The evaluation decides twice over the same content: `run_all_for_bundle` asks the
  validator for the preflight's checks and maps them to gates, and the validator
  checks the final archive again, with the report that was made of those gates in it.
  The gate runner goes through the same cycle with two bundles and no manager.
* A bundle carries its own authority: a manifest that says for which case, source
  and window its claims hold, bound to the audit log by its digest.
* Several processes may share one audit log, and several `VaultStorage` values in
  one or more processes may share one vault directory. Each pair coordinates
  only through an OS file lock and what it finds on disk. Processes that create
  or load the key of a vault coordinate through `create_new` and `add-generic-password`
  alone.

### What is hard

* *Vault*: each handle caches which generation and key it works with, while another
  handle may rotate the key, which replaces both; a rotation gives its shared lock
  up to try for the exclusive one; a crash or an error may strike between any two
  disk operations, and cleanups may themselves fail.
* *Audit log*: each handle caches the hash of the tail between appends; a record
  may be torn, or written and not synced; `append` may fail after its record has
  reached the file.
* *Export*: a sequence of fallible steps with two artifacts (log and ZIP) that
  have to agree, cleanups on some of the error paths, and a guard outside.
* *Gates and validator*: two pieces of code that have to agree on what a report and
  a bundle are, over inputs that the schemas leave open, under three policies, and
  for archives that were changed after they were made.
* *Limits*: what headers declare need not be what entries produce, and an entry may
  be read more than once.
* *Keys*: a key file may exist and not be whole yet; a caller may die between
  creating and filling it; a name that does not exist may exist a moment later.
* *UI*: an operation lock kept in a ref, handlers of a rendering that is no longer
  the state, and asynchronous results.

`PROJECT.json` lists the hazards one by one, at their lines.

### What makes each component correct

* *Vault*: an acknowledged blob is never lost nor replaced; every open handle
  reads what a fresh open would read; a rotation excludes all other instances; the
  directory can be opened after every crash once it was created; a key state is
  never overwritten; an open returns.
* *Audit log*: the file is one hash chain; an acknowledged event is durable; a torn
  record is never built upon; a handle that has lost track never appends again, and
  one that is alone never loses track.
* *Export*: a ZIP is left behind only when its final bytes passed validation and
  the export is reported as completed; every failure is recorded; the state of the
  run and the log agree; a run ends once.
* *Gates, policy, validator, authority*: nothing passes by default: a missing,
  unknown or duplicate result never counts as a pass; what the preflight found holds
  of the final archive; a stricter policy permits less; an archive that was changed
  does not pass unless its authority or its hashes were changed with it; a
  claim out of its window, or one never permitted, is not authorized.
* *Limits*: a limit holds for the bytes produced, not the ones declared.
* *Keys*: all callers get the one key that is stored; none is overwritten or cut short,
  and one that a loss of power takes is gone with its file.
* *UI*: at most one export at a time; an outcome shown belongs to the last run, and
  the button comes back.

## 2. The modules

| Module | What it is |
|---|---|
| `Vault` | `VaultStorage`: several instances, the directory, the lock, failures and crashes |
| `VaultStore` | abstract specification of the vault: a write-once store that every session sees whole |
| `VaultProofs` | inductive invariant and theorems of `Vault` |
| `MCVault` | model values for TLC; the `MCVault*.cfg` instantiate it |
| `AuditLog` | `AuditLog`: several handles, the file, the lock, torn writes, power loss |
| `AuditTrail` | abstract specification of the log: a trail that only grows, save what was never promised |
| `AuditProofs` | inductive invariant, theorems and refinement proof of `AuditLog` |
| `MCAuditLog` | model values for TLC; the `MCAudit*.cfg` instantiate it |
| `ExportGate` | the decision of the export policy gate, an operator |
| `GateRegistry` | the registry of gates: severities, policies, where NOT_APPLICABLE is allowed |
| `EvalReport` | the eval report as the runner makes it and as the validator accepts it |
| `Authority` | the evidence authority: the contract of a manifest, the decision on a claim |
| `Validator` | the checklist of `BundleValidator`, one predicate per check |
| `Evaluation` | `EvalRunner`: the result of every gate, from the checks and its own evaluators |
| `EvidencePack` | the EvidenceOS workflow, the inputs its two callers make, and the builder |
| `BundleReview` | an export by content: evaluate, report, decide, build, validate, edit, validate again |
| `BundleReviewProofs` | what reports and validations are worth, for all inputs and edits |
| `MCBundleReview` | what users of the desktop may enter; `MCBundleReview.cfg` |
| `ArchiveLimits` | the limits of the validator: sizes, counts, ratios, decompression |
| `ArchiveLimitsProofs` | its inductive invariant and theorems |
| `MCArchiveLimits` | archives around every limit; `MCArchiveLimits.cfg` |
| `ExportRun` | `RunManager::export_run`: the run state, the log, the bundle, every failure; uses `ExportGate` |
| `ExportProofs` | inductive invariants and theorems of `ExportRun` |
| `MCExportRun` | five gates of the registry; `MCExportRun.cfg`, `MCExportUnrecorded.cfg` |
| `ExportCommand` | the desktop command around one export: the reserved output and the two guards; extends `ExportRun` |
| `ExportCommandProofs` | its inductive invariant and theorems |
| `MCExportCommand` | the same gates; `MCExportCommand.cfg` |
| `KeyStore` | the key encryption key: several processes, three platforms, crashes, loss of power |
| `KeyStoreProofs` | its inductive invariant and theorems |
| `MCKeyStore` | model values for TLC; `MCKeyStore.cfg` |
| `DesktopApp` | the window: loads, fields, clicks, late renderings, an operation lock |
| `DesktopAppProofs` | its inductive invariant and theorems |
| `MCDesktopApp` | a window that loads twice; `MCDesktopApp.cfg` |

The modules about bundles extend one another, from data to behaviour: `ExportGate`,
`GateRegistry`, `EvalReport`; `Validator` (with `Authority`), `Evaluation`,
`EvidencePack`, `BundleReview`. `ExportRun` uses `ExportGate` and leaves the results
of the gates and the verdicts open; `BundleReview` computes them and leaves the
failures out.

`PROJECT.json` maps each definition to the lines it stands for. Definitions marked
"Mutant" are wrong forms of a definition nearby: each is a slip the code could have
made, and each property is known to fail under one of them, so that none holds
by the shape of the model alone.

### Vault

One step of the model is one disk operation, or a group of them that no other
process can tell apart because the lock is held, and a crash between them leaves
the same thing to the next open.

| Code | Model |
|---|---|
| `create_with_key_storage` | `CreateLock`, `CreateRefused`, `CreateDirs`, `CreateKeyState`, `CreateConfig`, `CreatePublish`, then `HoldShared`; `CreateFails` for the early returns |
| `open` | `OpenBegin`, `OpenLock` (waits), `OpenRead`; `OpenFails` |
| `write_blob` | `BlobBegin` (temporary file), `BlobPublish` (hard link); `BlobFails` |
| `write_sqlite_bytes` | `DbBegin` (truncates), `DbEnd` (fills, or not) |
| `read_blob` | the operator `ReadBlob` |
| `rotate_dek` | `RotateUnlock`, `RotateTryLock` or `RotateInUse`, `RotateCopy`, `RotateEncrypt`, `RotateRename`, `RotatePublish`, `RotateRetire`, then `HoldShared`; `RotateFails` for the early returns and their cleanups |
| `hold_shared` | `DropExclusive`, `HoldShared`, `HoldSharedFails` |
| `Drop`, death of a process | `Close`, `Crash` |

The variables: `meta`, `config`, `pointer`, `dir`, `wrapped`, `files`, `db` are the
directory; `lock` and `fresh` the OS; `pc`, `gen` (`generation_root`), `dek`,
`other`, `arg` the handles; `acked` is history. A generation is a number: 0 is the
flat layout of earlier versions, 1 is `generation-0`, the others are drawn fresh
as `unique_suffix` does. A data key bears the number of the generation it was
drawn for. Initially there is no vault, or an empty one in the flat layout.

What is abstracted, and why it may be:

* The key encryption key can always be loaded, or the operation fails; it never
  changes. A ciphertext decrypts under its own key only. (That a loss of power can take
  the key is `KeyStore`'s subject, see section 4.)
* The contents of the database are reduced to absent, torn, or whole under a key.
* `remove_dir_all` of a generation removes all of it, or fails and leaves it.
  A partly removed generation is one that nothing names.
* Temporary files (`.partial`, `.tmp`) are never read under their own names and
  rotation skips them.
* Disk operations persist in the order they are issued: the model covers the death
  of a process at any point, not loss of power. The code syncs each generation
  before it publishes it; a model with loss of power is planned.
* A handle runs one call at a time (`rotate_dek` takes `&mut self`; a concurrent
  `write_blob` through a shared reference is a second writer, which two instances
  show as well).
* `unique_suffix` never repeats. It is taken from the clock in nanoseconds with a
  sequence number.
* The rejection of symbolic links and malformed names only makes calls fail.
* Windows file locking differs; the model is of `flock`. `AtomicDowngrade` covers
  both answers to whether an exclusive lock becomes shared without a gap.

### Audit log

| Code | Model |
|---|---|
| `open_or_create` | `OpenBegin`, `OpenLock` (waits), `OpenRead` (`verify_ndjson`); `OpenFails` |
| `append` | `AppendBegin`, `AppendLock` (waits), `AppendCheck` or `AppendRefused` (`read_verified_tail`), `AppendWrite` or `AppendTorn`, `AppendSync`; `AppendFails` |
| `AuditLog` dropped, death of a process | `Close` |
| the machine stops | `PowerLoss` |

A hash is modelled by what it covers: the sequence of events from the first record
to the one it belongs to. Two records have the same hash exactly when SHA-256 has
no collision between them. A record is its event and its previous hash. `torn`
says that bytes without a final newline follow the last record; `synced` counts
the records that `sync_all` made durable. Edits of the file by other programs are
left out: `open_or_create` verifies the whole log against them, `append` only the
final record. Reads without the lock (`read_all_ndjson`) return a value that the
log does not keep.

Assumed: a loss of power leaves the file its name in the directory. `open_or_create`
(`log.rs:30-41`) creates the file and never syncs the directory, so a loss of power
soon after the creation may take the log whole, with records that `append` had
synced and acknowledged. `AckedKept`, `ImplementsTrail` and their theorems speak of a
log whose file is still found; a log that is lost whole is a new and empty one, in
which no chain is broken.

### Export run

| Code | Model |
|---|---|
| `export_run` is called | `Call` |
| `AuditLog::append`, as its caller sees it | `Log` (the record is written), `AppendReturns`; `AppendFails` (before, during or after the write) |
| `transition`, `valid_transition` | `Transition` and `AppendReturns`, where the state follows; `TransitionRefused` |
| the preflight bundle, `run_all_for_bundle`, `report_from_results` | `Preflight`, `PreflightFails` |
| the events of the evaluation | `Request`, `LogGateResult`, `LogEvaluated` |
| `evaluate_export_gate`, a blocked export | `DecideExport` (with `PermitsExport`), `Block` |
| `read_all_ndjson`, `build_dir`, `build_zip` | `ReadLog`, `BuildDir`, `BuildZip`, and their `...Fails` with `remove_stale_export_on_error` |
| `validate_zip`, `remove_exported_bytes` | `Validate`, `ValidateFails`, `Discard`, `DiscardFails`, `LogVerdict` |
| the end | `Complete`, `Fail`, `Return` |

`pc` is the point that `export_run` has reached; the second round of building and
validation is the first one again with `final` set. What is abstracted:

* Events are their type and what a property reads: the target of a transition, a
  gate and its result, the verdict of a validation, the digest of a completion.
* The contents of a bundle are fixed by the request, apart from the audit log it
  embeds. The log only grows, so a bundle is identified by how much of it was
  read, and so is the SHA-256 of the ZIP.
* The gates are numbered in the order of their identifiers, in which the results
  are recorded. What each gate computes is any of the values it may have.
* The manager is the only writer of its log. Several writers are `AuditLog`'s
  subject.
* The death of the process in the middle of a call is left out: nothing of the
  manager persists, and its log is a new file each time.
* Why an export is blocked is left out, and so is what is written into the events.
* What the gates and the validator find is any of the verdicts they may have:
  `BundleReview` says which.

### Export command

`CreateRuntimeDir`, `Reserve` (`create_new`), `LogPolicy`, `Run` (one call of
`export_run`), `RunEnds`, `ReadAuthority`, then the two `Drop`s in the order in
which Rust runs them: `DropOutput` (`ExportOutputGuard`), `DropRuntime`
(`RuntimeDirGuard`); the `...Fails` are the early returns. `CommandInit` fixes the
request to the one the command makes. Other programs do not touch the output
path between its reservation and the answer.

### Bundle review

| Code | Model |
|---|---|
| the inputs of `export_run`, of the desktop command and of the gate runner | `Init` (with `DesktopInputs`, `SelfAuditInputs`, `EvidenceOsInputs`), `Vary` |
| the preflight and `run_all_for_bundle` | `Evaluate` (with `Build`, `GateResults`) |
| `report_from_results` | `Materialize` |
| `evaluate_export_gate` | `Decide` (with `PermitsExport` of `ExportGate`) |
| `final_bundle_inputs`, `build_dir`, `build_zip`, twice | `Rebuild` |
| `validate_zip` | `Validate`; of an archive changed since (`Edit`), `Recheck`, as `tools/bundle_validator` does |

`Validator` has one predicate per check of the checklist, `Summary` is the record
of their values and `Overall` the verdict; `Evaluation` maps them to gates as
`map_validator_to_gates` does and adds the evaluators the runner has of its own.
`EvidencePack` makes files of a request as the workflow does, inputs of files as the
desktop command and the gate runner do, and an archive of inputs as the builder does.

* A file is a record of what the checks read of it; a missing key is a field the
  record does not have. Texts are known by the claim markers in them. A file that
  does not parse is in `unreadable`.
* A digest is `Sha(x)`, a record of what it covers, or malformed: SHA-256 has no
  collisions. The hash of a chain of events is the sequence of these events.
* Paths are named without their directories. An entry of an archive has a position:
  that of its path in the order of the full ones, where the builder wrote it.
* `preflight` is history: the archive that was evaluated, and whether the copy of the
  log in it was the manager's log of that moment.
* A timestamp is a natural number, `NoTime` one that does not parse; `Day` is the
  length of the window.
* `Vary` changes the inputs at up to `MaxChanges` places in ways the types of
  `schemas.rs` allow. `Edit` changes the archive at as many. The variants are those
  a check looks at: absent, malformed or contradictory values, missing and
  additional files, another order, a comment, other events.
* The records that `export_run` appends for the gates are one record here. They carry the
  ids of the manifest, which are those of the request: the desktop command, the only
  caller of `export_run`, derives one run and one vault id for both. `export_run` does not
  compare them.

### Archive limits

`Open` (the size of the file), `CheckCount`, `CheckEntry` for each header and
`LimitsHold` are `validate_archive_limits`; `Inflate` for each entry,
`InflateFails` and `Inflated` are `verify_actual_decompressed_sizes`; `ReadEntry` is
`read_zip_entry_bytes`, which the checks call any number of times. Headers declare
anything up to `MaxU64`, additions saturate there (which no archive makes them do, see
section 3), and an entry produces anything each time it is read. `sums`, `produced` and `held` are history.

### Key store

| Code | Model |
|---|---|
| `create_kek`, `get_or_create_kek`, `load_kek` on each platform | `Call` |
| `file_get_or_create_kek`, `file_load_kek`, `windows_get_or_create_kek_dpapi`, `windows_load_kek` | `Inspect`, `Read`, `Open` (`create_new`), `Reinspect`, `Write`, `Sync` |
| `macos_get_or_create_kek`, `macos_load_kek` | `Find`, `Add` |
| an error, the death of a process | `Stop`; `PowerLoss` for all of them, and what is not on disk |

A caller may stop anywhere; what it leaves in the file stays, so that an empty or
short file is met by those who come later. A loss of power may cut short a file
whose contents were not synced (`synced`), and may take one whose name in the directory is
not on disk (`entry`). `sync_all` of the file is taken to make durable the contents alone, and
nothing in `key_management.rs` syncs the directory, or its parents made by
`create_dir_all`; `vault.rs:646` and `698` do that for files of the vault. Whether a
file system keeps the name all the same is left open. On Windows the model makes no
difference. The keychain is taken to be durable. `given`, `made` and `gone` are history: the
keys returned, those returned by their makers, those lost with their files. A key that is read is checked to be
whole. Sealing by DPAPI and base64 are functions that can be undone, and are left
out. No key is drawn twice.

### Desktop window

| Code | Model |
|---|---|
| the effect that loads, `get_network_snapshot`, `list_control_library` | `SnapshotAnswers`, `ControlsAnswer` |
| the fields of the form | `Edit` |
| React renders | `Render` |
| the handler of the button | `ClickIncomplete`, `ClickRefused`, `Click` |
| the digest, the backend command, `finally` | `Hashed`, `Succeeds`, `Fails` |

A handler belongs to the last rendering and reads its state (`seen`); only
`operationLockRef` is that of the moment. A rendering may be late by any number of
steps, which includes all that React does and more. Under StrictMode a development
build runs the effect twice; a release build once.

## 3. The runs

The vault and audit runs check for deadlock, and so does that of the window. The
others do not: once the calls they allow have returned, or the archive has been
decided on, the program has nothing to do.

| Run | Instance | Distinct states | What it shows |
|---|---|---|---|
| `vault_owner` | 2 instances, both create, 1 rotates, 1 blob, 2 values, `MaxGen` 3, encrypted, atomic downgrade, failing locks | 92 thousand | `SoleOpenInstance`, `NoLostBlob`, `HandlesCurrent`, `ActiveGenerationWhole`, `KeyStateKept`, and that the vault implements `VaultStore` |
| `vault_live` | 2 instances, 1 creates and rotates, no encryption, non-atomic downgrade, fairness | 94 thousand | `OpenReturns`, and `NoLostBlob` when `hold_shared` leaves the owner without a lock for a moment |
| `vault_two_rotators` | 2 instances that both rotate | violation | finding 1 |
| `audit_writers` | 3 writers, 2 events, 3 records | 61 thousand | `ChainValid`, `AckedKept`, `TornNeverExtended`, `StaleMeansOvertaken`, and that the log implements `AuditTrail` |
| `audit_second_writer` | 2 writers, 3 records | violation | finding 2 |
| `export_run` | 5 gates, 72 requests, 2 calls | 1.2 million | `CompletedArchive`, `EmbeddedEvidence`, `GatesPermit`, `StateFollowsLog`, `FailureLeavesNothing`, `OutcomeHolds`, `RunEndsOnce` |
| `export_command` | 5 gates, 1 call | 12 thousand | `OkIsKept`, `ErrorLeavesNothing`, `ForeignFileKept` |
| `export_unrecorded` | as `export_run` | violation | finding 3 |
| `bundle_review` | 4 orders of a desktop user and the gate runner's 2 bundles, 3 policies, the whole registry, up to 2 changes | 62 thousand | `EvaluationCarriesOver`, `EditDetected`, `AuthorizedMeansShipped`, `PolicyMonotone`, `NoLiveEgressClaimed` |
| `archive_limits` | archives of up to 4 entries around each limit, any sizes produced | 2.6 thousand | `WorkBounded` |
| `key_store` | 3 callers, 3 keys, 4 calls, 3 platforms | 208 thousand | `OneKek`, `WholeOrGone` |
| `desktop_app` | 2 loads, 3 exports, fairness | 4.9 thousand | `OneExport`, `ButtonReturns` |

The bounds. `MaxGen` bounds the names and keys ever drawn: with 3 a fresh vault is
created, and rotated twice when a creation died before drawing its key or the
vault was flat, once otherwise; a second rotation of another instance
(`vault_two_rotators`) needs 4. Two values for one blob show a replaced or lost
blob; blobs do not interact otherwise. Two instances are enough for every pair of
calls to interleave; what a third one may do beside them, the theorems below
cover for any number. A log of three records
is the shortest in which a handle is stale (it misses two) and another appends
still. Blobs, values, writers and events are symmetric; no liveness property is
checked with symmetry.

The five gates of the export instance are the three that the policy asks about
by name, one that may be not applicable, and one that applies to every policy; a
gate that differs from these in nothing adds no behaviour. Which apply to a policy is
`MCAppliesTo`. All combinations of policy, network mode, proof level and pinning
level are requests. A second call is what shows that a call after a completed, blocked,
failed or broken off one cannot undo what is recorded; a third would start from
the same states as the second. `MaxLog` = 24 is above what two calls can record,
so the full disk it stands for is met only as the failure of any append.

`bundle_review` has no bound on the content of a bundle but the choice of the
inputs and of what differs in them. Two changes are enough to have an input
that is wrong in two places, and an archive that is changed in one place and
mended in another (the log and its digest, a file and its row of hashes); a
check reads at most a few files. `Day` = 2 has an instant before, at, within and after
each end of the window. The four orders have nothing in them, a sensitive tag, a
marker in a text, and a capability that does not exist; the gate runner's bundles have
the rest (citations, redactions, a pack that is not EvidenceOS).

The limits of `archive_limits` are small numbers in the relation of the real
ones: an archive can be over each of them alone. No addition saturates: the saturating ones come after the limits have
passed, and an entry that declares `MaxU64` is over the limit of an entry and has been
rejected by then, before anything is added. In `key_store`
three callers are a creator, one that finds its file
unfinished and one that comes after a crash or a loss of power; a fourth call is a retry. Callers
and keys are symmetric. In `desktop_app` a third export starts after one of each
outcome; two loads are what StrictMode makes.

Fairness. `OpenReturns` assumes that a call in progress takes its next step
(weak fairness of `InProgress`: threads are scheduled and disk operations return)
and that the OS does not starve a waiter whose lock is free again and again
(strong fairness of `OpenLock` and of `HoldShared`). Nothing is assumed of
callers: no call need be started, no handle closed, no process need crash, and a
waiting `lock_shared` need not fail (or every open would return that way). An
open can wait only for an exclusive lock, and whoever holds one is in a call.
The run has `LockErrors = FALSE`: an instance whose `hold_shared` failed after a
rotation keeps its exclusive lock for as long as it lives, and no open can return.

`ButtonReturns` assumes that each export takes its next step (weak fairness of
`Settle`: a digest is computed, and the backend's command returns, as
`export_run` has no loop that waits) and that React renders (weak fairness of
`Render`). Nothing is assumed of the user, nor of the loads: the property speaks
of a window whose posture and controls are known.

## 4. What the runs found

1. *Two rotators lose a blob* (`vault_two_rotators`). The contract of
   `VaultStorage` (`vault.rs:28-31`) says that every open instance holds a shared
   lock for its lifetime and that a rotation "can never lose a blob another
   instance is writing". `lock_exclusive_for_rotation` unlocks first. While it waits in
   `lock_shared`, another instance, for which the vault is now unlocked, can
   rotate; the first then returns `VAULT_IN_USE` with the retired generation and
   key in its fields. If the retired directory is still there, because its
   removal failed or the rotating process died before it, a blob written through
   that handle is acknowledged and lost. ADR 0013 leaves the number of rotating
   owners open ("the default is one rotating owner; see open question Q3"): with
   one owner it holds, as proved below.
2. *An append extends another writer's record* (`audit_second_writer`). ADR 0010
   says that each append "rejects a persisted chain whose final hash differs from
   the hash captured at open time". `append` accepts a log that is longer by one
   record. The test `concurrent_audit_appenders_serialize` relies on it, and so
   does a sole writer whose `sync_all` failed after its record was written: rejecting
   that record would make its handle stale with no other writer, against
   `StaleMeansOvertaken`.
3. *A failure that is not recorded* (`export_unrecorded`). Addendum B of the
   specification says "Export failure MUST be recorded via EXPORT_BLOCKED [...] or
   EXPORT_FAILED". An error of the preflight, of reading the log, or of removing
   a rejected archive leaves `export_run` through `?` with neither: the log still
   takes records, the run stays in `EVALUATING` or `EXPORTING`, and a further call
   can only be refused. In the desktop command the log goes away with the runtime directory, so
   the error it returns is the only trace.

Under a non-atomic downgrade the first finding has a second form: a creator that
drops its exclusive lock may be overtaken by a rotation of another instance before
it holds the shared one. The hypothesis `OneOwner` below covers both.

What else the models show, against which nothing in the repository speaks:

* In `verify_actual_decompressed_sizes` the branch for TOTAL_SIZE_LIMIT cannot be taken:
  no entry gets past the pass with more than it declares, and what is declared was
  within the total (`PhaseOK` of `ArchiveLimitsProofs`).
* Some checks of the final validation are behind no gate: the layout of the archive
  and the table of hashes; and under DRAFT_ONLY several others are not asked about.
  The manager can permit and build an archive that its own validator then
  rejects; it is discarded.
  The last part of `EvaluationCarriesOver` says that nothing else can have this
  effect, as long as the preflight archive had the manager's log in it.
* It need not: the preflight is built of the caller's inputs (`manager.rs:103`), whose
  copy of the log nothing compares with the log itself, while the archive that is
  validated embeds what `read_all_ndjson` returned. With a copy that is stale or
  different, the two gates that read events (`EVIDENCE_AUTHORITY`, `VAULT_CRYPTO`) may pass in
  the preflight and fail in the end, after the export was permitted. The desktop command
  gives the manager the log as it is.
* A desktop export with a sensitive tag is always blocked: its policy is STRICT, and
  the redactions map it makes is empty.
* `policy_mode` of the policy snapshot in a bundle is compared with nothing.
* A key file that a crash left short is rejected by every later call, and no call
  replaces it.
* A key that was returned may be lost: its file was synced and its name in the directory
  was not (`key_management.rs:245-268`, on Windows `360-380`). The next call that creates draws
  another key, and what was encrypted under the first, the data keys of a vault
  created with it among them, cannot be decrypted any more. `OneKek` holds of the keys that
  are not `gone`.
* A caller that dies between `write_all` and `sync_all` leaves a whole file that nobody
  syncs later. Others load and return its key, and a loss of power may still cut it
  short, which no call repairs: `WholeOrGone` holds of keys whose makers returned.

## 5. What is proved

Proofs hold for every value of the constants: any sets of instances, blobs, values
and events, any bound on generations and records, any registry of gates, any
content of archives, any limits, any number of callers and exports. Every
invariant that a passing run checks is stated by a theorem, and so are its action
properties and refinements. The proofs rest on the named assumptions `VaultAssumption`, `AuditAssumption`,
`ExportAssumption`, `DayAssumption`, `ReviewAssumption`, `LimitsAssumption`,
`ArchivesAssumption`, `KeksAssumption`, `MaxCallsAssumption` and `RunsAssumption`
(subsets, naturals, Booleans, limits that are less than the largest number).

### Vault (`VaultProofs`)

`TypeCorrect` and `NoLockLeftBehind` need nothing more. The others assume `OneOwner`: all instances in
`Owners` are one. `Owners` are the instances that rotate and, when the lock
conversion is not atomic, those that create: the instances that are ever open
without a lock.

The invariant `NoLostBlob` is not inductive: it says nothing of handles or of the
staged generation. `IInv` adds

* `LockInv`: an exclusive lock excludes all others; a call inside a creation or a
  rotation holds it; an instance that is open and no owner holds a lock. From
  this and `OneOwner`, whoever else is open when a rotation publishes would hold a
  lock, which contradicts the exclusive one.
* `FreshInv`: nothing on disk bears a number not drawn yet, so a staged generation
  is new and nothing refers to it.
* `VaultInv`: before the configuration is written the vault is empty; from then
  on the active generation can be opened and is `Whole`: it holds every
  acknowledged blob once, under the wrapped key.
* `HandleInv`: the cached generation and key of an open handle are the active ones.
* `StageInv`: a staged generation is as whole as the one it was copied from, under
  the old key before the re-encryption and the new one after.

| Theorem | Statement |
|---|---|
| `TypeCorrect` | `Spec => []TypeOK` |
| `Invariant` | `Spec => []IInv` |
| `BlobsSafe` | `Spec => []NoLostBlob` |
| `HandlesSafe` | `Spec => []HandlesCurrent` |
| `RotationAlone` | `Spec => []SoleOpenInstance` |
| `PublishedWhole` | `Spec => []ActiveGenerationWhole` |
| `KeysKept` | `Spec => KeyStateKept` |
| `Refinement` | `Spec => ImplementsStore` |
| `NoLockLeftBehind` | `Spec => []LockReturned` |

`Refinement` maps what is stored to what a fresh open would read. `IInv` says that every
acknowledged blob can be read; the mapping needs the converse, `FilesAcked`: a file is an
acknowledged blob or a copy of one, which no rotation, crash or failed cleanup
changes. Together (`StoreIsAcked`) the store and the view of every open handle are
`acked`, so that only `BlobPublish` moves the store, and what opens or closes a handle
opens or closes a session. `LockReturned` is the safety that `OpenReturns` rests on: what an
open waits for is held inside a call, unless the last `lock_shared` of a `rotate_dek`
failed.

### Audit log (`AuditProofs`)

`AuditInv` strengthens the chain property to `PrefixInv`, in which the previous
hash of a record is the sequence of all events before it, so that an
acknowledged hash determines the log up to its record. `LockInv` (one writer
inside the lock), `WriteInv` (between its check and its sync a writer knows the
tail) and `KnownInv` (nobody knows more than there is) carry it through the steps.

| Theorem | Statement |
|---|---|
| `TypeCorrect` | `Spec => []TypeOK` |
| `Invariant` | `Spec => []AuditInv` |
| `OneChain` | `Spec => []ChainValid` |
| `AckedDurable` | `Spec => []AckedKept` |
| `TornStays` | `Spec => TornNeverExtended` |
| `StaleIsOvertaken` | `Spec => StaleMeansOvertaken` |
| `Refinement` | `Spec => ImplementsTrail` |

### Export run (`ExportProofs`)

None of the properties is inductive: each speaks of an end (a completion, a
failure, an answer) and rests on what was established many steps before.
`ExportInv` says what is known at each point of `export_run`:

* `AppendInv`: a written record that was not acknowledged yet is the last one, and
  no acknowledged log is as long; so acknowledgements never repeat.
  (It and the two next ones are stated so that they hold for a caller that appends to
  the log before the call, as the desktop command does.)
* `StateInv`: the state at each point, and at the three points after a transition
  the state that its append will bring.
* `FreshInv`: no result of a gate is recorded before the evaluation. A call
  after a broken off one cannot pass its first transition, so results never mix.
* `GateInv`: recorded results are the results decided on, and before EXPORTING all are.
* `BundleInv`: the evidence in the part of the log that was read, where directory
  and ZIP hold it, and that the digest named is that of the ZIP that was validated.
* `EndInv`: after EXPORT_COMPLETED or EXPORT_FAILED a call can only be at its entry
  or its end, where nothing touches the archive.
* `OutcomeInv`: what the call will return, and the records that come with it.

The proof takes one lemma per part and in it one step per action. `StepKinds`
reduces what a step does to the log to four cases; `Grown`, `Kept` and `Monotone`
say what an append does to the set of records and to its prefixes.

| Theorem | Statement |
|---|---|
| `TypeCorrect` | `Spec => []TypeOK` |
| `Invariant` | `Spec => []ExportInv` |
| `CompletedIsThere` | `Spec => []CompletedArchive` |
| `EvidenceEmbedded` | `Spec => []EmbeddedEvidence` |
| `ExportingPermitted` | `Spec => []GatesPermit` |
| `StateRecorded` | `Spec => []StateFollowsLog` |
| `FailureClean` | `Spec => []FailureLeavesNothing` |
| `OutcomeTrue` | `Spec => []OutcomeHolds` |
| `EndsOnce` | `Spec => []RunEndsOnce` |

`RunEndsOnce` needs, beside `EndInv`, what `BlockedInv` says of a call once EXPORT_BLOCKED is
recorded: it is at an entry, where it can append its request and then no transition,
or on its way to FAILED.

### Export command (`ExportCommandProofs`)

Two invariants. `CommandInv` is about the answer: `ArchiveInv` (where the archive is
the directory, where its digest is named, where it is validated and recorded, within
one call of `export_run`), while the output still stands, and `ReplyInv` (what the
command will answer at each point, and what it has made by then).

`RunInv` carries what is known of the run through the command. `ExportInv` survives the
two events that precede the call (`PolicyKeeps`) and the reservation of the output
(`ReserveKeeps`), and the steps of `export_run` by `StepExportInv`, until the guard drops
the output; dropping it contradicts what `ExportInv` says of a completed export, but not
the four properties of `Lasting`, which speak of the log or hold of an absent archive.
What the export promises on its own it thus promises inside the command, except
`CompletedArchive` and `OutcomeHolds`: an export that was recorded as completed is removed
when its authority cannot be read (`ReadAuthorityFails`), as the command then answers
with an error.

| Theorem | Statement |
|---|---|
| `CommandTypes` | `CommandSpec => []CommandTypeOK` |
| `OkKept` | `CommandSpec => []OkIsKept` |
| `ErrorsLeaveNothing` | `CommandSpec => []ErrorLeavesNothing` |
| `ForeignFilesKept` | `CommandSpec => []ForeignFileKept` |
| `CommandEvidence` | `CommandSpec => []EmbeddedEvidence` |
| `CommandPermitted` | `CommandSpec => []GatesPermit` |
| `CommandState` | `CommandSpec => []StateFollowsLog` |
| `CommandFailure` | `CommandSpec => []FailureLeavesNothing` |

### Bundle review (`BundleReviewProofs`)

The content of a bundle has no type that a proof could use: the theorems about
archives that pass hold for whatever inputs and archives there are. Those about an
export know only which files and fields the inputs have (`InputsTyped`), which every
caller's inputs and every variant of them do. Three invariants carry the theorems.

* `ReviewInv` adds `VerdictIsCurrent` to the types: a verdict is about the archive
  there is, and what was shipped passed under the policy. From what a pass says of an
  archive (`PassChecks`, `PassMeans`, `AcceptedReport` and the lemmas beside them) follow
  `PassCarriesReport` and, comparing two archives that pass with the same authority,
  `EditDetected` and `AuthorizedMeansShipped`.
* `CarryInv`: the results are those of the preflight archive (`ResultsAreOfPreflight`); the
  archive that would be built now is alike it, and its log, if the copy was current,
  the one that was evaluated with the records of the export behind it; the report was
  made of these results (`ReportIsOfResults`); an archive that was built carries the
  report and the log there is (`BundleCarriesReport`). `Alike` archives differ in the log, the
  report and the manifest, and in the manifest in no more than the digest of the log and the status
  of the gates.
* `DecisionInv`: the manager goes on only if no blocker failed, and rejects only what does
  not pass.

`EvaluationCarriesOver` then takes one lemma per kind of check on what alike archives
share: files (`AlikeFiles`), the manifest (`AlikeRun`), claims (`AlikeClaims`), the chain
(`ChainPasses`), and for the two checks that read events that the records of an export change
neither (`AuthorityCarries`, `VaultCryptoCarries`); `ChecksCarry` puts them together. That the
report is accepted is `ReportMirrors`. If the archive is rejected although the
report is accepted, some check fails (`NotPassed`); were it behind a gate of the policy, that
gate would have failed in the preflight, and, being a blocker, the export would have
been blocked (`PassOrFail`, `NoBlockerNoFail`).

`NoLiveEgressClaimed` uses the same invariant: the gate of the allowlist passes no log that the
authority contract accepts (`NothingObserved`): where it passes, the gate of the
authority, a blocker, fails, and no such report is accepted.

`PassCarriesReport` has a proof and no run: it holds of whatever archive passes.

`PolicyMonotone` is proved gate by gate: a stricter policy has the gates of a laxer one
(`LaxerGates`), each check behind a gate is as strict under it (`LaxerChecks`),
so results, report and decision follow (`LaxerResults`, `LaxerPermits`).

| Theorem | Statement |
|---|---|
| `ReportMirrors` | a report made of accepted results is accepted by the validator exactly when no blocker failed |
| `ReviewTypes` | `Spec => []ReviewTypeOK` |
| `ReportCarried` | `Spec => []PassCarriesReport` |
| `EditsDetected` | `Spec => []EditDetected` |
| `AuthorizedAsShipped` | `Spec => []AuthorizedMeansShipped` |
| `EvaluationCarries` | `Spec => []EvaluationCarriesOver` |
| `NoLiveEgress` | `Spec => []NoLiveEgressClaimed` |
| `StricterPermitsLess` | `Spec => []PolicyMonotone` |

### Archive limits, key store, window

* `ArchiveLimitsProofs`: `WorkBounded` needs `SumsOK` (the sums of what the
  headers declare, in the order of the loop) and `PhaseOK` (an entry that passes has
  produced no more than it declares, so the bytes produced never overtake the sums).
  Theorems `ArchiveTypes`, `ArchiveWorkBounded`.
* `KeyStoreProofs`: `KeyInv` adds `PlacesOK` (who works on which store, and has drawn a
  key), `WriterOK` (the file that is being written is its creator's, alone), `FreshOK` (a key
  that is being stored was never returned) and `MadeSynced` (a file that holds a key its
  maker returned was synced). Theorems `KeyTypes`, `KeySafety` (`OneKek`) and
  `KeyFileWhole` (`WholeOrGone`). They assume nothing of directories.
* `DesktopAppProofs`: `LockOK`, by which lock, state and what is in flight agree, and
  what is in flight is the last export started. Theorems `AppTypes`, `AppSafety`, and
  `LockHeld`: the lock is set exactly while an export is in flight, which is the
  safety that `ButtonReturns` rests on.

### Model-checked only

`OpenReturns` and `ButtonReturns`: liveness is out of the prover's reach, for it needs
ENABLED. What they rest on that is safety is proved (`NoLockLeftBehind`, `LockHeld`). The
violations of section 4 are counterexamples, which there is nothing to prove about.

## 6. What is not modelled

* *Builder*: the containment of paths and the rejection of symbolic links. They only
  make a build fail, and every build may fail in `ExportRun`.
* *Export command*: the cached hash of the executable, and the death of the process: a
  crash after the reservation leaves an empty file in a temporary directory, which
  nothing cleans up.
* *EvidenceOS workflow*: how documents are rendered. *Determinism*: canonical JSON and the
  derivation of identifiers; equal values have equal bytes.
* *Parsing* of JSON, CSV, Markdown and timestamps. A file parses or it does not.
* *Network policy*: `egress.rs` and `allowlist.rs` decide one request without state,
  and no export calls them. *Adapters*: one exchange over HTTP without retained
  state. What can be wrong in these is the content of one value, which tests reach.
* *Evidence authority*: its copy in the user interface (`authorityIntegrity.ts`) and
  the command that hashes for it. *Desktop UI*: the layout and the notice.
* *Cryptography*: a ciphertext decrypts under its own key only.
* *Vault*: loss of power, a torn `key_state.json`, and partly
  removed generations. A creation that dies between its key state and its
  configuration leaves a directory that can be neither created again nor opened;
  the model reaches it, and nothing in the repository promises otherwise.
* *Logging, build provenance*: support without a protocol of its own.

## 7. Plan

Done: the vault, the audit log and their abstract specifications; the export by its
steps (`ExportRun`, `ExportCommand`) and by its content (`BundleReview` and what it
extends); the limits of the validator; the key store; the window; the proofs of section 5.

Left, in this order:

1. A vault with loss of power: what `sync_all` and the directory syncs have to
   cover between staging and publishing a generation.
2. The containment of paths in the builder, with another process that replaces
   directories by links between the check and the use.
