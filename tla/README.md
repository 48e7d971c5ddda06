# A TLA+ model of anp-identity

`anp-identity` keeps decentralized identities (DIDs), their private keys and the
local revisions of their DID documents in a directory, the *store*, that several
processes share. This directory holds TLA+ modules that model it, the TLC
configurations that check them and TLAPS proofs about them. `PROJECT.json` maps
every definition to the source lines it models and lists components, runs,
hazards, findings and theorems.

## The system and its parts

| Part | Source | Model |
|---|---|---|
| Store, registry, records, secrets, lock, recovery | `registry.rs`, `identity.rs`, `keystore.rs`, `store_lock.rs`, `fs_util.rs` | `IdentityStore` |
| Namespace deletion | `namespace.rs`, `facade/manager.rs` | `IdentityStore` |
| Document updates | `lifecycle.rs` | `IdentityStore`: states, keys, journals |
| Import and migration | `key_import.rs`, `host/migration.rs` | `IdentityStore`: durable writes |
| Enrollment and adoption | `adoption.rs`, `host/enrollment.rs`, `host/convergence.rs` | `IdentityStore`: states, writes |
| Root transfer | `root_transfer.rs`, `host/root_transfer.rs` | `IdentityStore`: store side |
| Document change sessions | `facade/document_change.rs` | planned |
| Identity transition | `facade/identity_transition.rs`, journals in `registry.rs` | `IdentityTransition` |
| Provider authorization, sealed handoff | `host/provider_authorization.rs`, `host/sealed_handoff.rs`, `bindings/node/provider.js` | planned |
| DSH authorization engine, catalog, service | `packages/dsh-anp-identity/src` | planned |
| Signing, key agreement, proofs | `crypto_ops.rs`, `document.rs`, `host/*_signing.rs` | role matrix planned; cryptography left out |
| Bootstrap, root key custody, bindings, UI | `store.rs`, `platform.rs`, `bindings/node`, `client/` | left out: platform I/O, type conversion, presentation |

Every operation goes through the store. A `DidStore` caches the generation of
`registry.json`; a `DidIdentity` caches a whole record. A mutation takes the
cross-process lock, compares the cached generation with the disk (`Conflict` if
they differ) and makes several atomic file writes. A journal written first and
removed last lets `recover()`, which runs on every open and reload, undo or
complete what a crash cut short. Store operations journal in `transactions/`,
document updates in `update-transactions/`.

## Modules

* `IdentityStore` - the specification and its properties.
* `MCIdentityStore` - the finite sets and the symmetry of the TLC instances.
* `IdentityStoreInv` - the inductive invariant and the lemmas on handlers that
  start or make a single write.
* `IdentityStoreWrites` - each durable write of a handler preserves it.
* `IdentityStoreReplays` - each step of a recovery preserves it.
* `IdentityStoreProofs` - opening, reloading, crashes, `Next`, and the theorems.
* `IdentityTransition`, `MCIdentityTransition`, `IdentityTransitionProofs` - the
  cross-DID transition sessions: specification, TLC instances, theorems.

### State

| Variable | Code |
|---|---|
| `registry` | `registry.json`: generation and, per DID, the `IdentitySummary` |
| `identities` | `identities/<id>.json`: the `IdentityRecord` |
| `secrets` | `records/`: per identity and key id, whose key material is sealed |
| `transactions`, `updates` | `CreationJournal` and `UpdateJournal` files |
| `op` | the handler or recovery that holds the lock, and its next write |
| `mode` | what a process does with its store handle (down, up, reading the registry after a recovery, opening an identity in order to delete it, ...) |
| `view`, `held` | `DidStore.registry_generation`, `DidIdentity.record` |

Data is reduced to what the properties distinguish. A key is its fragment plus
its *material*: `Original`, or the revision id of the rotation that generated it,
so that a secret holding another key than the record names is visible. A
document is not represented; a pending revision remembers whether its
`parent_revision` is still the record's revision (`based`). Public keys of other
devices (`KeyOrigin::External`) are left out except the root key, which a root
transfer turns into a managed one. `identity_id`s, transaction ids and revision
ids are random in the code and fresh here; transaction and revision ids are
numbers because recovery replays journals in file name order, and any fresh
number may be drawn.

### Actions

A handler is one action that takes the lock, evaluates all of its guards and
notes in `op` what it is going to write, then one action per durable write in
the order `Order` gives (`journal`, `seal`, `record`, `registry`, `activate`,
`unjournal`; `drop` for deletions and aborts). `Finish` removes the journal,
releases the lock and refreshes the caller's handle. Handlers whose only write
is the record (`TransitionPublication`, `CommitPending`,
`AdoptVerifiedSiblingDocument`) are single actions (`PersistRecord`). A handler that is refused changes nothing and has no
action of its own, except where the refusal ends a sequence (`DeleteRefused`).

`recover()` has no program counter: each replay step is guarded by what is on
disk, because the code's replay does again only what is not yet done. The steps
are `ReplayDropSecret`, `ReplayRemoveIdentity`, `ReplayDeregister`,
`ReplaySync`, `ReplayActivate`, `ReplayForget` for transactions and
`ReplayClearPending`, `ReplayDropPendingSecret`, `ReplayForgetUpdate` for
updates; `RecoveryFails` is the error a missing record causes. The registry is
read after the lock is released (`ReadRegistry`), as in the code.

`Crash` may strike at any point, frees the lock and loses the process's
handles. `IoError` is a write that fails in a process that goes on.

`open_identity` reads two files without the lock. It is one action: the record's
state never lags behind its summary, so a pair of reads that the code accepts is
one that a single read at the later moment accepts.

### Identity transitions

A transition publishes, for a predecessor DID, a deactivated document that names
a successor DID. `IdentityTransition` models its journal files
(`identity-transitions/`), the sessions that carry a copy of a journal, the
publication attempts handed to the host, and the remote registry. A handler that
writes holds the store lock and makes one write, so it is one action: `Prepare`
and `ReplayPrepare` (the two answers of `prepare_identity_transition`),
`BeginPublication`, `CompleteConfirmed`, `CompleteRejected`, `CompleteUnknown`,
`Reconcile`. `resume_identity_transition` reloads under the lock
(`ResumeReload`) and then lists the journals without it: a journal it returns is
the one that was open when its file was read (`Resume`), and when two
transitions of the DID were open, one after the other, since the call began, it
may see both or neither (`ResumeRaced`; the call remembers in `settled` which
journals were closed before it, so that a call that starts afterwards does not
race with them again). `Restart`
loses a process's session between any two of them. A journal is never removed and its documents never change, so the
operation id stands for the candidate and its digests; a session or an attempt
is the operation id and the journal generation it was made at (`Stamp`). The
code compares digests: it cannot tell two operations with the very same
documents apart, and such operations are one operation here. The constant
`Moves` says which transitions hosts ask for.

The host and the remote are external. A host may send the candidate of any
attempt it holds, at any time (`Send`); the remote accepts a request late or
never (`Accept`), and only while the predecessor is active under the trusted
document and the successor serves the candidate's document. A reading of the
remote (`Observe`) is used by `Reconcile` and by convergence at any later time.
Hosts are taken at their word in two places where the code takes them at their
word: evidence names something the remote accepted, and
`RejectedBeforeAcceptance` is not reported for an operation that was accepted
already. It may still be accepted afterwards, when another request of the same
operation is on its way.

Other handlers of the store matter through the record generations that a journal
pins. `AdoptSiblingDocument` looks at the journals; `ChangeRecord` and
`DeleteIdentity` stand for those that do not, and are switched by the constant
`OtherChanges`. With them, a pinned record can move: every later call of the
session is then refused and the journal goes on blocking its DID. Convergence
writes a new generation also when only the registry version advanced and the
document is the same.

## Runs

| Run | Instance | Checks | Result |
|---|---|---|---|
| `restart` | 1 process, a WBA and a Web DID, 1 transaction id, 2 revisions, generations to 6, fairness | `KeysHaveSecrets`, `RecoveryNeverStuck`, `InFlightIsKept`, `StoreReopens` | holds |
| `retry` | 1 process whose writes may fail, 2 transaction ids, 2 revisions, generations to 3 | `RegistryAgreement`, `SecretsAccountedFor`, `OnlyDeletionRemoves` | holds |
| `multi` | 2 processes, 2 transaction ids, 1 revision, generations to 3 | `RegistryAgreement`, `HandleCoherence`, `RootKeyHasSecret`, `RecordGenerationAdvances` | holds |
| `transition` | 1 process, 2 operations, other handlers, sibling devices publish, journal generations to 4, record generations to 2 | `CommittedWasPublished`, `CandidateIsCurrent` | holds |
| `sessions` | 2 processes, 2 operations, journal generations to 4 | `NoForks` | holds |
| `converge` | 1 process, 2 operations in either direction, sibling devices publish, journal generations to 4 | `OpenTransitionsPinned` | holds |
| `uncertain` | 2 processes, 2 operations, journal generations to 5, fairness for one of them | `AttemptsFenced`, `UncertainIsReconciled` | holds |
| `overtaken` | 1 process, 1 operation, other handlers, sibling devices publish, journal generations to 4, record generations to 2, fairness | `UncertainIsReconciled` | holds |
| `lost_secret` | 2 processes | `KeysHaveSecrets` | violated |
| `stuck_recovery` | 2 processes, 2 transaction ids | `RecoveryNeverStuck` | violated |
| `dropped_in_flight` | 2 processes | `InFlightIsKept` | violated |
| `orphan_secret` | 1 process | `NoOrphanSecrets` | violated |

The type invariants are proved and not repeated in the runs. A single process
that crashes and restarts recovers before it does anything else, and then
everything holds. Two processes may work beside each other's left-over journals:
the secret of a rotated key can be lost then (`lost_secret`), that of the root
key cannot (`RootKeyHasSecret`), because the replay of a `RootImport` takes every
state that a later handler leaves the imported root in for an import that
happened. The four violations need a left-over journal
that somebody works beside, or a discarded rotation:

* **lost_secret** - a process dies after `prepare_update` wrote the record and
  before it removed the Prepare journal. Another process publishes and commits
  the update. The next recovery sees that the revision is not pending, takes the
  prepare for incomplete and deletes the secret of the committed key.
* **stuck_recovery** - a process opens or reloads the store; after its recovery
  has released the lock and before it reads the registry, an enrollment of
  another process writes the registry and dies, leaving its Create journal. The
  first process, whose generation is current, discards or deletes the identity
  (`delete` reloads first, and this reload may be the one above) and dies after
  removing the record. If the Create journal sorts first, recovery wants its
  record, fails, and fails again on every later open.
* **dropped_in_flight** - `abort_update` dies after writing the Cleanup journal.
  Another process, whose handle is still current, begins the publication;
  recovery then completes the abort.
* **orphan_secret** - deletion with `discard_pending_changes` removes the secrets
  of `record.keys`; the key of the pending rotation is not among them.

### Bounds

Two transaction ids allow one left-over journal beside a working handler, in
both sort orders; two revisions allow a rotation after an aborted or committed
one. `MaxGeneration` bounds both generation counters: 3 allows creation followed
by two more changes of the record, 6 a complete prepare, publish, uncertain,
reconcile and commit. One identity id per instance suffices for interference
through a DID or a key, because journals, secrets and records are all keyed by
the identity; what two identities share, the registry file and the order of
journals, is covered by the proofs. With one id an identity is created again
only after everything of the previous one is gone (`FreshId`). Deadlock is
checked in every run: a process can always crash and reopen. `multi` and the
violations use symmetry of the processes; `restart`, which checks a liveness
property, uses none.

All runs of transitions have two DIDs. A journal reaches generation 4 with an
unknown result that is reconciled and 5 with the publication begun again, when
late attempts of the first one exist; it is uncertain at generation 3 only, so
that the bound never stops a reconciliation. Two operations allow a second
transition of the same predecessor after an aborted one; `converge` has both
directions, the other runs one. `MaxVersion` is 2 where records or documents
change: one change is enough to invalidate a pin or a reading. `transition`,
`sessions` and `converge` use symmetry of processes and operations, `converge`
of the DIDs too. In `uncertain` only one process resumes and reads the remote
(`InScope`); the other one prepares, publishes, answers and restarts beside it,
which is what can disturb the first.

### Fairness

`restart` assumes weak fairness of the writes of the lock holder and of recovery
(code that runs to its end unless the process dies), of opening a store that is
down (the host restarts its service) and of the read that ends a recovery.
Nothing is assumed about handlers being called. Processes may die during
recovery any number of times; `StoreReopens` speaks of behaviours in which they
eventually stop dying. An open that fails leaves the same state as a crash
during the open, so `Interrupted` excludes the failure explicitly: a store whose
every open fails violates the property.

`uncertain` and `overtaken` assume of a host (`GoesOn`) that its calls of resume
return and that it reads a remote document again that has changed (weak
fairness). Calling resume for a DID with an uncertain transition it has no
current session of, and calling reconcile with a session, are strongly fair: a
manager serves one call at a time and a session may be replaced by one of
another operation in between, but a host that keeps calling gets to both.
Nobody has to publish, answer or accept, and processes may restart as long as
they eventually stop.

`UncertainIsReconciled` has two exceptions (`OutOfReach`), both of which the
runs need. A pinned record moved: every call of a session then gets `Conflict`.
Or the remote serves neither the trusted document nor this transition's
documents, which are all that `reconcile` accepts: somebody published another
document, or an earlier transition of the predecessor, rejected and aborted
here, was accepted late while the next one was uncertain.

## Proofs

`IdentityStoreProofs` proves, for all values of the constants that satisfy
`ConstantsAssumption` and `NoneAssumption`:

* `TypeCorrect` - `TypeOK` is an invariant;
* `RegistryAgrees` - `RegistryAgreement`: a record that is not listed, a listed
  identity without a record and a summary that differs from its record are each
  covered by a journal whose replay repairs it;
* `HandlesCohere` - `HandleCoherence`: equal generations mean equal records;
* `ListedRecordsStay` - `OnlyDeletionRemoves`;
* `GenerationsAdvance` - `RecordGenerationAdvances`.

The assumptions say that the sets of fragments are disjoint, ids are naturals
and `None` is not a value of a record type.

`RegistryAgreement` is not inductive: nothing in it says why a handler that is
about to remove its journal leaves agreement behind. `IndInv` adds, in named
parts, what is true of the handler holding the lock at each stage
(`ProvisionStages`, `DeleteStages`, `IdentityStages`, `UnjournalStage`), that its
journal exists and is its own (`JournalKept`), that an id is connected with one
DID only (`OneDidPerId`), that nobody holds or transitions a record in state
Creating (`CreatingIsHidden`) and that held or journalled records are listed
(`HeldIsListed`). The last two carry the argument against foreign left-over
journals: a Create journal found by recovery either belongs to an unlisted
identity nobody holds, or its replay is harmless. The proof has one lemma per
write and per replay step; steps that behave alike are grouped first
(`Started`, `Persisted`, `AdvancePreserves`). `IndInv` was checked with TLC on
the instances of `restart`, `retry` and `multi` before it was proved.

`IdentityTransitionProofs` proves `TypeCorrect`, `TransitionsNeverFork`
(`NoForks`), `LateAttemptsRefused` (`AttemptsFenced`), `CommitsArePublished`
(`CommittedWasPublished`) and `CandidatesStayCurrent` (`CandidateIsCurrent`) for
all values of the constants. The inductive invariant adds `RemoteHistory`:
requests and acceptances belong to journals, a moved DID was moved by an
accepted operation, and readings of the remote, however old, show accepted
operations only. Without it a commit by `Reconcile` could not be traced back to
an acceptance. All handlers of a session write through `Advance`, so one lemma
(`AdvancePreserves`) covers their five writes.

`CandidateIsCurrent` is about what `reload_and_validate` does not compare: it
looks at generations, and the candidate was made from documents. The proof adds
`PinsExact`: the record of either role of any journal, open or closed, is gone,
at a later generation than the pinned one, or at the pinned generation with the
pinned document. It is kept because every handler that replaces a record, also
those that ignore transitions, writes the next generation (`RecordsAdvance`),
and a journal is only written by a session that found both generations
(`JournalsAdvance`).

Only model-checked: `KeysHaveSecrets`, `RootKeyHasSecret`, `SecretsAccountedFor`,
`RecoveryNeverStuck` and `InFlightIsKept`; the first, fourth and fifth hold only
when every interruption is followed by a recovery before other work.
`OpenTransitionsPinned` is checked where convergence is the only other handler
that changes records (`OtherChanges` is false); it states the comment at
`adoption.rs:531` and is false beside the other handlers. `StoreReopens`
and `UncertainIsReconciled` are liveness properties under fairness, which TLAPS
does not handle.

## What is not modelled

Encryption, JSON and file permissions: a file is absent or holds a value.
`mark_published`, `commit_update`, `end_retirement` and `delete_revoked_key` are
compiled only for tests, so the state `Published` and erased key material never
arise and are absent here. Versions, digests and proofs of documents, device
manifests and the contents of root transfer envelopes are left to the modules
below. The power-failure semantics of `rename` without a directory sync is not
considered: `write_atomic_private` is one step.

## Plan

1. *Document change* - sessions, a remote registry that may lose, delay or
   repeat answers, and reconciliation; an abstract specification "the committed
   document is one that was published" and a refinement. Constants: operations,
   versions. Theorem: no key of a published document is retired by an abort.
2. *Adoption and devices* - checkpoints, the first-publication exception, device
   retirement. Theorems: checkpoints never go back; a retired device stays
   retired.
3. *Root transfer* - two devices, envelopes that are duplicated or late, the
   replay table at its bound.
4. *Provider authorization and sealed handoff* - leases, one-time tokens, time.
   Theorem: a token is consumed at most once.
5. *DSH engine and catalog* - requests, grants, executions, tombstones; composed
   with an abstract store for create, delete and recover.
6. *Roles* - which key may sign what, as operators checked against a reference.
7. *Abstract store* - identities appear and disappear atomically; `IdentityStore`
   without left-over journals refines it. Theorems: `SecretsAccountedFor`, and
   `KeysHaveSecrets` and `RecoveryNeverStuck` for stores in which no handler
   starts beside another's journal.
