---------------------------- MODULE IdentityStore ----------------------------
(***************************************************************************)
(* The on-disk identity store of crates/anp-identity: registry.json, the   *)
(* identity records, the sealed secrets and the two journal directories,   *)
(* written by several processes under one exclusive file lock.             *)
(*                                                                         *)
(* Every file write is atomic (write_atomic_private), and every handler    *)
(* makes several of them while it holds the lock.  A handler is therefore  *)
(* an action that takes the lock, evaluates the handler's guards on the    *)
(* disk and records in "op" what the handler is going to write, followed   *)
(* by one action per durable write, in the handler's order (Order).  A     *)
(* process may crash, and a write may fail, between any two of them.       *)
(***************************************************************************)
EXTENDS Integers

CONSTANTS
    Procs,          \* holders of a store handle: processes, or threads of one
    Dids,           \* DIDs
    WbaDids,        \* the DIDs whose method has a root control key
    Ids,            \* identity ids (random_id)
    TxIds,          \* transaction ids: the sort order of transactions/
    Revs,           \* revision ids: the sort order of update-transactions/
    RootKid,        \* the fragment of the root control key
    DeviceKids,     \* the fragments of the local device's key pair
    SigningKids,    \* the fragments of request signing keys
    CreateKeySets,  \* the non-root key sets a create request may ask for
    None,           \* an absent file, field or handle
    IoErrors,       \* whether a durable write may fail without a crash
    MaxGeneration   \* bound on the two generation counters (u64 in the code)

Kids == {RootKid} \cup DeviceKids \cup SigningKids

\* The material of a key that was not made by a rotation; a rotation's key is
\* told apart by the revision id that generated it.
Original == 0
Materials == {Original} \cup Revs

IdentityStates == {"Creating", "Enrolling", "Active", "Revoked"}
RootStates == {"Absent", "Pending", "Active"}
KeyStates == {"Pending", "Active", "Retired", "Revoked"}
PublicationStates == {"Prepared", "InFlight", "Uncertain"}

KeyMetadata == [material : Materials, state : KeyStates, managed : BOOLEAN]

\* based: parent_revision is still the record's revision.
PendingRevision ==
    [rev : Revs, state : PublicationStates, based : BOOLEAN,
     new : SUBSET SigningKids, old : SUBSET SigningKids]

IdentityRecord ==
    [did : Dids, gen : Nat, state : IdentityStates, root : RootStates,
     keys : [Kids -> KeyMetadata \cup {None}], local : SUBSET Kids,
     pending : PendingRevision \cup {None}]

IdentitySummary == [id : Ids, state : IdentityStates, root : RootStates]

CreationJournal ==
    [tx : TxIds, kind : {"Create", "StateTransition", "RootImport", "NamespaceDelete"},
     id : Ids, did : Dids, kids : SUBSET Kids]

UpdateJournal ==
    [rev : Revs, kind : {"Prepare", "Cleanup"}, id : Ids, kids : SUBSET Kids]

ASSUME ConstantsAssumption ==
    /\ WbaDids \subseteq Dids
    /\ TxIds \subseteq Nat
    /\ Revs \subseteq Nat \ {Original}
    /\ RootKid \notin DeviceKids \cup SigningKids
    /\ DeviceKids \cap SigningKids = {}
    /\ CreateKeySets \subseteq SUBSET (DeviceKids \cup SigningKids)
    /\ IoErrors \in BOOLEAN
    /\ MaxGeneration \in Nat

ASSUME NoneAssumption ==
    /\ None \notin IdentityRecord
    /\ None \notin IdentitySummary
    /\ None \notin PendingRevision
    /\ None \notin KeyMetadata
    /\ None \notin Materials

VARIABLES
    registry,       \* registry.json: [gen, ids : Dids -> summary or None]
    identities,     \* identities/<id>.json
    secrets,        \* records/: per identity and key id, the sealed material
    transactions,   \* transactions/<tx>.json
    updates,        \* update-transactions/<rev>.json
    op,             \* the handler that holds the store lock, or None
    mode,           \* what each process is doing with its store handle
    view,           \* DidStore.registry_generation of each process
    held            \* DidIdentity.record of each process, per identity

disk == <<registry, identities, secrets, transactions, updates>>
handles == <<mode, view, held>>
vars == <<registry, identities, secrets, transactions, updates, op, mode, view, held>>

Init ==
    /\ registry = [gen |-> 0, ids |-> [d \in Dids |-> None]]
    /\ identities = [i \in Ids |-> None]
    /\ secrets = [i \in Ids |-> [k \in Kids |-> None]]
    /\ transactions = {}
    /\ updates = {}
    /\ op = None
    /\ mode = [p \in Procs |-> "down"]
    /\ view = [p \in Procs |-> 0]
    /\ held = [p \in Procs |-> [i \in Ids |-> None]]

-----------------------------------------------------------------------------
(* Reading the disk.                                                        *)

Summary(id, record) == [id |-> id, state |-> record.state, root |-> record.root]

Registered(id, did) ==
    registry.ids[did] # None /\ registry.ids[did].id = id

\* read_identity followed by the callers' check of the DID.
Readable(id, did) ==
    identities[id] # None /\ identities[id].did = did

\* open_identity's conditions on the registry and the record.
Openable(id, did) ==
    /\ Registered(id, did)
    /\ Readable(id, did)
    /\ identities[id].state # "Creating"
    /\ identities[id].state = registry.ids[did].state

PendingIs(record, rev) == record.pending # None /\ record.pending.rev = rev

\* Faulty variant: a root that was promoted meanwhile does not count.
RootImportedPendingOnly(record) ==
    /\ record.root = "Pending"
    /\ record.keys[RootKid] # None
    /\ record.keys[RootKid].managed

\* RootImport recovery's test that the record write happened.
RootImported(record) ==
    /\ record.root \in {"Pending", "Active"}
    /\ record.keys[RootKid] # None
    /\ record.keys[RootKid].managed

\* Managed keys of a record whose material is not erased.
ManagedKids(record) ==
    {k \in Kids : record.keys[k] # None /\ record.keys[k].managed}

\* Random ids: not referred to by any file or handle.
FreshTx(tx) == \A j \in transactions : j.tx # tx

FreshId(id) ==
    /\ identities[id] = None
    /\ \A d \in Dids : ~Registered(id, d)
    /\ \A j \in transactions : j.id # id
    /\ \A u \in updates : u.id # id
    /\ \A k \in Kids : secrets[id][k] = None
    /\ \A p \in Procs : held[p][id] = None

FreshRev(rev) ==
    /\ \A u \in updates : u.rev # rev
    /\ \A i \in Ids, k \in Kids : secrets[i][k] # rev
    /\ \A i \in Ids : identities[i] # None =>
         /\ ~PendingIs(identities[i], rev)
         /\ \A k \in Kids : identities[i].keys[k] # None =>
                                identities[i].keys[k].material # rev
    /\ \A p \in Procs, i \in Ids : held[p][i] # None => ~PendingIs(held[p][i], rev)

\* A new WBA DID is the fingerprint of a new root key; a Web DID is chosen.
FreshDid(did) ==
    \/ did \notin WbaDids
    \/ /\ \A i \in Ids : identities[i] # None => identities[i].did # did
       /\ \A j \in transactions : j.did # did
       /\ \A p \in Procs, i \in Ids : held[p][i] # None => held[p][i].did # did

-----------------------------------------------------------------------------
(* The durable writes of each handler, in order: the stage that follows.    *)

\* Faulty variant: creation lists the identity before its record is written.
CreateOrderRegistryFirst ==
    [journal |-> "seal", seal |-> "registry", registry |-> "record",
     record |-> "activate", activate |-> "unjournal"]

CreateOrder ==
    [journal |-> "seal", seal |-> "record", record |-> "registry",
     registry |-> "activate", activate |-> "unjournal"]

Order ==
    [Create |-> CreateOrder,
     Provision |-> [journal |-> "seal", seal |-> "record", record |-> "registry",
                    registry |-> "unjournal"],
     StateTransition |-> [journal |-> "record", record |-> "registry",
                          registry |-> "unjournal"],
     RootImport |-> [journal |-> "seal", seal |-> "record", record |-> "registry",
                     registry |-> "unjournal"],
     NamespaceDelete |-> [journal |-> "drop", drop |-> "record", record |-> "registry",
                          registry |-> "unjournal"],
     Prepare |-> [journal |-> "seal", seal |-> "record", record |-> "unjournal"],
     Cleanup |-> [journal |-> "record", record |-> "drop", drop |-> "unjournal"]]

UpdateKinds == {"Prepare", "Cleanup"}
StoreKinds == {"Create", "Provision", "NamespaceDelete"}
IdentityKinds == {"StateTransition", "RootImport"} \cup UpdateKinds
WorkKinds == StoreKinds \cup IdentityKinds
Stages == {"journal", "seal", "drop", "record", "registry", "activate", "unjournal"}

\* file: the transaction id or revision id that names the handler's journal;
\* kids: the keys it seals or deletes; record: what it writes, None to remove.
Work ==
    [p : Procs, kind : WorkKinds, stage : Stages, id : Ids, did : Dids,
     file : TxIds \cup Revs, kids : SUBSET Kids, material : Materials,
     record : IdentityRecord \cup {None}]

Modes == {"down", "up", "reading", "rereading", "reopening", "opening", "deleting"}
RecoveryKinds == {"Open", "Reload", "DeleteReload", "IdentityReload"}
Recovery == [p : Procs, kind : RecoveryKinds, stage : {"recover"}]

Start(p, kind, id, did, file, kids, material, record) ==
    op' = [p |-> p, kind |-> kind, stage |-> "journal", id |-> id, did |-> did,
           file |-> file, kids |-> kids, material |-> material, record |-> record]

At(stage) == op # None /\ op.stage = stage

Advance == op' = [op EXCEPT !.stage = Order[op.kind][op.stage]]

-----------------------------------------------------------------------------
(* Store handlers: they compare the handle's registry generation with the   *)
(* registry on disk, and a stale handle gets Conflict.                      *)

StoreCurrent(p) ==
    /\ op = None
    /\ mode[p] = "up"
    /\ view[p] = registry.gen
    /\ registry.gen < MaxGeneration

NewKeys(did, managed, state) ==
    [k \in Kids |->
        IF k \in managed
        THEN [material |-> Original, state |-> state, managed |-> TRUE]
        ELSE IF k = RootKid /\ did \in WbaDids
             THEN [material |-> Original, state |-> "Active", managed |-> FALSE]
             ELSE None]

NewRecord(did, state, root, managed, keyState, local) ==
    [did |-> did, gen |-> 1, state |-> state, root |-> root,
     keys |-> NewKeys(did, managed, keyState), local |-> local, pending |-> None]

\* infer_local_authorization: the device whose whole key pair is managed here.
LocalDevice(kids) ==
    IF DeviceKids \subseteq kids THEN DeviceKids ELSE {}

Provision(p, kind, did, id, tx, managed, record) ==
    /\ StoreCurrent(p)
    /\ registry.ids[did] = None
    /\ FreshId(id)
    /\ FreshTx(tx)
    /\ Start(p, kind, id, did, tx, managed, Original, record)
    /\ UNCHANGED <<registry, identities, secrets, transactions, updates, mode, view, held>>

CreateIdentity(p, did, id, tx, kids) ==
    LET wba == did \in WbaDids
        managed == IF wba THEN kids \cup {RootKid} ELSE kids
        root == IF wba THEN "Active" ELSE "Absent"
    IN /\ transactions = {}
       /\ FreshDid(did)
       /\ Provision(p, "Create", did, id, tx, managed,
              NewRecord(did, "Creating", root, managed, "Active", LocalDevice(kids)))

PrepareEnrollment(p, did, id, tx) ==
    /\ DeviceKids # {}
    /\ Provision(p, "Provision", did, id, tx, DeviceKids,
           NewRecord(did, "Enrolling", "Absent", DeviceKids, "Pending", DeviceKids))

PrepareRequestSigningEnrollment(p, did, id, tx, kid) ==
    Provision(p, "Provision", did, id, tx, {kid},
        NewRecord(did, "Enrolling", "Absent", {kid}, "Pending", {kid}))

ImportDeviceIdentity(p, did, id, tx) ==
    /\ did \in WbaDids
    /\ DeviceKids # {}
    /\ Provision(p, "Provision", did, id, tx, DeviceKids,
           NewRecord(did, "Active", "Absent", DeviceKids, "Active", DeviceKids))

ImportRequestSigningIdentity(p, did, id, tx, kid) ==
    /\ did \in WbaDids
    /\ Provision(p, "Provision", did, id, tx, {kid},
           NewRecord(did, "Active", "Absent", {kid}, "Active", {kid}))

\* import_identity: a full identity with its root key, under a random id.
ImportIdentity(p, did, id, tx, kids) ==
    /\ did \in WbaDids
    /\ Provision(p, "Provision", did, id, tx, kids \cup {RootKid},
           NewRecord(did, "Active", "Active", kids \cup {RootKid}, "Active",
                     LocalDevice(kids)))

\* IdentityManager::delete opens the identity between the reload of the store
\* and the deletion, without the lock.
OpenForDelete(p, id, did) ==
    /\ mode[p] = "opening"
    /\ Openable(id, did)
    /\ mode' = [mode EXCEPT ![p] = "deleting"]
    /\ UNCHANGED <<registry, identities, secrets, transactions, updates, op, view, held>>

Deletable(id, did, discard) ==
    /\ Registered(id, did)
    /\ Readable(id, did)
    /\ identities[id].state # "Creating"
    /\ discard \/ /\ identities[id].pending = None
                  /\ identities[id].state # "Enrolling"
                  /\ identities[id].root # "Pending"

\* delete_identity_namespace_inner with the generation of the reloaded store.
DeleteIdentity(p, id, did, tx, discard) ==
    /\ op = None
    /\ mode[p] = "deleting"
    /\ view[p] = registry.gen
    /\ registry.gen < MaxGeneration
    /\ Deletable(id, did, discard)
    /\ FreshTx(tx)
    /\ Start(p, "NamespaceDelete", id, did, tx, ManagedKids(identities[id]), Original, None)
    /\ mode' = [mode EXCEPT ![p] = "up"]
    /\ UNCHANGED <<registry, identities, secrets, transactions, updates, view, held>>

\* The registry moved by exactly one generation and the DID is not in it: the
\* handler reports success.
DeleteAlreadyDone(p, did) ==
    /\ op = None
    /\ mode[p] = "deleting"
    /\ view[p] # registry.gen
    /\ registry.ids[did] = None
    /\ registry.gen = view[p] + 1
    /\ mode' = [mode EXCEPT ![p] = "up"]
    /\ view' = [view EXCEPT ![p] = registry.gen]
    /\ UNCHANGED <<registry, identities, secrets, transactions, updates, op, held>>

\* The identity does not open, or the deletion gets Conflict, IdentityNotFound or
\* InvalidPublicationState.
DeleteRefused(p, did) ==
    /\ \/ mode[p] = "opening" /\ \A id \in Ids : ~Openable(id, did)
       \/ /\ op = None
          /\ mode[p] = "deleting"
          /\ IF view[p] = registry.gen
             THEN \A id \in Ids : ~Deletable(id, did, FALSE)
             ELSE registry.ids[did] # None \/ registry.gen # view[p] + 1
    /\ mode' = [mode EXCEPT ![p] = "up"]
    /\ UNCHANGED <<registry, identities, secrets, transactions, updates, op, view, held>>

DiscardUnpublishedEnrollment(p, id, did, tx) ==
    /\ StoreCurrent(p)
    /\ Registered(id, did)
    /\ Readable(id, did)
    /\ identities[id].state = "Enrolling"
    /\ identities[id].pending = None
    /\ identities[id].root = "Absent"
    /\ FreshTx(tx)
    /\ Start(p, "NamespaceDelete", id, did, tx, ManagedKids(identities[id]), Original, None)
    /\ UNCHANGED <<registry, identities, secrets, transactions, updates, mode, view, held>>

-----------------------------------------------------------------------------
(* Identity handlers: they compare the handle's record generation with the  *)
(* record on disk, and a stale handle gets Conflict.                        *)

IdentityCurrent(p, id) ==
    /\ op = None
    /\ mode[p] = "up"
    /\ held[p][id] # None
    /\ identities[id] # None
    /\ identities[id].gen = held[p][id].gen
    /\ identities[id].gen < MaxGeneration

\* current_record_for_mutation.
ActiveCurrent(p, id) == IdentityCurrent(p, id) /\ identities[id].state = "Active"

NextGen(record) == [record EXCEPT !.gen = @ + 1]

\* Faulty variant: the record is rewritten under the same generation.
PersistRecordSameGen(p, id, record) ==
    /\ identities' = [identities EXCEPT ![id] = record]
    /\ held' = [held EXCEPT ![p][id] = record]
    /\ UNCHANGED <<registry, secrets, transactions, updates, op, mode, view>>

\* persist_record as the only write of a handler.
PersistRecord(p, id, record) ==
    /\ identities' = [identities EXCEPT ![id] = NextGen(record)]
    /\ held' = [held EXCEPT ![p][id] = NextGen(record)]
    /\ UNCHANGED <<registry, secrets, transactions, updates, op, mode, view>>

\* build_candidate_document loads the root secret of a WBA identity whatever
\* the state of its root capability.
CanSignDocument(id) ==
    identities[id].did \in WbaDids => secrets[id][RootKid] # None

\* prepare_rotation.  The public keys of other devices and hosts (External) have
\* no secret here and are left out, so a change of those, or of the services,
\* has old = new = {}.
Rotatable(record, old, new) ==
    /\ record.keys[old] # None
    /\ record.keys[old].managed
    /\ record.keys[old].state = "Active"
    /\ record.keys[new] = None

PrepareUpdate(p, id, rev, old, new) ==
    /\ ActiveCurrent(p, id)
    /\ identities[id].pending = None
    /\ \/ old = {} /\ new = {}
       \/ \E o, n \in SigningKids :
            old = {o} /\ new = {n} /\ Rotatable(identities[id], o, n)
    /\ CanSignDocument(id)
    /\ FreshRev(rev)
    /\ Start(p, "Prepare", id, identities[id].did, rev, new, rev,
             NextGen([identities[id] EXCEPT !.pending =
                 [rev |-> rev, state |-> "Prepared", based |-> TRUE,
                  new |-> new, old |-> old]]))
    /\ UNCHANGED <<registry, identities, secrets, transactions, updates, mode, view, held>>

TransitionPublication(p, id, expected, next) ==
    /\ ActiveCurrent(p, id)
    /\ identities[id].pending # None
    /\ identities[id].pending.state = expected
    /\ PersistRecord(p, id, [identities[id] EXCEPT !.pending.state = next])

BeginPublication(p, id) == TransitionPublication(p, id, "Prepared", "InFlight")
MarkPublicationUncertain(p, id) == TransitionPublication(p, id, "InFlight", "Uncertain")
RejectPublicationBeforeAcceptance(p, id) ==
    TransitionPublication(p, id, "InFlight", "Prepared")

\* The old document is still published: only a WBA update returns to Prepared.
ReconcileRemoteOld(p, id) ==
    /\ identities[id] # None
    /\ identities[id].did \in WbaDids
    /\ TransitionPublication(p, id, "Uncertain", "Prepared")

\* The keys of a committed update: replaced keys retire, new keys are added.
CommittedKeys(record) ==
    [k \in Kids |->
        IF k \in record.pending.new
        THEN [material |-> record.pending.rev, state |-> "Active", managed |-> TRUE]
        ELSE IF k \in record.pending.old /\ record.keys[k] # None
             THEN [record.keys[k] EXCEPT !.state = "Retired"]
             ELSE record.keys[k]]

\* commit_pending: confirmed while in flight, or observed while uncertain.
CommitPending(p, id) ==
    /\ ActiveCurrent(p, id)
    /\ identities[id].pending # None
    /\ identities[id].pending.state \in {"InFlight", "Uncertain"}
    /\ identities[id].pending.based
    /\ PersistRecord(p, id, [identities[id] EXCEPT !.pending = None,
                                                   !.keys = CommittedKeys(identities[id])])

\* Faulty variant: an abort does not look at the publication state.
AbortUpdateAnyState(p, id) ==
    /\ ActiveCurrent(p, id)
    /\ identities[id].pending # None
    /\ Start(p, "Cleanup", id, identities[id].did, identities[id].pending.rev,
             identities[id].pending.new, Original,
             NextGen([identities[id] EXCEPT !.pending = None]))
    /\ UNCHANGED <<registry, identities, secrets, transactions, updates, mode, view, held>>

\* abort_update: from Prepared, or from Uncertain with a verified rejection.
AbortUpdate(p, id) ==
    /\ ActiveCurrent(p, id)
    /\ identities[id].pending # None
    /\ identities[id].pending.state \in {"Prepared", "Uncertain"}
    /\ Start(p, "Cleanup", id, identities[id].did, identities[id].pending.rev,
             identities[id].pending.new, Original,
             NextGen([identities[id] EXCEPT !.pending = None]))
    /\ UNCHANGED <<registry, identities, secrets, transactions, updates, mode, view, held>>

\* persist_state_transition: record and registry summary under a journal.
PersistStateTransition(p, id, tx, record) ==
    /\ registry.gen < MaxGeneration
    /\ FreshTx(tx)
    /\ Start(p, "StateTransition", id, record.did, tx, {}, Original, NextGen(record))
    /\ UNCHANGED <<registry, identities, secrets, transactions, updates, mode, view, held>>

SetKeyStates(record, kids, state) ==
    [record EXCEPT !.keys = [k \in Kids |->
        IF k \in kids /\ record.keys[k] # None
        THEN [record.keys[k] EXCEPT !.state = state]
        ELSE record.keys[k]]]

PendingKids(record) ==
    {k \in Kids : record.keys[k] # None /\ record.keys[k].state = "Pending"}

\* The record a verified document leads to; authorized says whether the
\* document still authorizes the local keys (always, when there are none).
Adopted(record, authorized) ==
    IF record.state = "Enrolling"
    THEN [SetKeyStates(record, PendingKids(record), "Active") EXCEPT !.state = "Active"]
    ELSE IF record.state = "Active" /\ ~authorized
         THEN [SetKeyStates(record, record.local, "Revoked") EXCEPT !.state = "Revoked"]
         ELSE record

AdoptVerifiedDocument(p, id, tx, authorized) ==
    /\ IdentityCurrent(p, id)
    /\ identities[id].pending = None
    /\ identities[id].state # "Creating"
    /\ identities[id].local = {} => authorized
    /\ identities[id].state = "Enrolling" => authorized
    /\ PersistStateTransition(p, id, tx, Adopted(identities[id], authorized))

AdoptVerifiedSiblingDocument(p, id) ==
    /\ ActiveCurrent(p, id)
    /\ identities[id].pending = None
    /\ identities[id].root = "Active"
    /\ PersistRecord(p, id, identities[id])

\* commit_pending_root, first import: the public root key becomes managed.
ImportRoot(p, id, tx) ==
    /\ ActiveCurrent(p, id)
    /\ identities[id].pending = None
    /\ identities[id].root = "Absent"
    /\ identities[id].keys[RootKid] # None
    /\ registry.gen < MaxGeneration
    /\ FreshTx(tx)
    /\ Start(p, "RootImport", id, identities[id].did, tx, {RootKid}, Original,
             NextGen([identities[id] EXCEPT
                 !.keys[RootKid] = [@ EXCEPT !.managed = TRUE, !.state = "Pending"],
                 !.root = "Pending"]))
    /\ UNCHANGED <<registry, identities, secrets, transactions, updates, mode, view, held>>

\* commit_pending_root when the root is already active: only a replay entry.
ImportActiveRoot(p, id, tx) ==
    /\ ActiveCurrent(p, id)
    /\ identities[id].pending = None
    /\ identities[id].root = "Active"
    /\ PersistStateTransition(p, id, tx, identities[id])

\* A pending update survives; its parent revision may no longer be current.
ConfirmRootPromotion(p, id, tx, sameRevision) ==
    /\ IdentityCurrent(p, id)
    /\ identities[id].root = "Pending"
    /\ identities[id].keys[RootKid] # None
    /\ LET promoted == [identities[id] EXCEPT
                            !.keys[RootKid] = [@ EXCEPT !.state = "Active"],
                            !.root = "Active"]
       IN PersistStateTransition(p, id, tx,
              IF promoted.pending # None /\ ~sameRevision
              THEN [promoted EXCEPT !.pending.based = FALSE]
              ELSE promoted)

-----------------------------------------------------------------------------
(* The durable writes of the handler that holds the lock.                   *)

JournalKind(kind) == IF kind = "Provision" THEN "Create" ELSE kind

WriteJournal ==
    /\ At("journal")
    /\ op.kind \notin UpdateKinds
    /\ transactions' = transactions \cup
          {[tx |-> op.file, kind |-> JournalKind(op.kind), id |-> op.id,
            did |-> op.did, kids |-> op.kids]}
    /\ Advance
    /\ UNCHANGED <<registry, identities, secrets, updates, mode, view, held>>

\* The file is named after the revision: a journal already there is replaced.
WriteUpdateJournal ==
    /\ At("journal")
    /\ op.kind \in UpdateKinds
    /\ updates' = {u \in updates : u.rev # op.file} \cup
          {[rev |-> op.file, kind |-> op.kind, id |-> op.id, kids |-> op.kids]}
    /\ Advance
    /\ UNCHANGED <<registry, identities, secrets, transactions, mode, view, held>>

SealSecret(k) ==
    /\ At("seal")
    /\ k \in op.kids
    /\ secrets[op.id][k] = None
    /\ secrets' = [secrets EXCEPT ![op.id][k] = op.material]
    /\ UNCHANGED <<registry, identities, transactions, updates, op, mode, view, held>>

\* Every secret is there and holds the handler's own key.
SealVerified ==
    /\ At("seal")
    /\ \A k \in op.kids : secrets[op.id][k] = op.material
    /\ Advance
    /\ UNCHANGED <<registry, identities, secrets, transactions, updates, mode, view, held>>

\* AlreadyExists with another key: InvalidIdentity, the journal stays behind.
SealMismatch ==
    /\ At("seal")
    /\ \E k \in op.kids : secrets[op.id][k] \notin {None, op.material}
    /\ op' = None
    /\ UNCHANGED <<registry, identities, secrets, transactions, updates, mode, view, held>>

DropSecret(k) ==
    /\ At("drop")
    /\ k \in op.kids
    /\ secrets[op.id][k] # None
    /\ secrets' = [secrets EXCEPT ![op.id][k] = None]
    /\ UNCHANGED <<registry, identities, transactions, updates, op, mode, view, held>>

SecretsDropped ==
    /\ At("drop")
    /\ \A k \in op.kids : secrets[op.id][k] = None
    /\ Advance
    /\ UNCHANGED <<registry, identities, secrets, transactions, updates, mode, view, held>>

\* write_identity, or remove_identity when a namespace is deleted.
WriteRecord ==
    /\ At("record")
    /\ identities' = [identities EXCEPT ![op.id] = op.record]
    /\ Advance
    /\ UNCHANGED <<registry, secrets, transactions, updates, mode, view, held>>

\* Faulty variant: a creation's summary keeps the state of the record as written.
RegistryEntryAsWritten ==
    IF op.kind = "NamespaceDelete" THEN None ELSE Summary(op.id, op.record)

RegistryEntry ==
    CASE op.kind = "NamespaceDelete" -> None
      [] op.kind = "Create" -> [Summary(op.id, op.record) EXCEPT !.state = "Active"]
      [] OTHER -> Summary(op.id, op.record)

\* A state transition or root import whose identity is not listed any more would
\* end in IdentityNotFound with its journal left; IdentityStoreProofs shows that
\* the identity is listed at this point (HeldIsListed), so the guard never fails.
WriteRegistry ==
    /\ At("registry")
    /\ op.kind \in {"StateTransition", "RootImport"} => Registered(op.id, op.did)
    /\ registry' = [gen |-> registry.gen + 1,
                    ids |-> [registry.ids EXCEPT ![op.did] = RegistryEntry]]
    /\ Advance
    /\ UNCHANGED <<identities, secrets, transactions, updates, mode, view, held>>

ActivateRecord ==
    /\ At("activate")
    /\ identities' = [identities EXCEPT ![op.id] = [op.record EXCEPT !.state = "Active"]]
    /\ Advance
    /\ UNCHANGED <<registry, secrets, transactions, updates, mode, view, held>>

\* The handler removes its journal, releases the lock and refreshes its handle.
Finish ==
    /\ At("unjournal")
    /\ transactions' = IF op.kind \in UpdateKinds THEN transactions
                       ELSE {j \in transactions : j.tx # op.file}
    /\ updates' = IF op.kind \in UpdateKinds THEN {u \in updates : u.rev # op.file}
                  ELSE updates
    /\ view' = IF op.kind \in StoreKinds THEN [view EXCEPT ![op.p] = registry.gen] ELSE view
    /\ held' = IF op.kind = "NamespaceDelete" THEN held
               ELSE [held EXCEPT ![op.p][op.id] = identities[op.id]]
    /\ op' = None
    /\ UNCHANGED <<registry, identities, secrets, mode>>

-----------------------------------------------------------------------------
(* recover(): journals are replayed in file name order, transactions first. *)
(* Each replay is a chain of writes that leaves alone what is already done, *)
(* so the state of the disk says which one comes next.                      *)

StartRecovery(p, kind) ==
    /\ op = None
    /\ mode[p] = (IF kind = "Open" THEN "down" ELSE "up")
    /\ kind = "IdentityReload" => \E id \in Ids : held[p][id] # None
    /\ op' = [p |-> p, kind |-> kind, stage |-> "recover"]
    /\ UNCHANGED <<registry, identities, secrets, transactions, updates, mode, view, held>>

Replays(j) ==
    /\ At("recover")
    /\ j \in transactions
    /\ \A i \in transactions : j.tx <= i.tx

ReplaysUpdate(u) ==
    /\ At("recover")
    /\ transactions = {}
    /\ u \in updates
    /\ \A v \in updates : u.rev <= v.rev

\* The replay reads the identity record and fails when it is not there.
NeedsRecord(j) ==
    \/ j.kind \in {"StateTransition", "RootImport"}
    \/ j.kind = "Create" /\ Registered(j.id, j.did)

\* Faulty variant: a RootImport is undone even when its record was written.
UndoesImportedRoot(j) ==
    \/ j.kind = "NamespaceDelete"
    \/ j.kind = "Create" /\ ~Registered(j.id, j.did)
    \/ j.kind = "RootImport" /\ Readable(j.id, j.did)

\* Faulty variant: a Create is undone even when the registry lists it.
UndoesCommitted(j) ==
    \/ j.kind \in {"NamespaceDelete", "Create"}
    \/ j.kind = "RootImport" /\ Readable(j.id, j.did) /\ ~RootImported(identities[j.id])

\* The replay undoes the journal's secrets rather than completing the write.
Undoes(j) ==
    \/ j.kind = "NamespaceDelete"
    \/ j.kind = "Create" /\ ~Registered(j.id, j.did)
    \/ j.kind = "RootImport" /\ Readable(j.id, j.did) /\ ~RootImported(identities[j.id])

SecretsGone(id, kids) == \A k \in kids : secrets[id][k] = None

IdentityGone(j) == SecretsGone(j.id, j.kids) /\ identities[j.id] = None

\* The replay makes the registry summary follow the record.
Syncs(j) ==
    /\ Readable(j.id, j.did)
    /\ \/ j.kind = "StateTransition"
       \/ j.kind = "RootImport" /\ RootImported(identities[j.id])

Synced(j) == registry.ids[j.did] = Summary(j.id, identities[j.id])

ReplayDropSecret(j, k) ==
    /\ Replays(j)
    /\ Undoes(j)
    /\ k \in j.kids
    /\ secrets[j.id][k] # None
    /\ secrets' = [secrets EXCEPT ![j.id][k] = None]
    /\ UNCHANGED <<registry, identities, transactions, updates, op, mode, view, held>>

ReplayRemoveIdentity(j) ==
    /\ Replays(j)
    /\ Undoes(j)
    /\ j.kind # "RootImport"
    /\ SecretsGone(j.id, j.kids)
    /\ identities[j.id] # None
    /\ identities' = [identities EXCEPT ![j.id] = None]
    /\ UNCHANGED <<registry, secrets, transactions, updates, op, mode, view, held>>

ReplayDeregister(j) ==
    /\ Replays(j)
    /\ j.kind = "NamespaceDelete"
    /\ IdentityGone(j)
    /\ Registered(j.id, j.did)
    /\ registry' = [gen |-> registry.gen + 1,
                    ids |-> [registry.ids EXCEPT ![j.did] = None]]
    /\ UNCHANGED <<identities, secrets, transactions, updates, op, mode, view, held>>

ReplaySync(j) ==
    /\ Replays(j)
    /\ Syncs(j)
    /\ ~Synced(j)
    /\ registry' = [gen |-> registry.gen + 1,
                    ids |-> [registry.ids EXCEPT ![j.did] = Summary(j.id, identities[j.id])]]
    /\ UNCHANGED <<identities, secrets, transactions, updates, op, mode, view, held>>

ReplayActivate(j) ==
    /\ Replays(j)
    /\ j.kind = "Create"
    /\ Registered(j.id, j.did)
    /\ Readable(j.id, j.did)
    /\ identities[j.id].state = "Creating"
    /\ identities' = [identities EXCEPT ![j.id].state = "Active"]
    /\ UNCHANGED <<registry, secrets, transactions, updates, op, mode, view, held>>

\* Faulty variant: a transition is forgotten before the registry follows it.
SettledUnsynced(j) ==
    \/ j.kind = "NamespaceDelete" /\ IdentityGone(j) /\ ~Registered(j.id, j.did)
    \/ j.kind = "Create" /\ ~Registered(j.id, j.did) /\ IdentityGone(j)
    \/ /\ j.kind = "Create" /\ Registered(j.id, j.did)
       /\ Readable(j.id, j.did) /\ identities[j.id].state # "Creating"
    \/ j.kind = "RootImport" /\ Undoes(j) /\ SecretsGone(j.id, j.kids)
    \/ Syncs(j)

\* Nothing of the journal is left to do.
Settled(j) ==
    \/ j.kind = "NamespaceDelete" /\ IdentityGone(j) /\ ~Registered(j.id, j.did)
    \/ j.kind = "Create" /\ ~Registered(j.id, j.did) /\ IdentityGone(j)
    \/ /\ j.kind = "Create" /\ Registered(j.id, j.did)
       /\ Readable(j.id, j.did) /\ identities[j.id].state # "Creating"
    \/ j.kind = "RootImport" /\ Undoes(j) /\ SecretsGone(j.id, j.kids)
    \/ Syncs(j) /\ Synced(j)

ReplayForget(j) ==
    /\ Replays(j)
    /\ Settled(j)
    /\ transactions' = transactions \ {j}
    /\ UNCHANGED <<registry, identities, secrets, updates, op, mode, view, held>>

\* Faulty variant: recovery drops the pending revision under the same generation.
ReplayClearPendingSameGen(u) ==
    /\ ReplaysUpdate(u)
    /\ u.kind = "Cleanup"
    /\ identities[u.id] # None
    /\ PendingIs(identities[u.id], u.rev)
    /\ identities' = [identities EXCEPT ![u.id].pending = None]
    /\ UNCHANGED <<registry, secrets, transactions, updates, op, mode, view, held>>

\* A Cleanup whose record still carries the pending revision drops it first.
ReplayClearPending(u) ==
    /\ ReplaysUpdate(u)
    /\ u.kind = "Cleanup"
    /\ identities[u.id] # None
    /\ PendingIs(identities[u.id], u.rev)
    /\ identities' = [identities EXCEPT ![u.id] = NextGen([@ EXCEPT !.pending = None])]
    /\ UNCHANGED <<registry, secrets, transactions, updates, op, mode, view, held>>

ReplayDropPendingSecret(u, k) ==
    /\ ReplaysUpdate(u)
    /\ identities[u.id] # None
    /\ ~PendingIs(identities[u.id], u.rev)
    /\ k \in u.kids
    /\ secrets[u.id][k] # None
    /\ secrets' = [secrets EXCEPT ![u.id][k] = None]
    /\ UNCHANGED <<registry, identities, transactions, updates, op, mode, view, held>>

\* Faulty variant: the journal is removed before the secrets it names.
ReplayForgetUpdateEarly(u) ==
    /\ ReplaysUpdate(u)
    /\ identities[u.id] # None
    /\ PendingIs(identities[u.id], u.rev) => u.kind = "Prepare"
    /\ updates' = updates \ {u}
    /\ UNCHANGED <<registry, identities, secrets, transactions, op, mode, view, held>>

ReplayForgetUpdate(u) ==
    /\ ReplaysUpdate(u)
    /\ identities[u.id] # None
    /\ IF PendingIs(identities[u.id], u.rev)
       THEN u.kind = "Prepare"
       ELSE SecretsGone(u.id, u.kids)
    /\ updates' = updates \ {u}
    /\ UNCHANGED <<registry, identities, secrets, transactions, op, mode, view, held>>

\* A replay that reads a missing record makes the whole recovery fail.
RecoveryStuck ==
    \/ \E j \in transactions : Replays(j) /\ NeedsRecord(j) /\ ~Readable(j.id, j.did)
    \/ \E u \in updates : ReplaysUpdate(u) /\ identities[u.id] = None

RecoveryFails ==
    /\ RecoveryStuck
    /\ op' = None
    /\ UNCHANGED <<registry, identities, secrets, transactions, updates, mode, view, held>>

\* The lock is released before the registry is read again.
RecoveryDone ==
    /\ At("recover")
    /\ transactions = {}
    /\ updates = {}
    /\ op' = None
    /\ mode' = [mode EXCEPT ![op.p] =
                   CASE op.kind = "DeleteReload" -> "rereading"
                     [] op.kind = "IdentityReload" -> "reopening"
                     [] OTHER -> "reading"]
    /\ UNCHANGED <<registry, identities, secrets, transactions, updates, view, held>>

\* The unlocked read_registry at the end of recover().
ReadRegistry(p) ==
    /\ mode[p] \in {"reading", "rereading"}
    /\ view' = [view EXCEPT ![p] = registry.gen]
    /\ mode' = [mode EXCEPT ![p] = IF @ = "reading" THEN "up" ELSE "opening"]
    /\ UNCHANGED <<registry, identities, secrets, transactions, updates, op, held>>

-----------------------------------------------------------------------------
(* Processes.                                                               *)

Idle(p) == ~(op # None /\ op.p = p)

\* open_identity reads the registry and then the record, without the lock.
\* The record only moves ahead of its summary, so the pair is read at once.
OpenIdentity(p, id, did) ==
    /\ mode[p] = "up"
    /\ Idle(p)
    /\ Openable(id, did)
    /\ held' = [held EXCEPT ![p][id] = identities[id]]
    /\ UNCHANGED <<registry, identities, secrets, transactions, updates, op, mode, view>>

\* The end of DidIdentity::reload: the handle keeps its record on an error.
ReloadIdentity(p, id) ==
    /\ mode[p] = "reopening"
    /\ held[p][id] # None
    /\ held' = IF Openable(id, held[p][id].did)
               THEN [held EXCEPT ![p][id] = identities[id]]
               ELSE held
    /\ mode' = [mode EXCEPT ![p] = "up"]
    /\ UNCHANGED <<registry, identities, secrets, transactions, updates, op, view>>

Crash(p) ==
    /\ mode[p] # "down" \/ ~Idle(p)
    /\ op' = IF Idle(p) THEN op ELSE None
    /\ mode' = [mode EXCEPT ![p] = "down"]
    /\ view' = [view EXCEPT ![p] = 0]
    /\ held' = [held EXCEPT ![p] = [i \in Ids |-> None]]
    /\ UNCHANGED <<registry, identities, secrets, transactions, updates>>

\* A write fails: the handler returns the error and drops the lock.
IoError ==
    /\ IoErrors
    /\ op # None
    /\ op' = None
    /\ UNCHANGED <<registry, identities, secrets, transactions, updates, mode, view, held>>

StoreHandler(p) ==
    \E did \in Dids, tx \in TxIds, id \in Ids :
        \/ \E kids \in CreateKeySets : CreateIdentity(p, did, id, tx, kids)
        \/ PrepareEnrollment(p, did, id, tx)
        \/ \E kid \in SigningKids : PrepareRequestSigningEnrollment(p, did, id, tx, kid)
        \/ ImportDeviceIdentity(p, did, id, tx)
        \/ \E kid \in SigningKids : ImportRequestSigningIdentity(p, did, id, tx, kid)
        \/ \E kids \in CreateKeySets : ImportIdentity(p, did, id, tx, kids)
        \/ \E discard \in BOOLEAN : DeleteIdentity(p, id, did, tx, discard)
        \/ DiscardUnpublishedEnrollment(p, id, did, tx)

UpdateHandler(p) ==
    \E id \in Ids :
        \/ \E rev \in Revs :
            \/ PrepareUpdate(p, id, rev, {}, {})
            \/ \E o, n \in SigningKids : PrepareUpdate(p, id, rev, {o}, {n})
        \/ BeginPublication(p, id)
        \/ MarkPublicationUncertain(p, id)
        \/ RejectPublicationBeforeAcceptance(p, id)
        \/ ReconcileRemoteOld(p, id)
        \/ CommitPending(p, id)
        \/ AbortUpdate(p, id)

TransitionHandler(p) ==
    \E id \in Ids :
        \/ \E tx \in TxIds :
            \/ \E authorized \in BOOLEAN : AdoptVerifiedDocument(p, id, tx, authorized)
            \/ ImportRoot(p, id, tx)
            \/ ImportActiveRoot(p, id, tx)
            \/ \E sameRevision \in BOOLEAN : ConfirmRootPromotion(p, id, tx, sameRevision)
        \/ AdoptVerifiedSiblingDocument(p, id)

\* A durable write of the handler that holds the lock.
HandlerStep ==
    \/ WriteJournal \/ WriteUpdateJournal
    \/ \E k \in Kids : SealSecret(k) \/ DropSecret(k)
    \/ SealVerified \/ SealMismatch \/ SecretsDropped
    \/ WriteRecord \/ WriteRegistry \/ ActivateRecord \/ Finish

\* A durable write of a recovery, or its end.
RecoveryStep ==
    \/ \E j \in transactions :
        \/ \E k \in Kids : ReplayDropSecret(j, k)
        \/ ReplayRemoveIdentity(j) \/ ReplayDeregister(j) \/ ReplaySync(j)
        \/ ReplayActivate(j) \/ ReplayForget(j)
    \/ \E u \in updates :
        \/ \E k \in Kids : ReplayDropPendingSecret(u, k)
        \/ ReplayClearPending(u) \/ ReplayForgetUpdate(u)
    \/ RecoveryFails \/ RecoveryDone

ProcessStep(p) ==
    \/ \E kind \in RecoveryKinds : StartRecovery(p, kind)
    \/ ReadRegistry(p)
    \/ \E id \in Ids : ReloadIdentity(p, id)
    \/ \E did \in Dids :
        \/ \E id \in Ids : OpenIdentity(p, id, did) \/ OpenForDelete(p, id, did)
        \/ DeleteAlreadyDone(p, did) \/ DeleteRefused(p, did)

Next ==
    \/ \E p \in Procs : \/ StoreHandler(p) \/ UpdateHandler(p) \/ TransitionHandler(p)
                        \/ ProcessStep(p) \/ Crash(p)
    \/ HandlerStep \/ RecoveryStep \/ IoError

Spec == Init /\ [][Next]_vars

\* A process that holds the lock goes on unless it crashes, and a process that
\* is down is started again.
Fairness ==
    /\ WF_vars(HandlerStep)
    /\ WF_vars(RecoveryStep)
    /\ \A p \in Procs : WF_vars(StartRecovery(p, "Open")) /\ WF_vars(ReadRegistry(p))

FairSpec == Spec /\ Fairness

-----------------------------------------------------------------------------
(* Properties.                                                              *)

\* The files, the lock and the handles have the shape the code gives them.
TypeOK ==
    /\ registry \in [gen : Nat, ids : [Dids -> IdentitySummary \cup {None}]]
    /\ identities \in [Ids -> IdentityRecord \cup {None}]
    /\ secrets \in [Ids -> [Kids -> Materials \cup {None}]]
    /\ transactions \subseteq CreationJournal
    /\ updates \subseteq UpdateJournal
    /\ op \in Work \cup Recovery \cup {None}
    /\ mode \in [Procs -> Modes]
    /\ view \in [Procs -> Nat]
    /\ held \in [Procs -> [Ids -> IdentityRecord \cup {None}]]

Journaled(id, kind) == \E j \in transactions : j.id = id /\ j.kind = kind

\* A record file the registry does not list belongs to an interrupted creation:
\* its Create journal is still there, so recovery will remove the record.
UnlistedRecordIsJournaled ==
    \A id \in Ids : identities[id] # None /\ ~Registered(id, identities[id].did)
                        => Journaled(id, "Create")

\* A registry entry without a record file belongs to an interrupted deletion.
MissingRecordIsJournaled ==
    \A id \in Ids, did \in Dids : Registered(id, did) /\ identities[id] = None
                                    => Journaled(id, "NamespaceDelete")

\* A registry summary that differs from its record is covered by a journal whose
\* replay brings the two together.
StaleSummaryIsJournaled ==
    \A id \in Ids, did \in Dids : Registered(id, did) /\ identities[id] # None =>
        /\ identities[id].did = did
        /\ \/ registry.ids[did] = Summary(id, identities[id])
           \/ identities[id].state = "Creating" /\ Journaled(id, "Create")
           \/ Journaled(id, "StateTransition")
           \/ RootImported(identities[id]) /\ Journaled(id, "RootImport")

\* The journals protect creation, enrollment, import, root transfer, state
\* transitions and deletion from partial writes: registry and records agree, or
\* a journal that recover() replays says how to make them agree.
RegistryAgreement ==
    /\ UnlistedRecordIsJournaled
    /\ MissingRecordIsJournaled
    /\ StaleSummaryIsJournaled

\* A handle whose generation is current holds exactly the record on disk, so a
\* check made on the cached record (required_pending) is a check of the disk.
HandleCoherence ==
    \A p \in Procs, id \in Ids :
        held[p][id] # None /\ identities[id] # None =>
            /\ held[p][id].gen <= identities[id].gen
            /\ held[p][id].gen = identities[id].gen => held[p][id] = identities[id]

\* A listed identity that is not being deleted.
Living(id) ==
    /\ identities[id] # None
    /\ Registered(id, identities[id].did)
    /\ ~Journaled(id, "NamespaceDelete")

\* The key can be opened and is the key the record names.
Opens(id, k) == secrets[id][k] = identities[id].keys[k].material

\* Every managed key of a listed identity that is not being deleted, and the
\* new key of its pending revision, can be opened and is the key the record names.
KeysHaveSecrets ==
    \A id \in Ids : Living(id) =>
        /\ \A k \in ManagedKids(identities[id]) : Opens(id, k)
        /\ identities[id].pending # None =>
              \A k \in identities[id].pending.new :
                  secrets[id][k] = identities[id].pending.rev

\* The key of a managed root can be opened, whatever other processes did to the
\* record beside a RootImport journal that an interrupted import left: its replay
\* decides by the record it finds then, and never undoes an import that is in it.
RootKeyHasSecret ==
    \A id \in Ids : Living(id) /\ RootKid \in ManagedKids(identities[id])
                        => Opens(id, RootKid)

\* A sealed secret of an existing identity is named by its record, by a journal
\* or by the handler at work: no secret is forgotten while its identity lives.
SecretsAccountedFor ==
    \A id \in Ids, k \in Kids :
        identities[id] # None /\ secrets[id][k] # None =>
            \/ k \in ManagedKids(identities[id])
            \/ identities[id].pending # None /\ k \in identities[id].pending.new
            \/ \E j \in transactions : j.id = id /\ k \in j.kids
            \/ \E u \in updates : u.id = id /\ k \in u.kids

\* When no handler runs and no journal is left, a deleted identity has left no
\* secret behind.
NoOrphanSecrets ==
    op = None /\ transactions = {} /\ updates = {} =>
        \A id \in Ids : identities[id] = None => SecretsGone(id, Kids)

\* Recovery never meets a journal whose replay it cannot finish.
RecoveryNeverStuck == ~RecoveryStuck

RemovedUnderDeletion ==
    \A id \in Ids :
        /\ identities[id] # None /\ identities'[id] = None
        /\ Registered(id, identities[id].did)
        => Journaled(id, "NamespaceDelete")

\* A record the registry lists is removed only under a NamespaceDelete journal:
\* replaying a Create journal that outlived its handler never takes it away.
OnlyDeletionRemoves == [][RemovedUnderDeletion]_vars

ReplacedBySuccessor ==
    \A id \in Ids :
        identities[id] # None /\ identities'[id] # None /\ identities'[id] # identities[id] =>
            \/ identities'[id].gen = identities[id].gen + 1
            \/ identities[id].state = "Creating" /\ identities'[id].gen = identities[id].gen

\* A record is only replaced by its successor generation; the one exception is
\* the activation of a record nobody has been able to open.
RecordGenerationAdvances == [][ReplacedBySuccessor]_vars

\* An update whose publication is in flight, so that its candidate document may
\* be the published one, leaves the record only by being committed: neither a
\* handler nor a recovery drops it.
InFlightIsKept ==
    [][\A id \in Ids :
        /\ identities[id] # None /\ identities'[id] # None
        /\ identities[id].pending # None
        /\ identities[id].pending.state = "InFlight"
        /\ ~PendingIs(identities'[id], identities[id].pending.rev)
        => op = None /\ identities'[id].keys = CommittedKeys(identities[id])]_vars

\* A process dies.  An open whose recovery fails leaves the same state as a crash
\* during that recovery: such a step is the failure, not an interruption.
Interrupted == (\E p \in Procs : Crash(p)) /\ ~RecoveryFails

\* Once processes stop dying, a store that is down is opened again: recovery ends,
\* and it ends well, whatever was left by the interrupted handlers.  An open that
\* fails every time violates this, however often it is tried.
StoreReopens ==
    <>[][~Interrupted]_vars => \A p \in Procs : mode[p] = "down" ~> mode[p] = "up"

=============================================================================
