-------------------------- MODULE IdentityStoreInv --------------------------
(***************************************************************************)
(* The inductive invariant of IdentityStore, for every number of processes,*)
(* identities, keys, transactions and revisions, with crashes and failing  *)
(* writes; and the proof that every handler starts in a state satisfying it.*)
(*                                                                         *)
(* The invariant says, for every stage of every handler, what the handler  *)
(* has written and what nobody else can have changed since it took the lock,*)
(* and which journals must still be on disk.                               *)
(***************************************************************************)
EXTENDS IdentityStore, TLAPS

\* A handler, not a recovery, holds the lock.
Working == op # None /\ op.stage # "recover"

\* The handler's own journal.
OpJournal ==
    [tx |-> op.file, kind |-> JournalKind(op.kind), id |-> op.id,
     did |-> op.did, kids |-> op.kids]

\* The lock holder is at a stage of its own handler, and its journal's name and
\* the record it writes are of the kind the handler uses.
HandlerShape ==
    Working =>
        /\ op \in Work
        /\ op.stage \in DOMAIN Order[op.kind] \cup {"unjournal"}
        /\ op.file \in (IF op.kind \in UpdateKinds THEN Revs ELSE TxIds)
        /\ IF op.kind = "NamespaceDelete" THEN op.record = None
           ELSE op.record \in IdentityRecord /\ op.record.did = op.did

\* Everything that connects an identity id with a DID.
Names(id, did) ==
    \/ identities[id] # None /\ identities[id].did = did
    \/ Registered(id, did)
    \/ \E j \in transactions : j.id = id /\ j.did = did
    \/ Working /\ op.id = id /\ op.did = did

\* Records, registry, journals and the lock holder agree on an identity's DID.
OneDidPerId ==
    \A id \in Ids, d, e \in Dids : Names(id, d) /\ Names(id, e) => d = e

\* A handler past its journal write still has its journal, under a name that is
\* its own.
JournalKept ==
    Working /\ op.kind \notin UpdateKinds =>
        /\ op.stage # "journal" => OpJournal \in transactions
        /\ \A j \in transactions : j.tx = op.file => op.stage # "journal" /\ j = OpJournal

\* A record in state Creating is unknown to the handles, no transition of it is
\* journalled, and if it is listed its summary already says Active.
CreatingIsHidden ==
    \A id \in Ids : identities[id] # None /\ identities[id].state = "Creating" =>
        /\ identities[id].root # "Pending"
        /\ \A p \in Procs : held[p][id] = None
        /\ \A j \in transactions : j.id = id => j.kind \notin {"StateTransition", "RootImport"}
        /\ \A did \in Dids : Registered(id, did) =>
              /\ registry.ids[did].state = "Active"
              /\ registry.ids[did].root = identities[id].root

\* A held identity, and one with a journalled transition, is listed as long as
\* its record exists.
HeldIsListed ==
    \A id \in Ids : identities[id] # None =>
        /\ (\E p \in Procs : held[p][id] # None) => Registered(id, identities[id].did)
        /\ \A j \in transactions :
              j.id = id /\ j.kind \in {"StateTransition", "RootImport"}
                  => Registered(id, identities[id].did)

\* Creation, enrollment and import, stage by stage.
ProvisionStages ==
    Working /\ op.kind \in {"Create", "Provision"} =>
        /\ op.record.root # "Pending"
        /\ op.record.state = "Creating" <=> op.kind = "Create"
        /\ \A j \in transactions : j.id = op.id => j.kind = "Create"
        /\ op.stage \in {"journal", "seal", "record", "registry"} =>
              /\ registry.ids[op.did] = None
              /\ \A p \in Procs : held[p][op.id] = None
        /\ op.stage \in {"journal", "seal", "record"} => identities[op.id] = None
        /\ op.stage \in {"registry", "activate"} => identities[op.id] = op.record
        /\ op.stage = "activate" =>
              registry.ids[op.did] = [id |-> op.id, state |-> "Active", root |-> op.record.root]

\* Deletion, stage by stage.
DeleteStages ==
    Working /\ op.kind = "NamespaceDelete" =>
        /\ op.stage # "unjournal" => Registered(op.id, op.did)
        /\ op.stage \in {"registry", "unjournal"} => identities[op.id] = None
        /\ op.stage = "unjournal" => ~Registered(op.id, op.did)

\* Two records with the same summary and the same root key.
SameEntry(r, s) ==
    /\ r.did = s.did /\ r.state = s.state /\ r.root = s.root
    /\ r.keys[RootKid] = s.keys[RootKid]

\* Updates, adoptions and root transfers, stage by stage.
IdentityStages ==
    Working /\ op.kind \in IdentityKinds =>
        /\ identities[op.id] # None
        /\ Registered(op.id, op.did)
        /\ identities[op.id].state # "Creating"
        /\ op.record.state # "Creating"
        /\ op.kind = "RootImport" => RootImported(op.record)
        /\ op.kind \in UpdateKinds => SameEntry(op.record, identities[op.id])
        /\ op.stage \in {"journal", "seal", "record"} =>
              op.record.gen = identities[op.id].gen + 1
        /\ op.stage = "registry" => identities[op.id] = op.record

\* Before a handler other than a deletion removes its journal, the registry
\* summarises its record.
UnjournalStage ==
    Working /\ op.stage = "unjournal" /\ op.kind \notin UpdateKinds \cup {"NamespaceDelete"} =>
        /\ identities[op.id] # None
        /\ identities[op.id].state # "Creating"
        /\ registry.ids[op.did] = Summary(op.id, identities[op.id])

IndInv ==
    /\ TypeOK /\ HandlerShape /\ OneDidPerId /\ JournalKept
    /\ CreatingIsHidden /\ HeldIsListed
    /\ ProvisionStages /\ DeleteStages /\ IdentityStages /\ UnjournalStage
    /\ RegistryAgreement /\ HandleCoherence

\* First-order steps go to Zenon; the leaves with arithmetic or larger updates of
\* functions and records name the SMT solver.
USE Zenon

-----------------------------------------------------------------------------
(* The order of the writes.                                                 *)

\* What follows each stage of each handler, and which stages it has.
LEMMA OrderTable ==
    /\ DOMAIN Order["Create"] = {"journal", "seal", "record", "registry", "activate"}
    /\ Order["Create"]["journal"] = "seal"
    /\ Order["Create"]["seal"] = "record"
    /\ Order["Create"]["record"] = "registry"
    /\ Order["Create"]["registry"] = "activate"
    /\ Order["Create"]["activate"] = "unjournal"
    /\ DOMAIN Order["Provision"] = {"journal", "seal", "record", "registry"}
    /\ Order["Provision"]["journal"] = "seal"
    /\ Order["Provision"]["seal"] = "record"
    /\ Order["Provision"]["record"] = "registry"
    /\ Order["Provision"]["registry"] = "unjournal"
    /\ DOMAIN Order["StateTransition"] = {"journal", "record", "registry"}
    /\ Order["StateTransition"]["journal"] = "record"
    /\ Order["StateTransition"]["record"] = "registry"
    /\ Order["StateTransition"]["registry"] = "unjournal"
    /\ DOMAIN Order["RootImport"] = {"journal", "seal", "record", "registry"}
    /\ Order["RootImport"]["journal"] = "seal"
    /\ Order["RootImport"]["seal"] = "record"
    /\ Order["RootImport"]["record"] = "registry"
    /\ Order["RootImport"]["registry"] = "unjournal"
    /\ DOMAIN Order["NamespaceDelete"] = {"journal", "drop", "record", "registry"}
    /\ Order["NamespaceDelete"]["journal"] = "drop"
    /\ Order["NamespaceDelete"]["drop"] = "record"
    /\ Order["NamespaceDelete"]["record"] = "registry"
    /\ Order["NamespaceDelete"]["registry"] = "unjournal"
    /\ DOMAIN Order["Prepare"] = {"journal", "seal", "record"}
    /\ Order["Prepare"]["journal"] = "seal"
    /\ Order["Prepare"]["seal"] = "record"
    /\ Order["Prepare"]["record"] = "unjournal"
    /\ DOMAIN Order["Cleanup"] = {"journal", "record", "drop"}
    /\ Order["Cleanup"]["journal"] = "record"
    /\ Order["Cleanup"]["record"] = "drop"
    /\ Order["Cleanup"]["drop"] = "unjournal"
BY DEF Order, CreateOrder

\* A handler moves from one of its stages to another of them or to the last.
LEMMA OrderStages ==
    ASSUME NEW kind \in WorkKinds, NEW stage \in DOMAIN Order[kind]
    PROVE  Order[kind][stage] \in (DOMAIN Order[kind] \cup {"unjournal"}) \cap Stages
BY SMTT(60), OrderTable DEF WorkKinds, StoreKinds, IdentityKinds, UpdateKinds, Stages

-----------------------------------------------------------------------------
(* The records the handlers write are identity records.                     *)

\* The next generation of a record keeps everything but the generation.
LEMMA NextGenType ==
    ASSUME NEW r \in IdentityRecord
    PROVE  /\ NextGen(r) \in IdentityRecord
           /\ NextGen(r).gen = r.gen + 1
           /\ SameEntry(NextGen(r), r)
           /\ NextGen(r).pending = r.pending
           /\ NextGen(r).keys = r.keys
BY SMTT(60) DEF NextGen, IdentityRecord, SameEntry

\* A created, enrolled or imported record is an identity record.
LEMMA NewRecordType ==
    ASSUME NEW did \in Dids, NEW state \in IdentityStates, NEW root \in RootStates,
           NEW managed \in SUBSET Kids, NEW keyState \in KeyStates, NEW local \in SUBSET Kids
    PROVE  /\ NewRecord(did, state, root, managed, keyState, local) \in IdentityRecord
           /\ NewRecord(did, state, root, managed, keyState, local).did = did
           /\ NewRecord(did, state, root, managed, keyState, local).state = state
           /\ NewRecord(did, state, root, managed, keyState, local).root = root
<1>1. NewKeys(did, managed, keyState) \in [Kids -> KeyMetadata \cup {None}]
  BY DEF NewKeys, KeyMetadata, KeyStates, Materials
<1>2. QED
  BY <1>1 DEF NewRecord, IdentityRecord

\* A committed update leaves well-formed keys and the root key alone.
LEMMA CommittedKeysType ==
    ASSUME NEW r \in IdentityRecord, r.pending # None
    PROVE  /\ CommittedKeys(r) \in [Kids -> KeyMetadata \cup {None}]
           /\ CommittedKeys(r)[RootKid] = r.keys[RootKid]
<1>1. r.pending \in PendingRevision /\ r.keys \in [Kids -> KeyMetadata \cup {None}]
  BY DEF IdentityRecord
<1>2. r.pending.rev \in Materials /\ r.pending.new \subseteq SigningKids
        /\ r.pending.old \subseteq SigningKids
  BY <1>1 DEF PendingRevision, Materials
<1>3. RootKid \in Kids /\ RootKid \notin SigningKids
  BY ConstantsAssumption DEF Kids
<1>4. ASSUME NEW k \in Kids
      PROVE  CommittedKeys(r)[k] \in KeyMetadata \cup {None}
  <2>1. CASE k \in r.pending.new
    BY <1>2, <2>1 DEF CommittedKeys, KeyMetadata, KeyStates
  <2>2. CASE k \notin r.pending.new
    BY <1>1, <2>2 DEF CommittedKeys, KeyMetadata, KeyStates
  <2>3. QED
    BY <2>1, <2>2
<1>5. CommittedKeys(r) \in [Kids -> KeyMetadata \cup {None}]
  BY <1>4 DEF CommittedKeys
<1>6. QED
  BY <1>2, <1>3, <1>5 DEF CommittedKeys

\* Changing the state of some keys leaves the rest of the record alone.
LEMMA SetKeyStatesType ==
    ASSUME NEW r \in IdentityRecord, NEW kids \in SUBSET Kids, NEW state \in KeyStates
    PROVE  /\ SetKeyStates(r, kids, state) \in IdentityRecord
           /\ SetKeyStates(r, kids, state).did = r.did
           /\ SetKeyStates(r, kids, state).gen = r.gen
<1>1. r.keys \in [Kids -> KeyMetadata \cup {None}]
  BY DEF IdentityRecord
<1> DEFINE keys == [k \in Kids |-> IF k \in kids /\ r.keys[k] # None
                                  THEN [r.keys[k] EXCEPT !.state = state] ELSE r.keys[k]]
<1>2. keys \in [Kids -> KeyMetadata \cup {None}]
  BY <1>1 DEF KeyMetadata
<1>3. SetKeyStates(r, kids, state) = [r EXCEPT !.keys = keys]
  BY DEF SetKeyStates
<1> HIDE DEF keys
<1>4. QED
  BY <1>2, <1>3 DEF IdentityRecord

\* An adopted document leads to a record with the same DID and root state.
LEMMA AdoptedType ==
    ASSUME NEW r \in IdentityRecord, NEW authorized \in BOOLEAN
    PROVE  /\ Adopted(r, authorized) \in IdentityRecord
           /\ Adopted(r, authorized).did = r.did
           /\ Adopted(r, authorized).gen = r.gen
           /\ r.state # "Creating" => Adopted(r, authorized).state # "Creating"
<1>1. r.local \subseteq Kids /\ PendingKids(r) \subseteq Kids
  BY DEF IdentityRecord, PendingKids
<1> DEFINE enrolled == SetKeyStates(r, PendingKids(r), "Active")
           revoked == SetKeyStates(r, r.local, "Revoked")
<1>2. /\ enrolled \in IdentityRecord /\ enrolled.did = r.did /\ enrolled.gen = r.gen
      /\ revoked \in IdentityRecord /\ revoked.did = r.did /\ revoked.gen = r.gen
  BY <1>1, SetKeyStatesType DEF KeyStates
<1>3. Adopted(r, authorized) \in {[enrolled EXCEPT !.state = "Active"],
                                  [revoked EXCEPT !.state = "Revoked"], r}
  BY DEF Adopted
<1> HIDE DEF enrolled, revoked
<1>4. CASE Adopted(r, authorized) = [enrolled EXCEPT !.state = "Active"]
  BY <1>2, <1>4 DEF IdentityRecord, IdentityStates
<1>5. CASE Adopted(r, authorized) = [revoked EXCEPT !.state = "Revoked"]
  BY <1>2, <1>5 DEF IdentityRecord, IdentityStates
<1>6. CASE Adopted(r, authorized) = r
  BY <1>6
<1>7. QED
  BY <1>3, <1>4, <1>5, <1>6
-----------------------------------------------------------------------------
(* Taking the lock.  Every handler that writes under a journal starts in a   *)
(* state that satisfies its first stage and leaves the disk alone.           *)

Started ==
    /\ op = None
    /\ UNCHANGED <<registry, identities, secrets, transactions, updates, view, held>>
    /\ mode' \in [Procs -> Modes]
    /\ op' \in Work /\ op'.stage = "journal"
    /\ HandlerShape'
    /\ op'.kind \notin UpdateKinds => FreshTx(op'.file)
    /\ op'.kind \in {"Create", "Provision"} => FreshId(op'.id)
    /\ ProvisionStages' /\ DeleteStages' /\ IdentityStages'

\* A creation, enrollment or import that passes its guards is a good start.
LEMMA ProvisionStarted ==
    ASSUME IndInv,
           NEW p \in Procs, NEW kind \in {"Create", "Provision"}, NEW did \in Dids,
           NEW id \in Ids, NEW tx \in TxIds, NEW managed \in SUBSET Kids,
           NEW record \in IdentityRecord,
           record.did = did, record.root # "Pending",
           record.state = "Creating" <=> kind = "Create",
           Provision(p, kind, did, id, tx, managed, record)
    PROVE  Started
<1>1. /\ op = None /\ registry.ids[did] = None /\ FreshId(id) /\ FreshTx(tx)
      /\ UNCHANGED <<registry, identities, secrets, transactions, updates, mode, view, held>>
      /\ op' = [p |-> p, kind |-> kind, stage |-> "journal", id |-> id, did |-> did,
                file |-> tx, kids |-> managed, material |-> Original, record |-> record]
  BY DEF Provision, StoreCurrent, Start
<1>2. op' \in Work /\ op'.stage = "journal" /\ op'.kind = kind /\ op'.file = tx
        /\ op'.id = id /\ op'.did = did /\ op'.record = record
  BY <1>1 DEF Work, WorkKinds, StoreKinds, Stages, Materials
<1>3. kind \notin UpdateKinds /\ kind \notin IdentityKinds /\ kind # "NamespaceDelete"
  BY DEF UpdateKinds, IdentityKinds
<1>4. HandlerShape'
  BY SMTT(60), <1>2, <1>3, OrderTable DEF HandlerShape, Working
<1>5. ProvisionStages'
  BY <1>1, <1>2 DEF ProvisionStages, Working, FreshId
<1>6. DeleteStages' /\ IdentityStages'
  BY <1>2, <1>3 DEF DeleteStages, IdentityStages, Working
<1>7. mode' \in [Procs -> Modes]
  BY <1>1 DEF IndInv, TypeOK
<1>8. QED
  BY <1>1, <1>2, <1>3, <1>4, <1>5, <1>6, <1>7 DEF Started, FreshId, FreshTx, Registered

\* A deletion that passes its guards is a good start.
LEMMA DeleteStarted ==
    ASSUME IndInv,
           NEW p \in Procs, NEW id \in Ids, NEW did \in Dids, NEW tx \in TxIds,
           op = None, Registered(id, did), Readable(id, did), FreshTx(tx),
           Start(p, "NamespaceDelete", id, did, tx, ManagedKids(identities[id]), Original, None),
           UNCHANGED <<registry, identities, secrets, transactions, updates, view, held>>,
           mode' \in [Procs -> Modes]
    PROVE  Started
<1>1. ManagedKids(identities[id]) \subseteq Kids
  BY DEF ManagedKids
<1>2. /\ op' \in Work /\ op'.stage = "journal" /\ op'.kind = "NamespaceDelete"
      /\ op'.file = tx /\ op'.id = id /\ op'.did = did /\ op'.record = None
  BY <1>1 DEF Start, Work, WorkKinds, StoreKinds, Stages, Materials
<1>3. "NamespaceDelete" \notin UpdateKinds /\ "NamespaceDelete" \notin IdentityKinds
  BY DEF UpdateKinds, IdentityKinds
<1>4. HandlerShape'
  BY <1>2, <1>3, OrderTable DEF HandlerShape, Working
<1>5. ProvisionStages' /\ DeleteStages' /\ IdentityStages'
  BY <1>2, <1>3 DEF ProvisionStages, DeleteStages, IdentityStages, Working, Registered
<1>6. QED
  BY <1>2, <1>3, <1>4, <1>5 DEF Started, FreshTx

\* A multi-write handler on a current handle is a good start.
LEMMA IdentityStarted ==
    ASSUME IndInv,
           NEW p \in Procs, NEW kind \in IdentityKinds, NEW id \in Ids, NEW file,
           NEW kids \in SUBSET Kids, NEW material \in Materials, NEW record \in IdentityRecord,
           op = None, held[p][id] # None, identities[id] # None,
           file \in (IF kind \in UpdateKinds THEN Revs ELSE TxIds),
           kind \notin UpdateKinds => FreshTx(file),
           record.did = identities[id].did,
           record.gen = identities[id].gen + 1,
           record.state # "Creating",
           kind = "RootImport" => RootImported(record),
           kind \in UpdateKinds => SameEntry(record, identities[id]),
           Start(p, kind, id, identities[id].did, file, kids, material, record),
           UNCHANGED <<registry, identities, secrets, transactions, updates, mode, view, held>>
    PROVE  Started
<1>1. identities[id] \in IdentityRecord
  BY DEF IndInv, TypeOK
<1>2. identities[id].did \in Dids
  BY <1>1 DEF IdentityRecord
<1>3. identities[id].state # "Creating"
  BY DEF IndInv, CreatingIsHidden
<1>4. Registered(id, identities[id].did)
  BY DEF IndInv, HeldIsListed
<1>5. kind \in WorkKinds /\ kind \notin {"Create", "Provision", "NamespaceDelete"}
  BY DEF IdentityKinds, WorkKinds, UpdateKinds
<1>6. /\ op' \in Work /\ op'.stage = "journal" /\ op'.kind = kind /\ op'.file = file
      /\ op'.id = id /\ op'.did = identities[id].did /\ op'.record = record
  BY <1>2, <1>5 DEF Start, Work, Stages
<1>7. HandlerShape'
  <2>1. "journal" \in DOMAIN Order[kind]
    BY SMTT(60), OrderTable DEF IdentityKinds, UpdateKinds
  <2>2. QED
    BY <1>5, <1>6, <2>1 DEF HandlerShape, Working
<1>8. ProvisionStages' /\ DeleteStages'
  BY <1>5, <1>6 DEF ProvisionStages, DeleteStages, Working
<1>9. IdentityStages'
  BY <1>3, <1>4, <1>6 DEF IdentityStages, Registered, RootImported, SameEntry
<1>10. mode' \in [Procs -> Modes]
  BY DEF IndInv, TypeOK
<1>11. QED
  BY <1>5, <1>6, <1>7, <1>8, <1>9, <1>10 DEF Started, FreshTx

\* Every store handler starts well.
LEMMA StoreHandlerStarts ==
    ASSUME IndInv, NEW p \in Procs, StoreHandler(p)
    PROVE  Started
<1>1. PICK did \in Dids, tx \in TxIds, id \in Ids :
        \/ \E kids \in CreateKeySets : CreateIdentity(p, did, id, tx, kids)
        \/ PrepareEnrollment(p, did, id, tx)
        \/ \E kid \in SigningKids : PrepareRequestSigningEnrollment(p, did, id, tx, kid)
        \/ ImportDeviceIdentity(p, did, id, tx)
        \/ \E kid \in SigningKids : ImportRequestSigningIdentity(p, did, id, tx, kid)
        \/ \E kids \in CreateKeySets : ImportIdentity(p, did, id, tx, kids)
        \/ \E discard \in BOOLEAN : DeleteIdentity(p, id, did, tx, discard)
        \/ DiscardUnpublishedEnrollment(p, id, did, tx)
  BY DEF StoreHandler
<1>2. /\ DeviceKids \in SUBSET Kids
      /\ \A kid \in SigningKids : {kid} \in SUBSET Kids
      /\ \A kids \in CreateKeySets :
            /\ kids \in SUBSET Kids /\ kids \cup {RootKid} \in SUBSET Kids
            /\ LocalDevice(kids) \in SUBSET Kids
  BY ConstantsAssumption DEF Kids, LocalDevice
<1>a. /\ "Creating" \in IdentityStates /\ "Enrolling" \in IdentityStates
      /\ "Active" \in IdentityStates /\ "Absent" \in RootStates /\ "Active" \in RootStates
      /\ "Pending" \in KeyStates /\ "Active" \in KeyStates
  BY DEF IdentityStates, RootStates, KeyStates
<1>3. ASSUME NEW kids \in CreateKeySets, CreateIdentity(p, did, id, tx, kids)
      PROVE  Started
  <2> DEFINE managed == IF did \in WbaDids THEN kids \cup {RootKid} ELSE kids
             root == IF did \in WbaDids THEN "Active" ELSE "Absent"
             record == NewRecord(did, "Creating", root, managed, "Active", LocalDevice(kids))
  <2>1. Provision(p, "Create", did, id, tx, managed, record)
    BY <1>3 DEF CreateIdentity
  <2>2. managed \in SUBSET Kids /\ root \in RootStates /\ root # "Pending"
    BY <1>2, <1>a
  <2> HIDE DEF managed, root
  <2>3. /\ record \in IdentityRecord /\ record.did = did /\ record.root = root
        /\ record.state = "Creating"
    BY SMTT(60), <1>2, <1>a, <2>2, NewRecordType
  <2> HIDE DEF record
  <2>4. QED
    BY <2>1, <2>2, <2>3, ProvisionStarted
<1>4. ASSUME PrepareEnrollment(p, did, id, tx)
      PROVE  Started
  <2> DEFINE record == NewRecord(did, "Enrolling", "Absent", DeviceKids, "Pending", DeviceKids)
  <2>1. Provision(p, "Provision", did, id, tx, DeviceKids, record)
    BY <1>4 DEF PrepareEnrollment
  <2>2. /\ record \in IdentityRecord /\ record.did = did
        /\ record.root = "Absent" /\ record.state = "Enrolling"
    BY SMTT(60), <1>2, <1>a, NewRecordType
  <2> HIDE DEF record
  <2>3. record.root # "Pending" /\ record.state # "Creating"
    BY <2>2
  <2>4. QED
    BY <1>2, <2>1, <2>2, <2>3, ProvisionStarted
<1>5. ASSUME NEW kid \in SigningKids, PrepareRequestSigningEnrollment(p, did, id, tx, kid)
      PROVE  Started
  <2> DEFINE record == NewRecord(did, "Enrolling", "Absent", {kid}, "Pending", {kid})
  <2>1. Provision(p, "Provision", did, id, tx, {kid}, record)
    BY <1>5 DEF PrepareRequestSigningEnrollment
  <2>2. /\ record \in IdentityRecord /\ record.did = did
        /\ record.root = "Absent" /\ record.state = "Enrolling"
    BY SMTT(60), <1>2, <1>a, NewRecordType
  <2> HIDE DEF record
  <2>3. record.root # "Pending" /\ record.state # "Creating"
    BY <2>2
  <2>4. QED
    BY <1>2, <2>1, <2>2, <2>3, ProvisionStarted
<1>6. ASSUME ImportDeviceIdentity(p, did, id, tx)
      PROVE  Started
  <2> DEFINE record == NewRecord(did, "Active", "Absent", DeviceKids, "Active", DeviceKids)
  <2>1. Provision(p, "Provision", did, id, tx, DeviceKids, record)
    BY <1>6 DEF ImportDeviceIdentity
  <2>2. /\ record \in IdentityRecord /\ record.did = did
        /\ record.root = "Absent" /\ record.state = "Active"
    BY SMTT(60), <1>2, <1>a, NewRecordType
  <2> HIDE DEF record
  <2>3. record.root # "Pending" /\ record.state # "Creating"
    BY <2>2
  <2>4. QED
    BY <1>2, <2>1, <2>2, <2>3, ProvisionStarted
<1>7. ASSUME NEW kid \in SigningKids, ImportRequestSigningIdentity(p, did, id, tx, kid)
      PROVE  Started
  <2> DEFINE record == NewRecord(did, "Active", "Absent", {kid}, "Active", {kid})
  <2>1. Provision(p, "Provision", did, id, tx, {kid}, record)
    BY <1>7 DEF ImportRequestSigningIdentity
  <2>2. /\ record \in IdentityRecord /\ record.did = did
        /\ record.root = "Absent" /\ record.state = "Active"
    BY SMTT(60), <1>2, <1>a, NewRecordType
  <2> HIDE DEF record
  <2>3. record.root # "Pending" /\ record.state # "Creating"
    BY <2>2
  <2>4. QED
    BY <1>2, <2>1, <2>2, <2>3, ProvisionStarted
<1>8. ASSUME NEW kids \in CreateKeySets, ImportIdentity(p, did, id, tx, kids)
      PROVE  Started
  <2> DEFINE record == NewRecord(did, "Active", "Active", kids \cup {RootKid}, "Active",
                                 LocalDevice(kids))
  <2>1. Provision(p, "Provision", did, id, tx, kids \cup {RootKid}, record)
    BY <1>8 DEF ImportIdentity
  <2>2. /\ record \in IdentityRecord /\ record.did = did
        /\ record.root = "Active" /\ record.state = "Active"
    BY SMTT(60), <1>2, <1>a, NewRecordType
  <2> HIDE DEF record
  <2>3. record.root # "Pending" /\ record.state # "Creating"
    BY <2>2
  <2>4. QED
    BY <1>2, <2>1, <2>2, <2>3, ProvisionStarted
<1>9. ASSUME NEW discard \in BOOLEAN, DeleteIdentity(p, id, did, tx, discard)
      PROVE  Started
  <2>1. mode' \in [Procs -> Modes]
    BY <1>9 DEF DeleteIdentity, IndInv, TypeOK, Modes
  <2>2. QED
    BY <1>9, <2>1, DeleteStarted DEF DeleteIdentity, Deletable
<1>10. ASSUME DiscardUnpublishedEnrollment(p, id, did, tx)
       PROVE  Started
  <2>1. mode' \in [Procs -> Modes]
    BY <1>10 DEF DiscardUnpublishedEnrollment, IndInv, TypeOK
  <2>2. QED
    BY <1>10, <2>1, DeleteStarted DEF DiscardUnpublishedEnrollment, StoreCurrent
<1>11. QED
  BY <1>1, <1>3, <1>4, <1>5, <1>6, <1>7, <1>8, <1>9, <1>10

\* A handler whose only write is the record: the next generation of the record
\* it read, with the same summary.
Persisted ==
    \E p \in Procs, id \in Ids, record \in IdentityRecord :
        /\ op = None /\ held[p][id] # None /\ identities[id] # None
        /\ record.gen = identities[id].gen + 1
        /\ SameEntry(record, identities[id])
        /\ identities' = [identities EXCEPT ![id] = record]
        /\ held' = [held EXCEPT ![p][id] = record]
        /\ UNCHANGED <<registry, secrets, transactions, updates, op, mode, view>>

\* persist_record on a current handle writes the successor record at once.
LEMMA PersistRecordPersists ==
    ASSUME IndInv, NEW p \in Procs, NEW id \in Ids, NEW r \in IdentityRecord,
           IdentityCurrent(p, id), r.gen = identities[id].gen, SameEntry(r, identities[id]),
           PersistRecord(p, id, r)
    PROVE  Persisted
<1>1. NextGen(r) \in IdentityRecord /\ NextGen(r).gen = identities[id].gen + 1
  BY NextGenType
<1>2. SameEntry(NextGen(r), identities[id])
  BY NextGenType DEF SameEntry
<1>3. QED
  BY <1>1, <1>2 DEF PersistRecord, IdentityCurrent, Persisted

\* Replacing the pending revision keeps everything else of a record.
LEMMA PendingUpdate ==
    ASSUME NEW r \in IdentityRecord, NEW pending \in PendingRevision \cup {None}
    PROVE  /\ [r EXCEPT !.pending = pending] \in IdentityRecord
           /\ [r EXCEPT !.pending = pending].gen = r.gen
           /\ SameEntry([r EXCEPT !.pending = pending], r)
BY DEF IdentityRecord, SameEntry

\* Every handler of a document update starts well or is a single record write.
LEMMA UpdateHandlerStarts ==
    ASSUME IndInv, NEW p \in Procs, UpdateHandler(p)
    PROVE  Started \/ Persisted
<1>1. PICK id \in Ids :
        \/ \E rev \in Revs :
            \/ PrepareUpdate(p, id, rev, {}, {})
            \/ \E o, n \in SigningKids : PrepareUpdate(p, id, rev, {o}, {n})
        \/ BeginPublication(p, id)
        \/ MarkPublicationUncertain(p, id)
        \/ RejectPublicationBeforeAcceptance(p, id)
        \/ ReconcileRemoteOld(p, id)
        \/ CommitPending(p, id)
        \/ AbortUpdate(p, id)
  BY DEF UpdateHandler
<1> DEFINE record == identities[id]
<1>2. record # None => record \in IdentityRecord
  BY DEF IndInv, TypeOK
<1>3. ASSUME NEW rev \in Revs, NEW old \in SUBSET SigningKids, NEW new \in SUBSET SigningKids,
             PrepareUpdate(p, id, rev, old, new)
      PROVE  Started
  <2> DEFINE pending == [rev |-> rev, state |-> "Prepared", based |-> TRUE,
                         new |-> new, old |-> old]
             changed == [record EXCEPT !.pending = pending]
  <2>1. /\ op = None /\ held[p][id] # None /\ record # None /\ record.state = "Active"
        /\ Start(p, "Prepare", id, record.did, rev, new, rev, NextGen(changed))
        /\ UNCHANGED <<registry, identities, secrets, transactions, updates, mode, view, held>>
    BY <1>3 DEF PrepareUpdate, ActiveCurrent, IdentityCurrent
  <2>2. pending \in PendingRevision
    BY DEF PendingRevision, PublicationStates
  <2>3. changed \in IdentityRecord /\ changed.gen = record.gen /\ SameEntry(changed, record)
    BY <1>2, <2>1, <2>2, PendingUpdate
  <2> HIDE DEF changed
  <2> DEFINE next == NextGen(changed)
  <2>4. /\ next \in IdentityRecord /\ next.gen = record.gen + 1
        /\ SameEntry(next, record) /\ next.did = record.did /\ next.state # "Creating"
    BY SMTT(60), <2>1, <2>3, NextGenType DEF SameEntry
  <2>5. "Prepare" \in IdentityKinds /\ "Prepare" \in UpdateKinds /\ rev \in Materials
        /\ new \in SUBSET Kids
    BY DEF IdentityKinds, UpdateKinds, Materials, Kids
  <2> HIDE DEF next
  <2>6. QED
    BY SMTT(60), <2>1, <2>4, <2>5, IdentityStarted DEF next
<1>4. ASSUME NEW expected, NEW next \in PublicationStates,
             TransitionPublication(p, id, expected, next)
      PROVE  Persisted
  <2> DEFINE changed == [record EXCEPT !.pending.state = next]
  <2>1. IdentityCurrent(p, id) /\ record # None /\ record.pending # None
        /\ PersistRecord(p, id, changed)
    BY <1>4 DEF TransitionPublication, ActiveCurrent, IdentityCurrent
  <2>2. changed \in IdentityRecord /\ changed.gen = record.gen /\ SameEntry(changed, record)
    BY <1>2, <2>1 DEF IdentityRecord, PendingRevision, SameEntry
  <2> HIDE DEF changed
  <2>3. QED
    BY <2>1, <2>2, PersistRecordPersists
<1>5. ASSUME CommitPending(p, id)
      PROVE  Persisted
  <2> DEFINE changed == [record EXCEPT !.pending = None, !.keys = CommittedKeys(record)]
  <2>1. IdentityCurrent(p, id) /\ record # None /\ record.pending # None
        /\ PersistRecord(p, id, changed)
    BY <1>5 DEF CommitPending, ActiveCurrent, IdentityCurrent
  <2>2. /\ CommittedKeys(record) \in [Kids -> KeyMetadata \cup {None}]
        /\ CommittedKeys(record)[RootKid] = record.keys[RootKid]
    BY <1>2, <2>1, CommittedKeysType
  <2>3. changed \in IdentityRecord /\ changed.gen = record.gen /\ SameEntry(changed, record)
    BY <1>2, <2>1, <2>2 DEF IdentityRecord, SameEntry
  <2> HIDE DEF changed
  <2>4. QED
    BY <2>1, <2>3, PersistRecordPersists
<1>6. ASSUME AbortUpdate(p, id)
      PROVE  Started
  <2> DEFINE changed == [record EXCEPT !.pending = None]
             next == NextGen(changed)
  <2>1. /\ op = None /\ held[p][id] # None /\ record # None /\ record.state = "Active"
        /\ record.pending # None
        /\ Start(p, "Cleanup", id, record.did, record.pending.rev, record.pending.new,
                 Original, next)
        /\ UNCHANGED <<registry, identities, secrets, transactions, updates, mode, view, held>>
    BY <1>6 DEF AbortUpdate, ActiveCurrent, IdentityCurrent
  <2>2. record.pending.rev \in Revs /\ record.pending.new \in SUBSET Kids
    BY <1>2, <2>1 DEF IdentityRecord, PendingRevision, Kids
  <2>3. changed \in IdentityRecord /\ changed.gen = record.gen /\ SameEntry(changed, record)
    BY <1>2, <2>1, PendingUpdate
  <2> HIDE DEF changed
  <2>4. /\ next \in IdentityRecord /\ next.gen = record.gen + 1
        /\ SameEntry(next, record) /\ next.did = record.did /\ next.state # "Creating"
    BY SMTT(60), <2>1, <2>3, NextGenType DEF SameEntry
  <2>5. "Cleanup" \in IdentityKinds /\ "Cleanup" \in UpdateKinds /\ Original \in Materials
    BY DEF IdentityKinds, UpdateKinds, Materials
  <2> HIDE DEF next
  <2>6. QED
    BY ZenonT(60), <2>1, <2>2, <2>4, <2>5, IdentityStarted
<1>7. {} \in SUBSET SigningKids /\ \A k \in SigningKids : {k} \in SUBSET SigningKids
  OBVIOUS
<1>8. {"Prepared", "InFlight", "Uncertain"} \subseteq PublicationStates
  BY DEF PublicationStates
<1>9. QED
  BY <1>1, <1>3, <1>4, <1>5, <1>6, <1>7, <1>8
     DEF BeginPublication, MarkPublicationUncertain, RejectPublicationBeforeAcceptance,
         ReconcileRemoteOld

\* persist_state_transition on a current handle is a good start.
LEMMA StateTransitionStarted ==
    ASSUME IndInv, NEW p \in Procs, NEW id \in Ids, NEW tx \in TxIds,
           NEW r \in IdentityRecord,
           IdentityCurrent(p, id), r.did = identities[id].did, r.gen = identities[id].gen,
           r.state # "Creating",
           PersistStateTransition(p, id, tx, r)
    PROVE  Started
<1> DEFINE next == NextGen(r)
<1>1. /\ next \in IdentityRecord /\ next.gen = identities[id].gen + 1
      /\ next.did = identities[id].did /\ next.state # "Creating"
  BY SMTT(60), NextGenType DEF SameEntry
<1>2. /\ op = None /\ held[p][id] # None /\ identities[id] # None /\ FreshTx(tx)
      /\ Start(p, "StateTransition", id, identities[id].did, tx, {}, Original, next)
      /\ UNCHANGED <<registry, identities, secrets, transactions, updates, mode, view, held>>
  BY DEF PersistStateTransition, IdentityCurrent
<1>3. /\ "StateTransition" \in IdentityKinds /\ "StateTransition" \notin UpdateKinds
      /\ Original \in Materials /\ {} \in SUBSET Kids
  BY DEF IdentityKinds, UpdateKinds, Materials
<1> HIDE DEF next
<1>4. QED
  BY <1>1, <1>2, <1>3, IdentityStarted

\* Every adoption or root handler starts well or is a single record write.
LEMMA TransitionHandlerStarts ==
    ASSUME IndInv, NEW p \in Procs, TransitionHandler(p)
    PROVE  Started \/ Persisted
<1>1. PICK id \in Ids :
        \/ \E tx \in TxIds :
            \/ \E authorized \in BOOLEAN : AdoptVerifiedDocument(p, id, tx, authorized)
            \/ ImportRoot(p, id, tx)
            \/ ImportActiveRoot(p, id, tx)
            \/ \E sameRevision \in BOOLEAN : ConfirmRootPromotion(p, id, tx, sameRevision)
        \/ AdoptVerifiedSiblingDocument(p, id)
  BY DEF TransitionHandler
<1> DEFINE record == identities[id]
<1>2. record # None => record \in IdentityRecord
  BY DEF IndInv, TypeOK
<1>3. ASSUME NEW tx \in TxIds, NEW authorized \in BOOLEAN,
             AdoptVerifiedDocument(p, id, tx, authorized)
      PROVE  Started
  <2> DEFINE adopted == Adopted(record, authorized)
  <2>1. /\ IdentityCurrent(p, id) /\ record # None /\ record.state # "Creating"
        /\ PersistStateTransition(p, id, tx, adopted)
    BY <1>3 DEF AdoptVerifiedDocument, IdentityCurrent
  <2>2. /\ adopted \in IdentityRecord /\ adopted.did = record.did
        /\ adopted.gen = record.gen /\ adopted.state # "Creating"
    BY <1>2, <2>1, AdoptedType
  <2> HIDE DEF adopted
  <2>3. QED
    BY <2>1, <2>2, StateTransitionStarted
<1>4. ASSUME NEW tx \in TxIds, ImportRoot(p, id, tx)
      PROVE  Started
  <2> DEFINE imported == [record EXCEPT
                             !.keys[RootKid] = [@ EXCEPT !.managed = TRUE, !.state = "Pending"],
                             !.root = "Pending"]
             next == NextGen(imported)
  <2>1. /\ op = None /\ held[p][id] # None /\ record # None /\ record.state = "Active"
        /\ record.keys[RootKid] # None /\ FreshTx(tx)
        /\ Start(p, "RootImport", id, record.did, tx, {RootKid}, Original, next)
        /\ UNCHANGED <<registry, identities, secrets, transactions, updates, mode, view, held>>
    BY <1>4 DEF ImportRoot, ActiveCurrent, IdentityCurrent
  <2>2. /\ RootKid \in Kids /\ record \in IdentityRecord
        /\ record.keys[RootKid] \in KeyMetadata
    BY <1>2, <2>1 DEF IdentityRecord, Kids
  <2> DEFINE key == [record.keys[RootKid] EXCEPT !.managed = TRUE, !.state = "Pending"]
  <2>3. key \in KeyMetadata /\ key.managed = TRUE
    BY <2>2 DEF KeyMetadata, KeyStates
  <2>4. imported = [record EXCEPT !.keys = [record.keys EXCEPT ![RootKid] = key],
                                  !.root = "Pending"]
    BY <2>2 DEF IdentityRecord
  <2> HIDE DEF imported, key
  <2>5. /\ imported \in IdentityRecord /\ imported.gen = record.gen
        /\ imported.did = record.did /\ imported.state = "Active"
        /\ imported.root = "Pending" /\ imported.keys[RootKid] = key
    BY ZenonT(60), <2>1, <2>2, <2>3, <2>4 DEF IdentityRecord, RootStates
  <2>6. /\ next \in IdentityRecord /\ next.gen = record.gen + 1 /\ next.did = record.did
        /\ next.state # "Creating" /\ next.root = "Pending" /\ next.keys[RootKid] = key
    BY SMTT(60), <2>5, NextGenType DEF SameEntry
  <2>7. RootImported(next)
    BY <2>3, <2>6, NoneAssumption DEF RootImported
  <2>8. /\ "RootImport" \in IdentityKinds /\ "RootImport" \notin UpdateKinds
        /\ Original \in Materials /\ {RootKid} \in SUBSET Kids
    BY <2>2 DEF IdentityKinds, UpdateKinds, Materials
  <2> HIDE DEF next
  <2>9. QED
    BY SMTT(60), <2>1, <2>6, <2>7, <2>8, IdentityStarted
<1>5. ASSUME NEW tx \in TxIds, ImportActiveRoot(p, id, tx)
      PROVE  Started
  <2>1. /\ IdentityCurrent(p, id) /\ record # None /\ record.state = "Active"
        /\ PersistStateTransition(p, id, tx, record)
    BY <1>5 DEF ImportActiveRoot, ActiveCurrent, IdentityCurrent
  <2>2. QED
    BY <1>2, <2>1, StateTransitionStarted
<1>6. ASSUME NEW tx \in TxIds, NEW sameRevision \in BOOLEAN,
             ConfirmRootPromotion(p, id, tx, sameRevision)
      PROVE  Started
  <2> DEFINE promoted == [record EXCEPT
                             !.keys[RootKid] = [@ EXCEPT !.state = "Active"],
                             !.root = "Active"]
             unbased == [promoted EXCEPT !.pending.based = FALSE]
             result == IF promoted.pending # None /\ ~sameRevision THEN unbased ELSE promoted
  <2>1. /\ IdentityCurrent(p, id) /\ record # None /\ record.root = "Pending"
        /\ record.keys[RootKid] # None
        /\ PersistStateTransition(p, id, tx, result)
    BY <1>6 DEF ConfirmRootPromotion, IdentityCurrent
  <2>2. /\ RootKid \in Kids /\ record \in IdentityRecord
        /\ record.keys[RootKid] \in KeyMetadata /\ record.state # "Creating"
    BY <1>2, <2>1 DEF IdentityRecord, Kids, IndInv, CreatingIsHidden
  <2> DEFINE key == [record.keys[RootKid] EXCEPT !.state = "Active"]
  <2>3. key \in KeyMetadata
    BY <2>2 DEF KeyMetadata, KeyStates
  <2>4. promoted = [record EXCEPT !.keys = [record.keys EXCEPT ![RootKid] = key],
                                  !.root = "Active"]
    BY <2>2 DEF IdentityRecord
  <2> HIDE DEF promoted, key
  <2>5. /\ promoted \in IdentityRecord /\ promoted.gen = record.gen
        /\ promoted.did = record.did /\ promoted.state # "Creating"
    BY <2>2, <2>3, <2>4 DEF IdentityRecord, RootStates
  <2>6. promoted.pending # None =>
          /\ unbased \in IdentityRecord /\ unbased.gen = record.gen
          /\ unbased.did = record.did /\ unbased.state # "Creating"
    BY <2>5 DEF IdentityRecord, PendingRevision
  <2> HIDE DEF unbased
  <2>7. /\ result \in IdentityRecord /\ result.gen = record.gen
        /\ result.did = record.did /\ result.state # "Creating"
    BY <2>5, <2>6
  <2> HIDE DEF result
  <2>8. QED
    BY <2>1, <2>7, StateTransitionStarted
<1>7. ASSUME AdoptVerifiedSiblingDocument(p, id)
      PROVE  Persisted
  <2>1. IdentityCurrent(p, id) /\ record # None /\ PersistRecord(p, id, record)
    BY <1>7 DEF AdoptVerifiedSiblingDocument, ActiveCurrent, IdentityCurrent
  <2>2. QED
    BY <1>2, <2>1, PersistRecordPersists DEF SameEntry
<1>8. QED
  BY <1>1, <1>3, <1>4, <1>5, <1>6, <1>7

-----------------------------------------------------------------------------
(* Steps that leave the disk alone.                                         *)

\* The agreement of the files does not depend on the lock.
LEMMA SameDisk ==
    ASSUME IndInv, UNCHANGED <<registry, identities, transactions, held>>
    PROVE  RegistryAgreement' /\ CreatingIsHidden' /\ HeldIsListed' /\ HandleCoherence'
<1>1. RegistryAgreement'
  BY SMTT(60) DEF IndInv, RegistryAgreement, UnlistedRecordIsJournaled, MissingRecordIsJournaled,
         StaleSummaryIsJournaled, Registered, Journaled
<1>2. CreatingIsHidden' /\ HeldIsListed' /\ HandleCoherence'
  BY SMTT(60) DEF IndInv, CreatingIsHidden, HeldIsListed, HandleCoherence, Registered
<1>3. QED
  BY <1>1, <1>2

\* Taking the lock for a handler keeps the invariant.
LEMMA StartedPreserves ==
    ASSUME IndInv, Started
    PROVE  IndInv'
<1>1. TypeOK'
  BY DEF IndInv, Started, TypeOK
<1>2. op' # None => Working'
  BY DEF Started, Working
<1>3. OneDidPerId'
  <2>1. op'.id \in Ids /\ op'.did \in Dids /\ ~Working
    BY DEF Started, Work, Working
  <2>2. ASSUME NEW id \in Ids, NEW d \in Dids, Names(id, d)'
        PROVE  Names(id, d) \/ (id = op'.id /\ d = op'.did)
    BY <2>2 DEF Names, Started, Registered
  <2>3. CASE op'.kind \in {"Create", "Provision"}
    <3>1. \A d \in Dids : ~Names(op'.id, d)
      BY <2>1, <2>3 DEF Started, FreshId, Names
    <3>2. QED
      BY SMTT(60), <2>2, <3>1 DEF IndInv, OneDidPerId
  <2>4. CASE op'.kind \notin {"Create", "Provision"} /\ op' # None
    <3>1. Registered(op'.id, op'.did)
      <4>1. op'.kind = "NamespaceDelete" \/ op'.kind \in IdentityKinds
        BY <2>4 DEF Started, Work, WorkKinds, StoreKinds
      <4>2. Registered(op.id, op.did)'
        BY <1>2, <2>4, <4>1 DEF Started, DeleteStages, IdentityStages
      <4>3. QED
        BY <4>2 DEF Started, Registered
    <3>2. Names(op'.id, op'.did)
      BY <3>1 DEF Names
    <3>3. QED
      BY SMTT(60), <2>1, <2>2, <3>2 DEF IndInv, OneDidPerId
  <2>5. CASE op' = None
    <3>1. \A id \in Ids, d \in Dids : Names(id, d)' => Names(id, d)
      BY <2>5 DEF Names, Started, Registered, Working
    <3>2. QED
      BY <3>1 DEF IndInv, OneDidPerId
  <2>6. QED
    BY <2>3, <2>4, <2>5
<1>4. JournalKept'
  BY DEF Started, JournalKept, FreshTx
<1>5. UnjournalStage'
  BY DEF Started, UnjournalStage
<1>6. RegistryAgreement' /\ CreatingIsHidden' /\ HeldIsListed' /\ HandleCoherence'
  BY SameDisk DEF Started
<1>7. QED
  BY <1>1, <1>3, <1>4, <1>5, <1>6 DEF IndInv, Started

\* The handler ends, or fails, without another write.
LEMMA ReleasePreserves ==
    ASSUME IndInv, op' = None,
           UNCHANGED <<registry, identities, secrets, transactions, updates, held>>,
           mode' \in [Procs -> Modes], view' \in [Procs -> Nat]
    PROVE  IndInv'
<1>1. TypeOK'
  BY DEF IndInv, TypeOK
<1>2. ~Working'
  BY DEF Working
<1>3. OneDidPerId'
  <2>1. \A id \in Ids, d \in Dids : Names(id, d)' => Names(id, d)
    BY <1>2 DEF Names, Registered
  <2>2. QED
    BY <2>1 DEF IndInv, OneDidPerId
<1>4. /\ HandlerShape' /\ JournalKept' /\ ProvisionStages' /\ DeleteStages' /\ IdentityStages'
      /\ UnjournalStage'
  BY <1>2 DEF HandlerShape, JournalKept, ProvisionStages, DeleteStages, IdentityStages,
              UnjournalStage
<1>5. QED
  BY <1>1, <1>3, <1>4, SameDisk DEF IndInv

-----------------------------------------------------------------------------
(* Steps that replace a record by its next generation.                      *)

\* The new record has the old one's summary: registry, records and journals agree
\* as they did before.
LEMMA SameEntryAgrees ==
    ASSUME IndInv, NEW id \in Ids, NEW record \in IdentityRecord,
           identities[id] # None, SameEntry(record, identities[id]),
           identities' = [identities EXCEPT ![id] = record],
           UNCHANGED <<registry, transactions>>
    PROVE  RegistryAgreement'
<1>1. record # None
  BY NoneAssumption
<1>2. /\ record.did = identities[id].did /\ record.state = identities[id].state
      /\ Summary(id, record) = Summary(id, identities[id])
  BY DEF SameEntry, Summary
<1>3. RootImported(identities[id]) => RootImported(record)
  BY DEF SameEntry, RootImported
<1>4. /\ identities'[id] = record
      /\ \A i \in Ids : i # id => identities'[i] = identities[i]
  BY DEF IndInv, TypeOK
<1>5. UnlistedRecordIsJournaled'
  BY SMTT(60), <1>1, <1>2, <1>4 DEF IndInv, RegistryAgreement, UnlistedRecordIsJournaled,
                          Registered, Journaled
<1>6. MissingRecordIsJournaled'
  BY SMTT(60), <1>1, <1>4 DEF IndInv, RegistryAgreement, MissingRecordIsJournaled, Registered, Journaled
<1>7. StaleSummaryIsJournaled'
  BY SMTT(60), <1>1, <1>2, <1>3, <1>4
     DEF IndInv, RegistryAgreement, StaleSummaryIsJournaled, Registered, Journaled
<1>8. QED
  BY <1>5, <1>6, <1>7 DEF RegistryAgreement

\* No handle is ahead of the record, or equal to it in generation only.
LEMMA NextGenCoheres ==
    ASSUME IndInv, NEW p \in Procs, NEW id \in Ids, NEW record \in IdentityRecord,
           identities[id] # None, record.gen = identities[id].gen + 1,
           identities' = [identities EXCEPT ![id] = record],
           held' = held \/ held' = [held EXCEPT ![p][id] = record]
    PROVE  HandleCoherence'
<1>1. /\ identities'[id] = record
      /\ \A i \in Ids : i # id => identities'[i] = identities[i]
  BY DEF IndInv, TypeOK
<1>2. \A q \in Procs, i \in Ids :
        held'[q][i] = held[q][i] \/ (i = id /\ held'[q][i] = record)
  BY SMTT(60) DEF IndInv, TypeOK
<1>3. identities[id].gen \in Nat /\ record.gen \in Nat
  BY DEF IndInv, TypeOK, IdentityRecord
<1>4. \A q \in Procs, i \in Ids : held[q][i] # None => held[q][i].gen \in Nat
  BY SMTT(60) DEF IndInv, TypeOK, IdentityRecord
<1>5. SUFFICES ASSUME NEW q \in Procs, NEW i \in Ids,
                      held'[q][i] # None, identities'[i] # None
               PROVE  /\ held'[q][i].gen <= identities'[i].gen
                      /\ held'[q][i].gen = identities'[i].gen => held'[q][i] = identities'[i]
  BY DEF HandleCoherence
<1>6. CASE i # id
  BY SMTT(60), <1>1, <1>2, <1>5, <1>6 DEF IndInv, HandleCoherence
<1>7. CASE i = id /\ held'[q][i] = record
  BY SMTT(60), <1>1, <1>3, <1>7
<1>8. CASE i = id /\ held'[q][i] = held[q][i]
  <2>1. held[q][id].gen <= identities[id].gen
    BY <1>5, <1>8 DEF IndInv, HandleCoherence
  <2>2. QED
    BY SMTT(60), <1>1, <1>3, <1>4, <1>5, <1>8, <2>1
<1>9. QED
  BY <1>2, <1>6, <1>7, <1>8

\* A handler with a single record write keeps the invariant.
LEMMA PersistedPreserves ==
    ASSUME IndInv, Persisted
    PROVE  IndInv'
<1>1. PICK p \in Procs, id \in Ids, record \in IdentityRecord :
        /\ op = None /\ held[p][id] # None /\ identities[id] # None
        /\ record.gen = identities[id].gen + 1
        /\ SameEntry(record, identities[id])
        /\ identities' = [identities EXCEPT ![id] = record]
        /\ held' = [held EXCEPT ![p][id] = record]
        /\ UNCHANGED <<registry, secrets, transactions, updates, op, mode, view>>
  BY DEF Persisted
<1>2. /\ record # None /\ record.did = identities[id].did
      /\ record.state = identities[id].state
  BY <1>1, NoneAssumption DEF SameEntry
<1>3. /\ identities'[id] = record
      /\ \A i \in Ids : i # id => identities'[i] = identities[i]
      /\ \A q \in Procs, i \in Ids :
            held'[q][i] = held[q][i] \/ (i = id /\ held'[q][i] = record)
  BY <1>1 DEF IndInv, TypeOK
<1>4. record.state # "Creating" /\ Registered(id, record.did)
  BY <1>1, <1>2 DEF IndInv, CreatingIsHidden, HeldIsListed
<1>5. TypeOK'
  BY <1>1 DEF IndInv, TypeOK
<1>6. OneDidPerId'
  <2>1. \A i \in Ids, d \in Dids : Names(i, d)' => Names(i, d)
    BY SMTT(60), <1>1, <1>2, <1>3 DEF Names, Registered, Working
  <2>2. QED
    BY <2>1 DEF IndInv, OneDidPerId
<1>7. CreatingIsHidden'
  BY SMTT(60), <1>1, <1>3, <1>4 DEF IndInv, CreatingIsHidden, Registered
<1>8. HeldIsListed'
  BY SMTT(60), <1>1, <1>3, <1>4 DEF IndInv, HeldIsListed, Registered
<1>9. RegistryAgreement'
  BY <1>1, SameEntryAgrees
<1>10. HandleCoherence'
  BY <1>1, NextGenCoheres
<1>11. /\ HandlerShape' /\ JournalKept' /\ ProvisionStages' /\ DeleteStages'
       /\ IdentityStages' /\ UnjournalStage'
  BY <1>1 DEF HandlerShape, JournalKept, ProvisionStages, DeleteStages, IdentityStages,
              UnjournalStage, Working
<1>12. QED
  BY <1>5, <1>6, <1>7, <1>8, <1>9, <1>10, <1>11 DEF IndInv
=============================================================================
